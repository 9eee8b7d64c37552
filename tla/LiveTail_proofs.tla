--------------------------- MODULE LiveTail_proofs ---------------------------
(* Proof, for any filters, logs and sizes, that the live view has one        *)
(* connection at most and that its flags tell the truth about it; and, from  *)
(* that, that no log is lost between connections and none is shown twice.    *)
EXTENDS LiveTail, FiniteSetTheorems, SequenceTheorems, TLAPS

(* What the steps need of types: identifiers grow, and connections are records. *)
Shapes ==
    /\ eventSourceRef \in Nat
    /\ url.id \in Nat \ {0} /\ staged \in Nat /\ staged <= url.id
    /\ context = [open |-> isConnectionOpen, loading |-> isConnectionLoading,
                  error |-> isConnectionError, initial |-> initialLoading]
    /\ isConnectionOpen \in BOOLEAN /\ isConnectionLoading \in BOOLEAN
    /\ \A c \in connections :
          /\ DOMAIN c = {"number", "filter", "open", "cursor", "sent"}
          /\ c.open \in BOOLEAN

(* OneConnection without its last part, which is not inductive: when effects are   *)
(* needed it says nothing, and the effects may find the query staged.              *)
Truthful ==
    /\ \A c \in connections : c.number = eventSourceRef
    /\ \A c, d \in connections : c = d
    /\ (isConnectionOpen \/ isConnectionLoading) <=> connections # {}
    /\ \A c \in connections :
          /\ c.open <=> isConnectionOpen
          /\ c.open => instance = c.number

(* A connection is for the query that is staged. *)
ForStaged == url.id = staged => \A c \in connections : c.filter = url.filter

LiveTailInv == Shapes /\ Truthful /\ ForStaged

LEMMA InvImplies == LiveTailInv => OneConnection
  BY DEF LiveTailInv, Truthful, ForStaged, OneConnection, FlushNeeded, ConnectFires

LEMMA InitInv == Init => LiveTailInv
  <1> SUFFICES ASSUME Init PROVE LiveTailInv
    OBVIOUS
  <1>1. url.id = 1 /\ staged \in {0, 1} /\ connections = {} /\ eventSourceRef = 0
    BY DEF Init
  <1>2. context = Entered
    BY DEF Init
  <1>3. QED
    BY <1>1, <1>2 DEF LiveTailInv, Shapes, Truthful, ForStaged, Entered, isConnectionOpen,
          isConnectionLoading, isConnectionError, initialLoading

(* What Offer leaves in the context. *)
LEMMA OfferFacts ==
    ASSUME NEW open \in BOOLEAN, NEW loading \in BOOLEAN, NEW error, NEW initial,
           Offer(open, loading, error, initial)
    PROVE  /\ isConnectionOpen' = open /\ isConnectionLoading' = loading
           /\ context' = [open |-> isConnectionOpen', loading |-> isConnectionLoading',
                          error |-> isConnectionError', initial |-> initialLoading']
           /\ instance' = IF context' # context THEN eventSourceRef' ELSE instance
           /\ isConnectionOpen # open => instance' = eventSourceRef'
  BY DEF Offer, isConnectionOpen, isConnectionLoading, isConnectionError, initialLoading

(* Closing the connection that was opened last leaves none. *)
LEMMA NoneLeft ==
    ASSUME Truthful
    PROVE  {c \in connections : c.number # eventSourceRef} = {}
  BY DEF Truthful

(* With no connection and the flags down, nothing else matters. *)
LEMMA ClosedInv ==
    ASSUME Shapes', connections' = {}, ~isConnectionOpen', ~isConnectionLoading'
    PROVE  LiveTailInv'
  BY DEF LiveTailInv, Truthful, ForStaged

LEMMA FlushInv ==
    ASSUME LiveTailInv, Flush
    PROVE  LiveTailInv'
  <1> USE DEF LiveTailInv
  <1>1. /\ url' = url
        /\ staged' \in Nat /\ staged' <= url'.id
        /\ url'.id = staged' => staged' = url.id
    BY DEF Flush, Shapes
  <1>2. CASE ConnectFires
    <2>1. Connect
      BY <1>2 DEF Flush
    <2> DEFINE new == [number |-> eventSourceRef + 1, filter |-> url.filter,
                       open |-> FALSE, cursor |-> Begin, sent |-> <<>>]
    <2>2. connections' = {new}
      BY <2>1, NoneLeft DEF Connect, Reconnected
    <2>3. /\ DOMAIN new = {"number", "filter", "open", "cursor", "sent"}
          /\ new.number = eventSourceRef + 1 /\ new.filter = url.filter /\ new.open = FALSE
      OBVIOUS
    <2> HIDE DEF new
    <2>4. /\ isConnectionOpen' = FALSE /\ isConnectionLoading' = TRUE
          /\ context' = [open |-> isConnectionOpen', loading |-> isConnectionLoading',
                         error |-> isConnectionError', initial |-> initialLoading']
      BY <2>1, OfferFacts DEF Connect
    <2>5. eventSourceRef' = eventSourceRef + 1
      BY <2>1 DEF Connect
    <2>6. Shapes'
      <3>1. eventSourceRef' \in Nat
        BY <2>5 DEF Shapes
      <3>2. url'.id \in Nat \ {0} /\ staged' \in Nat /\ staged' <= url'.id
        BY <1>1 DEF Shapes
      <3>3. \A c \in connections' :
               /\ DOMAIN c = {"number", "filter", "open", "cursor", "sent"}
               /\ c.open \in BOOLEAN
        BY <2>2, <2>3
      <3>4. QED
        BY <2>4, <3>1, <3>2, <3>3 DEF Shapes
    <2>7. Truthful'
      BY <2>2, <2>3, <2>4, <2>5 DEF Truthful
    <2>8. ForStaged'
      BY <1>1, <2>2, <2>3 DEF ForStaged
    <2>9. QED
      BY <2>6, <2>7, <2>8
  <1>3. CASE ~ConnectFires
    <2>1. UNCHANGED <<connections, eventSourceRef, context, instance>>
      BY <1>3 DEF Flush
    <2>2. url.id = staged
      BY <1>3 DEF ConnectFires
    <2>3. Shapes'
      BY <1>1, <2>1 DEF Shapes, isConnectionOpen, isConnectionLoading, isConnectionError,
                        initialLoading
    <2>4. Truthful'
      BY <2>1 DEF Truthful, isConnectionOpen, isConnectionLoading
    <2>5. ForStaged'
      BY <1>1, <2>1, <2>2 DEF ForStaged
    <2>6. QED
      BY <2>3, <2>4, <2>5
  <1>4. QED
    BY <1>2, <1>3

(* A connection that is replaced by one with the same number, filter and flag. *)
LEMMA SameConnection ==
    ASSUME LiveTailInv, NEW c \in connections, NEW d,
           DOMAIN d = DOMAIN c,
           d.number = c.number, d.filter = c.filter, d.open = c.open,
           connections' = (connections \ {c}) \cup {d},
           UNCHANGED <<url, staged, eventSourceRef, context, instance>>
    PROVE  LiveTailInv'
  <1> USE DEF LiveTailInv
  <1>1. connections = {c} /\ connections' = {d}
    BY DEF Truthful
  <1>2. Shapes'
    BY <1>1 DEF Shapes, isConnectionOpen, isConnectionLoading, isConnectionError,
                initialLoading
  <1>3. Truthful'
    BY <1>1 DEF Truthful, isConnectionOpen, isConnectionLoading
  <1>4. ForStaged'
    BY <1>1 DEF ForStaged
  <1>5. QED
    BY <1>2, <1>3, <1>4

LEMMA OpenedInv ==
    ASSUME LiveTailInv, NEW c \in connections, Opened(c)
    PROVE  LiveTailInv'
  <1> USE DEF LiveTailInv
  <1> DEFINE d == [c EXCEPT !.open = TRUE]
  <1>1. DOMAIN c = {"number", "filter", "open", "cursor", "sent"}
    BY DEF Shapes
  <1>2. /\ d.number = c.number /\ d.filter = c.filter /\ d.open = TRUE
        /\ DOMAIN d = {"number", "filter", "open", "cursor", "sent"}
    BY <1>1
  <1>3. connections = {c} /\ connections' = {d}
    BY DEF Truthful, Opened
  <1> HIDE DEF d
  <1>4. ~isConnectionOpen /\ c.number = eventSourceRef
    BY DEF Opened, Truthful, Shapes
  <1>5. /\ isConnectionOpen' = TRUE /\ isConnectionLoading' = FALSE
        /\ context' = [open |-> isConnectionOpen', loading |-> isConnectionLoading',
                       error |-> isConnectionError', initial |-> initialLoading']
        /\ isConnectionOpen # TRUE => instance' = eventSourceRef'
    <2>1. Offer(TRUE, FALSE, isConnectionError, FALSE)
      BY DEF Opened
    <2>2. QED
      BY <2>1, OfferFacts
  <1>6. UNCHANGED <<url, staged, eventSourceRef>>
    BY DEF Opened
  <1>7. Shapes'
    BY <1>2, <1>3, <1>5, <1>6 DEF Shapes
  <1>8. Truthful'
    BY <1>2, <1>3, <1>4, <1>5, <1>6 DEF Truthful
  <1>9. ForStaged'
    BY <1>2, <1>3, <1>6 DEF ForStaged
  <1>10. QED
    BY <1>7, <1>8, <1>9

LEMMA TickInv ==
    ASSUME LiveTailInv, NEW c \in connections, Tick(c)
    PROVE  LiveTailInv'
  <1> DEFINE d == [c EXCEPT !.cursor = Max(Rows(c)), !.sent = @ \o OldestFirst(Rows(c))]
  <1>1. DOMAIN c = {"number", "filter", "open", "cursor", "sent"}
    BY DEF LiveTailInv, Shapes
  <1>2. DOMAIN d = DOMAIN c /\ d.number = c.number /\ d.filter = c.filter /\ d.open = c.open
    BY <1>1
  <1>3. connections' = (connections \ {c}) \cup {d}
    BY DEF Tick
  <1>4. UNCHANGED <<url, staged, eventSourceRef, context, instance>>
    BY DEF Tick, client
  <1> HIDE DEF d
  <1>5. QED
    BY <1>2, <1>3, <1>4, SameConnection

LEMMA MessageInv ==
    ASSUME LiveTailInv, NEW c \in connections, Message(c)
    PROVE  LiveTailInv'
  <1> DEFINE d == [c EXCEPT !.sent = Tail(@)]
  <1>1. DOMAIN c = {"number", "filter", "open", "cursor", "sent"}
    BY DEF LiveTailInv, Shapes
  <1>2. DOMAIN d = DOMAIN c /\ d.number = c.number /\ d.filter = c.filter /\ d.open = c.open
    BY <1>1
  <1>3. /\ connections' = (connections \ {c}) \cup {d}
        /\ UNCHANGED <<url, staged, eventSourceRef, context, instance>>
    BY DEF Message
  <1> HIDE DEF d
  <1>4. QED
    BY <1>2, <1>3, SameConnection

(* The connection is closed and the flags are taken down with it. *)
LEMMA TakenDown ==
    ASSUME LiveTailInv, NEW error, NEW initial, Offer(FALSE, FALSE, error, initial),
           connections' = {c \in connections : c.number # eventSourceRef},
           UNCHANGED <<url, staged, eventSourceRef>>
    PROVE  LiveTailInv'
  <1>1. connections' = {}
    BY NoneLeft DEF LiveTailInv
  <1>2. /\ isConnectionOpen' = FALSE /\ isConnectionLoading' = FALSE
        /\ context' = [open |-> isConnectionOpen', loading |-> isConnectionLoading',
                       error |-> isConnectionError', initial |-> initialLoading']
    BY OfferFacts
  <1>3. Shapes'
    BY <1>1, <1>2 DEF LiveTailInv, Shapes
  <1>4. QED
    BY <1>1, <1>2, <1>3, ClosedInv

(* A query that is put into the URL is not the one that is staged: until it is, the *)
(* connection may be for the filter before it.                                      *)
LEMMA RedirectedInv ==
    ASSUME LiveTailInv, NEW filter, Redirected(filter), NEW error, NEW initial,
           Offer(isConnectionOpen, isConnectionLoading, error, initial),
           UNCHANGED <<staged, eventSourceRef, connections>>
    PROVE  LiveTailInv'
  <1> USE DEF LiveTailInv
  <1>1. url'.id = url.id + 1 /\ url'.filter = filter
    BY DEF Redirected
  <1>2. isConnectionOpen \in BOOLEAN /\ isConnectionLoading \in BOOLEAN
    BY DEF Shapes
  <1>3. /\ isConnectionOpen' = isConnectionOpen /\ isConnectionLoading' = isConnectionLoading
        /\ context' = [open |-> isConnectionOpen', loading |-> isConnectionLoading',
                       error |-> isConnectionError', initial |-> initialLoading']
        /\ instance' \in {instance, eventSourceRef}
    BY <1>2, OfferFacts
  <1>4. Shapes'
    BY <1>1, <1>3 DEF Shapes
  <1>5. Truthful'
    BY <1>3 DEF Truthful
  <1>6. ForStaged'
    BY <1>1 DEF ForStaged, Shapes
  <1>7. QED
    BY <1>4, <1>5, <1>6

LEMMA EnterInv ==
    ASSUME LiveTailInv, NEW filter, NEW list, NEW fromExplorer \in BOOLEAN,
           Enter(filter, list, fromExplorer)
    PROVE  LiveTailInv'
  <1>1. connections' = {}
    BY NoneLeft DEF LiveTailInv, Enter
  <1>2. /\ url'.id = url.id + 1 /\ eventSourceRef' = eventSourceRef
        /\ staged' = IF fromExplorer THEN url.id + 1 ELSE 0
        /\ context' = Entered
    BY DEF Enter
  <1>3. /\ isConnectionOpen' = FALSE /\ isConnectionLoading' = FALSE
        /\ context' = [open |-> isConnectionOpen', loading |-> isConnectionLoading',
                       error |-> isConnectionError', initial |-> initialLoading']
    BY <1>2 DEF Entered, isConnectionOpen, isConnectionLoading, isConnectionError,
                initialLoading
  <1>4. url'.id \in Nat \ {0} /\ staged' \in Nat /\ staged' <= url'.id
    <2>1. url.id \in Nat
      BY DEF LiveTailInv, Shapes
    <2>2. CASE fromExplorer
      BY <1>2, <2>1, <2>2
    <2>3. CASE ~fromExplorer
      BY <1>2, <2>1, <2>3
    <2>4. QED
      BY <2>2, <2>3
  <1>5. Shapes'
    BY <1>1, <1>2, <1>3, <1>4 DEF LiveTailInv, Shapes
  <1>6. QED
    BY <1>1, <1>3, <1>5, ClosedInv

(* Steps that touch neither the connections nor what the page says of them. *)
LEMMA ElsewhereInv ==
    ASSUME LiveTailInv,
           UNCHANGED <<url, staged, eventSourceRef, context, instance, connections>>
    PROVE  LiveTailInv'
  BY DEF LiveTailInv, Shapes, Truthful, ForStaged, isConnectionOpen, isConnectionLoading,
         isConnectionError, initialLoading

LEMMA StepInv == LiveTailInv /\ [Next]_vars => LiveTailInv'
  <1> SUFFICES ASSUME LiveTailInv, [Next]_vars PROVE LiveTailInv'
    OBVIOUS
  <1>1. CASE Flush
    BY <1>1, FlushInv
  <1>2. CASE Produce \/ Pass \/ debouncedUpdateLogs \/ UNCHANGED vars
    <2>1. UNCHANGED <<url, staged, eventSourceRef, context, instance, connections>>
      BY <1>2 DEF Produce, Pass, debouncedUpdateLogs, vars, client
    <2>2. QED
      BY <2>1, ElsewhereInv
  <1>3. CASE Pause
    BY <1>3, TakenDown DEF Pause
  <1>4. ASSUME NEW c \in connections, Tick(c) PROVE LiveTailInv'
    BY <1>4, TickInv
  <1>5. ASSUME NEW c \in connections, Opened(c) PROVE LiveTailInv'
    BY <1>5, OpenedInv
  <1>6. ASSUME NEW c \in connections, Message(c) PROVE LiveTailInv'
    BY <1>6, MessageInv
  <1>7. ASSUME NEW c \in connections, Broken(c) PROVE LiveTailInv'
    BY <1>7, TakenDown DEF Broken
  <1>8. ASSUME NEW filter \in Filters, Search(filter) PROVE LiveTailInv'
    BY <1>8, RedirectedInv DEF Search
  <1>9. ASSUME NEW filter \in Filters, Resume(filter) PROVE LiveTailInv'
    <2>1. isConnectionOpen = FALSE /\ isConnectionLoading = FALSE
      BY <1>9 DEF Resume, LiveTailInv, Shapes
    <2>2. Offer(isConnectionOpen, isConnectionLoading, isConnectionError, FALSE)
      BY <1>9, <2>1 DEF Resume
    <2>3. QED
      BY <1>9, <2>2, RedirectedInv DEF Resume
  <1>10. ASSUME NEW filter \in Filters, NEW list \in Prefetched, NEW fromExplorer \in BOOLEAN,
                Enter(filter, list, fromExplorer)
         PROVE  LiveTailInv'
    BY <1>10, EnterInv
  <1>11. QED
    BY <1>1, <1>2, <1>3, <1>4, <1>5, <1>6, <1>7, <1>8, <1>9, <1>10 DEF Next

(* Whatever the filters, the logs and the sizes are: at most one connection, for the  *)
(* query in the URL once effects have run, which the page says that it plays and      *)
(* listens to.                                                                        *)
THEOREM OneConnectionHolds == Spec => []OneConnection
  <1>1. Spec => []LiveTailInv
    BY InitInv, StepInv, PTL DEF Spec
  <1>2. QED
    BY <1>1, InvImplies, PTL

-----------------------------------------------------------------------------
(* What the rows of a tick, the list and the batch are made of.                *)

Ascending(s) == \A i, j \in 1 .. Len(s) : i < j => s[i] < s[j]
Descending(s) == \A i, j \in 1 .. Len(s) : i < j => s[i] > s[j]

(* A set of logs has a newest one. *)
LEMMA MaxFacts ==
    ASSUME NEW S \in SUBSET (1 .. MaxLog), S # {}
    PROVE  Max(S) \in S /\ \A y \in S : y <= Max(S)
  <1> DEFINE T == {n \in Nat : MaxLog - n \in S}
  <1>1. MaxLog \in Nat
    BY LiveTailAssumption
  <1>2. PICK x \in S : TRUE
    OBVIOUS
  <1>3. x \in 1 .. MaxLog
    BY <1>2
  <1>4. MaxLog - x \in Nat /\ MaxLog - (MaxLog - x) = x
    BY <1>1, <1>3
  <1>5. MaxLog - x \in T
    BY <1>2, <1>4
  <1>6. PICK n \in T : \A m \in T : <<m, n>> \notin OpToRel(<, Nat)
    BY <1>5, WFMin, NatLessThanWellFounded
  <1>7. \A m \in T : ~ (m < n)
    BY <1>6 DEF OpToRel
  <1>8. \A y \in S : y <= MaxLog - n
    <2> TAKE y \in S
    <2>1. y \in 1 .. MaxLog
      OBVIOUS
    <2>2. MaxLog - y \in Nat /\ MaxLog - (MaxLog - y) = y
      BY <1>1, <2>1
    <2>3. ~ (MaxLog - y < n) /\ n \in Nat
      BY <1>7, <2>2
    <2>4. QED
      BY <1>1, <2>1, <2>3
  <1>9. \E z \in S : \A y \in S : z >= y
    <2>1. MaxLog - n \in S
      BY <1>6
    <2>2. n \in Nat
      BY <1>6
    <2>3. \A y \in S : MaxLog - n >= y
      <3> TAKE y \in S
      <3>1. y \in 1 .. MaxLog
        OBVIOUS
      <3>2. y \in Int /\ y <= MaxLog - n
        BY <1>8, <3>1
      <3>3. QED
        BY <1>1, <2>2, <3>2
    <2>4. QED
      BY <2>1, <2>3
  <1>10. Max(S) \in S /\ \A y \in S : Max(S) >= y
    BY <1>9 DEF Max
  <1>11. QED
    BY <1>10

LEMMA NewestFacts ==
    ASSUME NEW S \in SUBSET (1 .. MaxLog)
    PROVE  /\ Newest(S) \in 0 .. MaxLog
           /\ \A y \in S : y <= Newest(S)
           /\ S # {} => Newest(S) \in S
  <1>1. MaxLog \in Nat
    BY LiveTailAssumption
  <1>2. CASE S = {}
    BY <1>1, <1>2 DEF Newest
  <1>3. CASE S # {}
    <2>1. Newest(S) \in S /\ \A y \in S : y <= Newest(S)
      BY <1>3, MaxFacts DEF Newest
    <2>2. Newest(S) \in 1 .. MaxLog
      BY <2>1
    <2>3. QED
      BY <1>1, <2>1, <2>2
  <1>4. QED
    BY <1>2, <1>3

LEMMA FiniteLogs ==
    ASSUME NEW S \in SUBSET (1 .. MaxLog)
    PROVE  IsFiniteSet(S) /\ Cardinality(S) \in Nat
  <1>1. 1 \in Int /\ MaxLog \in Int
    BY LiveTailAssumption
  <1>2. IsFiniteSet(1 .. MaxLog)
    BY <1>1, FS_Interval
  <1>3. IsFiniteSet(S)
    BY <1>2, FS_Subset
  <1>4. QED
    BY <1>3, FS_CardinalityType

(* The logs of a set can be put in a sequence, oldest first: the least number of *)
(* logs for which they could not be is none, because the newest can be put last. *)
LEMMA Sortable ==
    ASSUME NEW S \in SUBSET (1 .. MaxLog)
    PROVE  \E s \in [1 .. Cardinality(S) -> S] :
              \A i, j \in 1 .. Cardinality(S) : i < j => s[i] < s[j]
  <1> DEFINE Sorted(R) == \E s \in [1 .. Cardinality(R) -> R] :
                             \A i, j \in 1 .. Cardinality(R) : i < j => s[i] < s[j]
             Bad == {n \in Nat : \E R \in SUBSET (1 .. MaxLog) : Cardinality(R) = n /\ ~Sorted(R)}
  <1>1. MaxLog \in Nat
    BY LiveTailAssumption
  <1>2. \A R \in SUBSET (1 .. MaxLog) : IsFiniteSet(R) /\ Cardinality(R) \in Nat
    BY FiniteLogs
  <1>3. SUFFICES ASSUME Bad # {} PROVE FALSE
    BY <1>2
  <1>4. PICK n \in Bad : \A m \in Bad : <<m, n>> \notin OpToRel(<, Nat)
    BY <1>3, WFMin, NatLessThanWellFounded
  <1>5. \A m \in Bad : ~ (m < n)
    BY <1>4 DEF OpToRel
  <1>6. PICK R \in SUBSET (1 .. MaxLog) : Cardinality(R) = n /\ ~Sorted(R)
    BY <1>4
  <1> HIDE DEF Bad, Sorted
  <1>7. CASE R = {}
    <2>1. Cardinality(R) = 0
      BY <1>7, FS_EmptySet
    <2>2. [i \in 1 .. Cardinality(R) |-> 0] \in [1 .. Cardinality(R) -> R]
      BY <1>7, <2>1
    <2>3. \A i, j \in 1 .. Cardinality(R) : FALSE
      BY <2>1
    <2>4. QED
      BY <1>6, <2>2, <2>3 DEF Sorted
  <1>8. CASE R # {}
    <2> DEFINE Q == R \ {Max(R)}
    <2>1. Max(R) \in R /\ \A y \in R : y <= Max(R)
      BY <1>8, MaxFacts
    <2>2. Q \in SUBSET (1 .. MaxLog) /\ Cardinality(Q) = n - 1 /\ n \in Nat /\ n - 1 \in Nat
      <3>1. Cardinality(Q) = Cardinality(R) - 1
        BY <1>2, <2>1, FS_RemoveElement
      <3>2. Q \in SUBSET (1 .. MaxLog)
        OBVIOUS
      <3>3. Cardinality(Q) \in Nat /\ Cardinality(R) \in Nat
        BY <1>2, <3>2
      <3>4. QED
        BY <1>6, <3>1, <3>2, <3>3
    <2>3. Sorted(Q)
      BY <1>5, <2>2 DEF Bad
    <2>4. PICK s \in [1 .. n - 1 -> Q] : \A i, j \in 1 .. n - 1 : i < j => s[i] < s[j]
      BY <2>2, <2>3 DEF Sorted
    <2> DEFINE t == [i \in 1 .. n |-> IF i = n THEN Max(R) ELSE s[i]]
    <2>5. \A i \in 1 .. n : i # n => i \in 1 .. n - 1 /\ s[i] \in Q
      BY <2>2, <2>4
    <2>6. t \in [1 .. n -> R]
      BY <2>1, <2>5
    <2>7. \A i, j \in 1 .. n : i < j => t[i] < t[j]
      <3> SUFFICES ASSUME NEW i \in 1 .. n, NEW j \in 1 .. n, i < j PROVE t[i] < t[j]
        OBVIOUS
      <3>1. i # n /\ i \in 1 .. n - 1 /\ t[i] = s[i] /\ s[i] \in Q
        BY <2>2, <2>5
      <3>2. CASE j = n
        <4>1. s[i] \in R /\ s[i] <= Max(R) /\ s[i] # Max(R)
          BY <2>1, <3>1
        <4>2. s[i] \in 1 .. MaxLog /\ Max(R) \in 1 .. MaxLog
          BY <2>1, <4>1
        <4>3. s[i] \in Int /\ Max(R) \in Int
          BY <1>1, <4>2
        <4>4. t[j] = Max(R)
          BY <3>2
        <4>5. QED
          BY <3>1, <4>1, <4>3, <4>4
      <3>3. CASE j # n
        BY <2>4, <2>5, <3>1, <3>3
      <3>4. QED
        BY <3>2, <3>3
    <2> HIDE DEF t, Q
    <2>8. Sorted(R)
      BY <1>6, <2>6, <2>7 DEF Sorted
    <2>9. QED
      BY <1>6, <2>8
  <1>9. QED
    BY <1>7, <1>8

(* The rows of a tick, one after the other. *)
LEMMA OldestFirstFacts ==
    ASSUME NEW S \in SUBSET (1 .. MaxLog)
    PROVE  /\ OldestFirst(S) \in Seq(1 .. MaxLog)
           /\ Ascending(OldestFirst(S))
           /\ ToSet(OldestFirst(S)) = S
  <1> DEFINE n == Cardinality(S)
  <1>1. MaxLog \in Nat
    BY LiveTailAssumption
  <1>2. IsFiniteSet(S) /\ n \in Nat
    BY FiniteLogs
  <1> HIDE DEF n
  <1>3. PICK s \in [1 .. n -> S] : \A i, j \in 1 .. n : i < j => s[i] < s[j]
    BY Sortable DEF n
  <1>4. \A t \in [1 .. n -> S] : Len(t) = n
    BY <1>2
  <1>5. \A i, j \in 1 .. n : i # j => s[i] # s[j]
    <2> SUFFICES ASSUME NEW i \in 1 .. n, NEW j \in 1 .. n, i # j PROVE s[i] # s[j]
      OBVIOUS
    <2>1. s[i] \in 1 .. MaxLog /\ s[j] \in 1 .. MaxLog
      BY <1>3
    <2>2. i < j \/ j < i
      BY <1>2
    <2>3. QED
      BY <1>3, <2>1, <2>2
  <1>6. s \in SetToSeqs(S) /\ IsSorted(s, <)
    BY <1>3, <1>4, <1>5 DEF SetToSeqs, IsSorted, n
  <1> DEFINE r == OldestFirst(S)
  <1>7. r \in SetToSeqs(S) /\ IsSorted(r, <)
    BY <1>6 DEF OldestFirst
  <1> HIDE DEF r
  <1>8. r \in [1 .. n -> S] /\ \A i, j \in 1 .. n : i # j => r[i] # r[j]
    BY <1>7 DEF SetToSeqs, n
  <1>9. Len(r) = n /\ DOMAIN r = 1 .. n /\ Ascending(r)
    BY <1>4, <1>7, <1>8 DEF IsSorted, Ascending
  <1>10. r \in Injection(1 .. n, S)
    BY <1>8 DEF Injection, IsInjective
  <1>11. Cardinality(1 .. n) = n /\ IsFiniteSet(1 .. n)
    BY <1>2, FS_Interval
  <1>12. r \in Surjection(1 .. n, S)
    BY <1>2, <1>10, <1>11, FS_Injection DEF n
  <1>13. ToSet(r) = S
    <2>1. \A x \in S : \E i \in 1 .. n : r[i] = x
      BY <1>12 DEF Surjection
    <2>2. ToSet(r) = {r[i] : i \in 1 .. n}
      BY <1>9 DEF ToSet
    <2>3. \A i \in 1 .. n : r[i] \in S
      BY <1>8
    <2>4. QED
      BY <2>1, <2>2, <2>3
  <1>14. r \in Seq(1 .. MaxLog)
    <2>1. r \in [1 .. n -> 1 .. MaxLog]
      BY <1>8
    <2>2. QED
      BY <1>2, <2>1, SeqDef
  <1>15. QED
    BY <1>9, <1>13, <1>14 DEF r

(* Sequences of logs: what they contain, and in which order. *)
Log == 1 .. MaxLog

LEMMA ToSetConcat ==
    ASSUME NEW s \in Seq(Log), NEW t \in Seq(Log)
    PROVE  ToSet(s \o t) = ToSet(s) \cup ToSet(t)
  <1>1. /\ Len(s \o t) = Len(s) + Len(t)
        /\ \A i \in 1 .. Len(s) + Len(t) :
              (s \o t)[i] = IF i <= Len(s) THEN s[i] ELSE t[i - Len(s)]
    BY ConcatProperties
  <1>2. s \o t \in Seq(Log) /\ Len(s) \in Nat /\ Len(t) \in Nat
    BY ConcatProperties, LenProperties
  <1>3. DOMAIN (s \o t) = 1 .. Len(s) + Len(t) /\ DOMAIN s = 1 .. Len(s) /\ DOMAIN t = 1 .. Len(t)
    BY <1>1, <1>2, LenProperties
  <1> DEFINE st == s \o t
  <1>4. \A i \in 1 .. Len(s) : i \in DOMAIN st /\ st[i] = s[i]
    BY <1>1, <1>2, <1>3
  <1>5. \A i \in 1 .. Len(t) : Len(s) + i \in DOMAIN st /\ st[Len(s) + i] = t[i]
    <2> TAKE i \in 1 .. Len(t)
    <2>1. Len(s) + i \in 1 .. Len(s) + Len(t) /\ ~ (Len(s) + i <= Len(s)) /\ Len(s) + i - Len(s) = i
      BY <1>2
    <2>2. QED
      BY <1>1, <1>3, <2>1
  <1>6. \A i \in DOMAIN st : \/ i \in 1 .. Len(s) /\ st[i] = s[i]
                             \/ i - Len(s) \in 1 .. Len(t) /\ st[i] = t[i - Len(s)]
    <2> SUFFICES ASSUME NEW i \in 1 .. Len(s) + Len(t)
                 PROVE  \/ i \in 1 .. Len(s) /\ st[i] = s[i]
                        \/ i - Len(s) \in 1 .. Len(t) /\ st[i] = t[i - Len(s)]
      BY <1>3
    <2>1. st[i] = IF i <= Len(s) THEN s[i] ELSE t[i - Len(s)]
      BY <1>1
    <2>2. i <= Len(s) \/ (i - Len(s) \in 1 .. Len(t) /\ ~ (i <= Len(s)))
      BY <1>2
    <2>3. QED
      BY <1>2, <2>1, <2>2
  <1> HIDE DEF st
  <1>7. ToSet(s) \cup ToSet(t) \subseteq ToSet(st)
    BY <1>3, <1>4, <1>5 DEF ToSet
  <1>8. ToSet(st) \subseteq ToSet(s) \cup ToSet(t)
    BY <1>3, <1>6 DEF ToSet
  <1>9. QED
    BY <1>7, <1>8 DEF st

LEMMA ToSetAppend ==
    ASSUME NEW s \in Seq(Log), NEW x \in Log
    PROVE  Append(s, x) \in Seq(Log) /\ ToSet(Append(s, x)) = ToSet(s) \cup {x}
  <1>1. Append(s, x) = s \o <<x>>
    BY AppendIsConcat
  <1>2. <<x>> \in Seq(Log) /\ ToSet(<<x>>) = {x}
    BY DEF ToSet
  <1>3. QED
    BY <1>1, <1>2, ToSetConcat, AppendProperties

LEMMA ToSetType ==
    ASSUME NEW s \in Seq(Log)
    PROVE  /\ ToSet(s) \in SUBSET Log
           /\ s # <<>> => s[1] \in ToSet(s)
           /\ s = <<>> => ToSet(s) = {}
  <1>1. DOMAIN s = 1 .. Len(s) /\ Len(s) \in Nat /\ \A i \in 1 .. Len(s) : s[i] \in Log
    BY LenProperties, ElementOfSeq
  <1>2. s # <<>> => 1 \in 1 .. Len(s)
    BY <1>1, EmptySeq
  <1>3. s = <<>> => 1 .. Len(s) = {}
    BY <1>1
  <1>4. QED
    BY <1>1, <1>2, <1>3 DEF ToSet

LEMMA AscendingConcat ==
    ASSUME NEW s \in Seq(Log), NEW t \in Seq(Log), Ascending(s), Ascending(t),
           \A x \in ToSet(s), y \in ToSet(t) : x < y
    PROVE  Ascending(s \o t)
  <1>1. /\ Len(s \o t) = Len(s) + Len(t)
        /\ \A i \in 1 .. Len(s) + Len(t) :
              (s \o t)[i] = IF i <= Len(s) THEN s[i] ELSE t[i - Len(s)]
    BY ConcatProperties
  <1>2. Len(s) \in Nat /\ Len(t) \in Nat /\ DOMAIN s = 1 .. Len(s) /\ DOMAIN t = 1 .. Len(t)
    BY LenProperties
  <1> DEFINE st == s \o t
  <1>3. SUFFICES ASSUME NEW i \in 1 .. Len(s) + Len(t), NEW j \in 1 .. Len(s) + Len(t), i < j
                 PROVE  st[i] < st[j]
    BY <1>1 DEF Ascending
  <1>4. CASE j <= Len(s)
    <2>1. i \in 1 .. Len(s) /\ j \in 1 .. Len(s) /\ st[i] = s[i] /\ st[j] = s[j]
      BY <1>1, <1>2, <1>3, <1>4
    <2>2. QED
      BY <1>3, <2>1 DEF Ascending
  <1>5. CASE i <= Len(s) /\ ~ (j <= Len(s))
    <2>1. i \in 1 .. Len(s) /\ j - Len(s) \in 1 .. Len(t) /\ st[i] = s[i] /\ st[j] = t[j - Len(s)]
      BY <1>1, <1>2, <1>3, <1>5
    <2>2. s[i] \in ToSet(s) /\ t[j - Len(s)] \in ToSet(t)
      BY <1>2, <2>1 DEF ToSet
    <2>3. QED
      BY <2>1, <2>2
  <1>6. CASE ~ (i <= Len(s))
    <2>1. /\ i - Len(s) \in 1 .. Len(t) /\ j - Len(s) \in 1 .. Len(t)
          /\ i - Len(s) < j - Len(s)
          /\ st[i] = t[i - Len(s)] /\ st[j] = t[j - Len(s)]
      BY <1>1, <1>2, <1>3, <1>6
    <2>2. QED
      BY <2>1 DEF Ascending
  <1>7. QED
    BY <1>2, <1>3, <1>4, <1>5, <1>6

(* Of logs that arrive oldest first, the first one is older than the others. *)
LEMMA AscendingHead ==
    ASSUME NEW s \in Seq(Log), s # <<>>, Ascending(s)
    PROVE  /\ Head(s) \in Log /\ Tail(s) \in Seq(Log)
           /\ ToSet(s) = {Head(s)} \cup ToSet(Tail(s))
           /\ Ascending(Tail(s))
           /\ \A x \in ToSet(Tail(s)) : Head(s) < x
  <1> DEFINE t == Tail(s)
  <1>1. /\ Head(s) \in Log /\ t \in Seq(Log) /\ Head(s) = s[1]
        /\ Len(t) = Len(s) - 1 /\ \A i \in 1 .. Len(t) : t[i] = s[i + 1]
    BY HeadTailProperties
  <1>2. Len(s) \in Nat \ {0} /\ DOMAIN s = 1 .. Len(s) /\ DOMAIN t = 1 .. Len(t)
    BY <1>1, EmptySeq, LenProperties
  <1> HIDE DEF t
  <1>3. \A i \in 1 .. Len(s) : i = 1 \/ (i - 1 \in 1 .. Len(t) /\ s[i] = t[i - 1])
    BY <1>1, <1>2
  <1>4. \A i \in 1 .. Len(t) : i + 1 \in 1 .. Len(s) /\ t[i] = s[i + 1] /\ s[1] < t[i]
    <2> TAKE i \in 1 .. Len(t)
    <2>1. i + 1 \in 1 .. Len(s) /\ 1 \in 1 .. Len(s) /\ 1 < i + 1
      BY <1>1, <1>2
    <2>2. QED
      BY <1>1, <2>1 DEF Ascending
  <1>5. 1 \in 1 .. Len(s)
    BY <1>2
  <1>6. ToSet(s) = {Head(s)} \cup ToSet(t)
    <2>1. ToSet(s) = {s[i] : i \in 1 .. Len(s)} /\ ToSet(t) = {t[i] : i \in 1 .. Len(t)}
      BY <1>2 DEF ToSet
    <2>2. \A i \in 1 .. Len(s) : s[i] \in {Head(s)} \cup ToSet(t)
      BY <1>1, <1>3, <2>1
    <2>3. \A i \in 1 .. Len(t) : t[i] \in ToSet(s)
      BY <1>4, <2>1
    <2>4. Head(s) \in ToSet(s)
      BY <1>1, <1>5, <2>1
    <2>5. QED
      BY <2>1, <2>2, <2>3, <2>4
  <1>7. Ascending(t)
    <2> SUFFICES ASSUME NEW i \in 1 .. Len(t), NEW j \in 1 .. Len(t), i < j PROVE t[i] < t[j]
      BY DEF Ascending
    <2>1. i + 1 \in 1 .. Len(s) /\ j + 1 \in 1 .. Len(s) /\ i + 1 < j + 1
      BY <1>4, <1>2
    <2>2. QED
      BY <1>4, <2>1 DEF Ascending
  <1>8. \A x \in ToSet(t) : Head(s) < x
    BY <1>1, <1>2, <1>4 DEF ToSet
  <1>9. QED
    BY <1>1, <1>6, <1>7, <1>8 DEF t

LEMMA DescendingConcat ==
    ASSUME NEW s \in Seq(Log), NEW t \in Seq(Log), Descending(s), Descending(t),
           \A x \in ToSet(s), y \in ToSet(t) : y < x
    PROVE  Descending(s \o t)
  <1>1. /\ Len(s \o t) = Len(s) + Len(t)
        /\ \A i \in 1 .. Len(s) + Len(t) :
              (s \o t)[i] = IF i <= Len(s) THEN s[i] ELSE t[i - Len(s)]
    BY ConcatProperties
  <1>2. Len(s) \in Nat /\ Len(t) \in Nat /\ DOMAIN s = 1 .. Len(s) /\ DOMAIN t = 1 .. Len(t)
    BY LenProperties
  <1> DEFINE st == s \o t
  <1>3. SUFFICES ASSUME NEW i \in 1 .. Len(s) + Len(t), NEW j \in 1 .. Len(s) + Len(t), i < j
                 PROVE  st[i] > st[j]
    BY <1>1 DEF Descending
  <1>4. CASE j <= Len(s)
    <2>1. i \in 1 .. Len(s) /\ j \in 1 .. Len(s) /\ st[i] = s[i] /\ st[j] = s[j]
      BY <1>1, <1>2, <1>3, <1>4
    <2>2. QED
      BY <1>3, <2>1 DEF Descending
  <1>5. CASE i <= Len(s) /\ ~ (j <= Len(s))
    <2>1. i \in 1 .. Len(s) /\ j - Len(s) \in 1 .. Len(t) /\ st[i] = s[i] /\ st[j] = t[j - Len(s)]
      BY <1>1, <1>2, <1>3, <1>5
    <2>2. s[i] \in ToSet(s) /\ t[j - Len(s)] \in ToSet(t)
      BY <1>2, <2>1 DEF ToSet
    <2>3. s[i] \in Log /\ t[j - Len(s)] \in Log
      BY <2>1, ElementOfSeq
    <2>4. s[i] \in Int /\ t[j - Len(s)] \in Int
      BY <2>3 DEF Log
    <2>5. QED
      BY <2>1, <2>2, <2>4
  <1>6. CASE ~ (i <= Len(s))
    <2>1. /\ i - Len(s) \in 1 .. Len(t) /\ j - Len(s) \in 1 .. Len(t)
          /\ i - Len(s) < j - Len(s)
          /\ st[i] = t[i - Len(s)] /\ st[j] = t[j - Len(s)]
      BY <1>1, <1>2, <1>3, <1>6
    <2>2. QED
      BY <2>1 DEF Descending
  <1>7. QED
    BY <1>2, <1>3, <1>4, <1>5, <1>6

LEMMA ReverseFacts ==
    ASSUME NEW s \in Seq(Log)
    PROVE  /\ Reverse(s) \in Seq(Log) /\ Len(Reverse(s)) = Len(s)
           /\ ToSet(Reverse(s)) = ToSet(s)
           /\ Ascending(s) => Descending(Reverse(s))
  <1> DEFINE n == Len(s)
             r == Reverse(s)
  <1>1. n \in Nat /\ DOMAIN s = 1 .. n /\ \A i \in 1 .. n : s[i] \in Log
    BY LenProperties, ElementOfSeq
  <1>2. \A i \in 1 .. n : n - i + 1 \in 1 .. n /\ n - (n - i + 1) + 1 = i
    BY <1>1
  <1>3. r = [i \in 1 .. n |-> s[n - i + 1]]
    BY DEF Reverse
  <1> HIDE DEF r, n
  <1>4. r \in [1 .. n -> Log]
    BY <1>1, <1>2, <1>3
  <1>5. r \in Seq(Log)
    BY <1>1, <1>4, SeqDef
  <1>6. DOMAIN r = 1 .. n /\ Len(r) = n
    BY <1>1, <1>4, <1>5, LenProperties
  <1>7. ToSet(r) = ToSet(s)
    <2>1. \A i \in 1 .. n : r[i] \in ToSet(s)
      BY <1>1, <1>2, <1>3 DEF ToSet
    <2>2. \A i \in 1 .. n : s[i] = r[n - i + 1]
      BY <1>2, <1>3
    <2>3. \A i \in 1 .. n : s[i] \in ToSet(r)
      BY <1>2, <1>6, <2>2 DEF ToSet
    <2>4. QED
      BY <1>1, <1>6, <2>1, <2>3 DEF ToSet
  <1>8. ASSUME Ascending(s) PROVE Descending(r)
    <2> SUFFICES ASSUME NEW i \in 1 .. n, NEW j \in 1 .. n, i < j PROVE r[i] > r[j]
      BY <1>6 DEF Descending
    <2>1. n - j + 1 < n - i + 1
      BY <1>1
    <2>2. s[n - j + 1] < s[n - i + 1]
      BY <1>2, <1>8, <2>1 DEF Ascending, n
    <2>3. s[n - j + 1] \in Int /\ s[n - i + 1] \in Int
      BY <1>1, <1>2 DEF Log
    <2>4. QED
      BY <1>3, <2>2, <2>3
  <1>9. QED
    BY <1>5, <1>6, <1>7, <1>8 DEF r, n

(* What fits into the list is the first part of what there is. *)
LEMMA TruncateFacts ==
    ASSUME NEW s \in Seq(Log)
    PROVE  LET r == SubSeq(s, 1, IF Len(s) < ListSize THEN Len(s) ELSE ListSize)
           IN  /\ r \in Seq(Log) /\ Len(r) = (IF Len(s) < ListSize THEN Len(s) ELSE ListSize)
               /\ \A i \in 1 .. Len(r) : r[i] = s[i]
               /\ ToSet(r) \subseteq ToSet(s)
               /\ Descending(s) => Descending(r)
               /\ \A x \in ToSet(s) :
                     \/ x \in ToSet(r)
                     \/ Len(r) = ListSize /\ (Descending(s) => x < r[ListSize])
  <1> DEFINE n == IF Len(s) < ListSize THEN Len(s) ELSE ListSize
             r == SubSeq(s, 1, n)
  <1>1. ListSize \in Nat \ {0} /\ MaxLog \in Nat
    BY LiveTailAssumption
  <1>2. Len(s) \in Nat /\ DOMAIN s = 1 .. Len(s) /\ \A i \in 1 .. Len(s) : s[i] \in Log
    BY LenProperties, ElementOfSeq
  <1>3. n \in Nat /\ n <= Len(s) /\ n <= ListSize
    BY <1>1, <1>2
  <1>4. n = Len(s) \/ (n = ListSize /\ n \in 1 .. Len(s))
    <2>1. CASE Len(s) < ListSize
      BY <2>1
    <2>2. CASE ~ (Len(s) < ListSize)
      <3>1. ListSize \in 1 .. Len(s)
        BY <1>1, <1>2, <2>2
      <3>2. n = ListSize
        BY <2>2
      <3>3. QED
        BY <3>1, <3>2
    <2>3. QED
      BY <2>1, <2>2
  <1> HIDE DEF n
  <1>5. r = [i \in 1 .. n |-> s[i]]
    BY <1>2, <1>3
  <1> HIDE DEF r
  <1>6. r \in [1 .. n -> Log] /\ \A i \in 1 .. n : i \in 1 .. Len(s) /\ r[i] = s[i]
    BY <1>2, <1>3, <1>5
  <1>7. r \in Seq(Log)
    BY <1>3, <1>6, SeqDef
  <1>8. DOMAIN r = 1 .. n /\ Len(r) = n
    BY <1>3, <1>6, <1>7, LenProperties
  <1>9. ToSet(r) \subseteq ToSet(s)
    BY <1>2, <1>6, <1>8 DEF ToSet
  <1>10. Descending(s) => Descending(r)
    BY <1>6, <1>8 DEF Descending
  <1>11. ASSUME NEW x \in ToSet(s)
         PROVE  x \in ToSet(r) \/ (Len(r) = ListSize /\ (Descending(s) => x < r[ListSize]))
    <2>1. PICK i \in 1 .. Len(s) : x = s[i]
      BY <1>2 DEF ToSet
    <2>2. CASE i \in 1 .. n
      BY <1>6, <1>8, <2>1, <2>2 DEF ToSet
    <2>3. CASE i \notin 1 .. n
      <3>1. n = ListSize /\ n \in 1 .. Len(s) /\ n < i
        <4>1. n # Len(s)
          BY <2>3
        <4>2. n < i
          BY <1>2, <1>3, <2>3
        <4>3. QED
          BY <1>4, <4>1, <4>2
      <3>2. r[ListSize] = s[n]
        BY <1>1, <1>6, <3>1
      <3>3. Descending(s) => s[n] > s[i]
        BY <3>1 DEF Descending
      <3>4. s[n] \in Int /\ s[i] \in Int
        BY <1>2, <3>1 DEF Log
      <3>5. QED
        BY <1>8, <2>1, <3>1, <3>2, <3>3, <3>4
    <2>4. QED
      BY <2>2, <2>3
  <1>12. QED
    BY <1>6, <1>7, <1>8, <1>9, <1>10, <1>11 DEF r, n

(* The batch is put before the list.  When the batch is newer than the list, and   *)
(* each of them is in order, the new list is in order too, and what did not fit is *)
(* older than its last log.                                                        *)
NewerThanList(b) ==
    /\ Ascending(b) /\ Descending(logs)
    /\ \A x \in ToSet(b), y \in ToSet(logs) : y < x

LEMMA UpdateFacts ==
    ASSUME NEW b \in Seq(Log), logs \in Seq(Log), Len(logs) <= ListSize
    PROVE  LET r == updateLogs(Reverse(b))
           IN  /\ r \in Seq(Log) /\ Len(r) <= ListSize
               /\ ToSet(r) \subseteq ToSet(b) \cup ToSet(logs)
               /\ \A x \in ToSet(b) \cup ToSet(logs) :
                     \/ x \in ToSet(r)
                     \/ Len(r) = ListSize /\ (NewerThanList(b) => x < r[ListSize])
               /\ NewerThanList(b) => Descending(r)
               /\ Len(logs) = ListSize =>
                     Len(r) = ListSize /\ (NewerThanList(b) => logs[ListSize] <= r[ListSize])
  <1> DEFINE all == Reverse(b) \o logs
             r == updateLogs(Reverse(b))
             rb == Reverse(b)
  <1>1. rb \in Seq(Log) /\ Len(rb) = Len(b) /\ ToSet(rb) = ToSet(b) /\ (Ascending(b) => Descending(rb))
    BY ReverseFacts
  <1>2. r = SubSeq(all, 1, IF Len(all) < ListSize THEN Len(all) ELSE ListSize)
    BY DEF updateLogs
  <1> HIDE DEF rb, r
  <1>3. all = rb \o logs
    BY DEF rb
  <1> HIDE DEF all
  <1>4. all \in Seq(Log) /\ ToSet(all) = ToSet(b) \cup ToSet(logs)
    BY <1>1, <1>3, ToSetConcat, ConcatProperties
  <1>5. NewerThanList(b) => Descending(all)
    BY <1>1, <1>3, DescendingConcat DEF NewerThanList
  <1>6. /\ r \in Seq(Log) /\ Len(r) = (IF Len(all) < ListSize THEN Len(all) ELSE ListSize)
        /\ \A i \in 1 .. Len(r) : r[i] = all[i]
        /\ ToSet(r) \subseteq ToSet(all)
        /\ Descending(all) => Descending(r)
        /\ \A x \in ToSet(all) :
              \/ x \in ToSet(r)
              \/ Len(r) = ListSize /\ (Descending(all) => x < r[ListSize])
    BY <1>2, <1>4, TruncateFacts
  <1>7. ListSize \in Nat \ {0} /\ Len(all) \in Nat /\ Len(b) \in Nat /\ Len(logs) \in Nat
    BY <1>4, LiveTailAssumption, LenProperties
  <1>8. Len(r) <= ListSize
    BY <1>6, <1>7
  <1>9. ASSUME Len(logs) = ListSize
        PROVE  Len(r) = ListSize /\ (NewerThanList(b) => logs[ListSize] <= r[ListSize])
    <2>1. /\ Len(all) = Len(b) + ListSize
          /\ \A i \in 1 .. Len(b) + ListSize : all[i] = IF i <= Len(b) THEN rb[i] ELSE logs[i - Len(b)]
      <3>1. /\ Len(all) = Len(rb) + Len(logs)
            /\ \A i \in 1 .. Len(rb) + Len(logs) :
                  all[i] = IF i <= Len(rb) THEN rb[i] ELSE logs[i - Len(rb)]
        BY <1>1, <1>3, ConcatProperties
      <3>2. Len(rb) = Len(b) /\ Len(logs) = ListSize
        BY <1>1, <1>9
      <3>3. QED
        BY <3>1, <3>2
    <2>2. Len(r) = ListSize
      <3>1. Len(all) = Len(b) + ListSize
        BY <2>1
      <3>2. ~ (Len(all) < ListSize)
        BY <1>7, <3>1
      <3>3. QED
        BY <1>6, <3>2
    <2>3. Len(b) + ListSize \in 1 .. Len(all) /\ ListSize \in 1 .. Len(all) /\ ListSize \in 1 .. Len(r)
      <3>1. Len(b) + ListSize \in 1 .. Len(b) + ListSize /\ ListSize \in 1 .. Len(b) + ListSize
        BY <1>7
      <3>2. ListSize \in 1 .. ListSize
        BY <1>7
      <3>3. QED
        BY <2>1, <2>2, <3>1, <3>2
    <2>4. all[Len(b) + ListSize] = logs[ListSize]
      <3>1. ~ (Len(b) + ListSize <= Len(b)) /\ Len(b) + ListSize - Len(b) = ListSize
        BY <1>7
      <3>2. QED
        BY <2>1, <2>3, <3>1
    <2>5. r[ListSize] = all[ListSize]
      BY <1>6, <2>3
    <2>6. all[ListSize] \in Log /\ all[Len(b) + ListSize] \in Log
      BY <1>4, <2>3, ElementOfSeq
    <2>7. ASSUME NewerThanList(b) PROVE logs[ListSize] <= r[ListSize]
      <3>1. Len(b) = 0 \/ ListSize < Len(b) + ListSize
        BY <1>7
      <3>2. all[Len(b) + ListSize] <= all[ListSize]
        <4>1. CASE Len(b) = 0
          BY <1>7, <2>6, <4>1 DEF Log
        <4>2. CASE ListSize < Len(b) + ListSize
          <5>1. all[ListSize] > all[Len(b) + ListSize]
            BY <1>5, <2>3, <2>7, <4>2 DEF Descending
          <5>2. QED
            BY <2>6, <5>1 DEF Log
        <4>3. QED
          BY <3>1, <4>1, <4>2
      <3>3. QED
        BY <2>4, <2>5, <3>2
    <2>8. QED
      BY <2>2, <2>7
  <1>10. QED
    BY <1>4, <1>5, <1>6, <1>8, <1>9 DEF r

-----------------------------------------------------------------------------
(* No log is shown twice or lost.                                              *)

LogShapes ==
    /\ produced \in Nat /\ produced <= MaxLog
    /\ logs \in Seq(Log) /\ batchedEvents \in Seq(Log) /\ handedOver \in Seq(Log)
    /\ Len(logs) <= ListSize
    /\ url.filter \in Filters
    /\ base.filter \in Filters \cup {None} /\ base.after \in Nat
    /\ \A c \in connections :
          /\ c.filter \in Filters /\ c.cursor \in 0 .. MaxLog
          /\ c.sent \in Seq(Log) /\ Ascending(c.sent)
          /\ \A x \in ToSet(c.sent) : x <= c.cursor
          /\ c.sent # <<>> => c.open

(* A list is handed over to an empty page, which has not opened a connection. *)
AtFirst ==
    handedOver # <<>> =>
        /\ initialLoading /\ ~isConnectionLoading
        /\ logs = <<>> /\ batchedEvents = <<>> /\ base.filter = None

(* Without a mishap the list, the batch before it and what is on its way follow one *)
(* another, and the connection is asked for nothing that is shown.                  *)
InOrder ==
    mishaps = {} =>
        /\ NewerThanList(batchedEvents)
        /\ \A c \in connections :
              \A x \in Shown : x <= c.cursor /\ \A y \in ToSet(c.sent) : x < y

(* A log that is shown, was one of too many, or did not fit into the list. *)
Accounted(x) ==
    \/ x \in Shown \cup skipped
    \/ Len(logs) = ListSize /\ (mishaps # {} \/ x < logs[ListSize])

(* Whatever is shown, the logs before it are accounted for, so that the next *)
(* connection may follow the first log of the list.                          *)
KeptUpTo ==
    base.filter # None =>
        \A x \in Found[base.filter] :
            base.after < x /\ (\E y \in Shown : x <= y) => Accounted(x)

(* What a connection has read is accounted for or on its way. *)
KeptByCursor ==
    \A c \in connections :
        /\ c.filter = base.filter
        /\ \A x \in Found[c.filter] :
              base.after < x /\ x <= c.cursor => x \in ToSet(c.sent) \/ Accounted(x)

(* The range begins no later than the newest log. *)
RangeInv == produced \in 0 .. MaxLog /\ start \in 0 .. produced

LogInv == LogShapes /\ AtFirst /\ InOrder /\ KeptUpTo /\ KeptByCursor

LEMMA LogInvLost == LogInv => NothingLost
  BY DEF LogInv, KeptByCursor, Accounted, NothingLost

LEMMA LogInvOrder == LogInv => NewestFirst
  <1> SUFFICES ASSUME LogInv, mishaps = {}
               PROVE  LET all == Reverse(batchedEvents) \o logs
                      IN  \A i \in 1 .. Len(all) - 1 : all[i] > all[i + 1]
    BY DEF NewestFirst
  <1> DEFINE all == Reverse(batchedEvents) \o logs
             rb == Reverse(batchedEvents)
  <1>1. logs \in Seq(Log) /\ batchedEvents \in Seq(Log) /\ NewerThanList(batchedEvents)
    BY DEF LogInv, LogShapes, InOrder
  <1>2. rb \in Seq(Log) /\ ToSet(rb) = ToSet(batchedEvents) /\ Descending(rb)
    BY <1>1, ReverseFacts DEF NewerThanList
  <1> HIDE DEF rb
  <1>3. Descending(rb \o logs) /\ rb \o logs \in Seq(Log)
    BY <1>1, <1>2, DescendingConcat, ConcatProperties DEF NewerThanList
  <1>4. all = rb \o logs
    BY DEF rb
  <1> HIDE DEF all
  <1>5. Len(all) \in Nat /\ Descending(all)
    BY <1>3, <1>4, LenProperties
  <1>6. \A i \in 1 .. Len(all) - 1 : i \in 1 .. Len(all) /\ i + 1 \in 1 .. Len(all) /\ i < i + 1
    BY <1>5
  <1>7. \A i \in 1 .. Len(all) - 1 : all[i] > all[i + 1]
    BY <1>5, <1>6 DEF Descending
  <1>8. QED
    BY <1>7 DEF all

LEMMA LogInit == Init => LogInv
  <1> SUFFICES ASSUME Init PROVE LogInv
    OBVIOUS
  <1>1. ListSize \in Nat \ {0} /\ MaxLog \in Nat /\ Prefetched \subseteq Seq(Log)
    BY LiveTailAssumption DEF Log
  <1>2. /\ produced \in 0 .. MaxLog /\ handedOver \in Prefetched
        /\ logs = <<>> /\ batchedEvents = <<>> /\ connections = {}
        /\ base.filter = None /\ base.after = 0
        /\ context = Entered
    BY DEF Init
  <1>3. url.filter \in Filters
    BY DEF Init
  <1>4. logs \in Seq(Log) /\ batchedEvents \in Seq(Log) /\ Len(logs) = 0
    BY <1>2, EmptySeq
  <1>5. LogShapes
    BY <1>1, <1>2, <1>3, <1>4 DEF LogShapes
  <1>6. AtFirst
    BY <1>2 DEF AtFirst, Entered, initialLoading, isConnectionLoading
  <1>7. InOrder
    <2>1. ToSet(logs) = {} /\ Len(logs) = 0 /\ Len(batchedEvents) = 0
      BY <1>2, <1>4, ToSetType
    <2>2. Ascending(batchedEvents) /\ Descending(logs)
      BY <2>1 DEF Ascending, Descending
    <2>3. QED
      BY <1>2, <2>1, <2>2 DEF InOrder, NewerThanList
  <1>8. QED
    BY <1>2, <1>5, <1>6, <1>7 DEF LogInv, KeptUpTo, KeptByCursor

LEMMA LogClosed ==
    ASSUME LogInv, LogShapes', AtFirst', connections' = {},
           UNCHANGED <<logs, batchedEvents, base, skipped, mishaps>>
    PROVE  LogInv'
  <1> USE DEF LogInv
  <1>1. InOrder'
    BY DEF InOrder, NewerThanList, Ascending, Descending, Shown
  <1>2. KeptUpTo'
    BY DEF KeptUpTo, Accounted, Shown
  <1>3. KeptByCursor'
    BY DEF KeptByCursor
  <1>4. QED
    BY <1>1, <1>2, <1>3

LEMMA LogElsewhere ==
    ASSUME LogInv, LogShapes', AtFirst',
           UNCHANGED <<connections, logs, batchedEvents, base, skipped, mishaps>>
    PROVE  LogInv'
  <1> USE DEF LogInv
  <1>1. InOrder'
    BY DEF InOrder, NewerThanList, Ascending, Descending, Shown
  <1>2. KeptUpTo'
    BY DEF KeptUpTo, Accounted, Shown
  <1>3. KeptByCursor'
    BY DEF KeptByCursor, Accounted, Shown
  <1>4. QED
    BY <1>1, <1>2, <1>3

(* Before effects have run no list is handed over. *)
LEMMA FlushedFacts ==
    ASSUME ~FlushNeeded
    PROVE  handedOver = <<>>
  BY DEF FlushNeeded

LEMMA LogProduce ==
    ASSUME LogInv, Produce
    PROVE  LogInv'
  <1>1. produced' = produced + 1 /\ produced < MaxLog /\ UNCHANGED <<client, connections, base, skipped, mishaps, steps>>
    BY DEF Produce
  <1>2. LogShapes'
    BY <1>1, LiveTailAssumption DEF LogInv, LogShapes, client
  <1>3. AtFirst'
    BY <1>1 DEF LogInv, AtFirst, client, initialLoading, isConnectionLoading
  <1>4. QED
    BY <1>1, <1>2, <1>3, LogElsewhere DEF client

LEMMA LogPass ==
    ASSUME LogInv, Pass
    PROVE  LogInv'
  <1>1. UNCHANGED <<produced, client, connections, base, skipped, mishaps, steps>>
    BY DEF Pass
  <1>2. LogShapes'
    BY <1>1 DEF LogInv, LogShapes, client
  <1>3. AtFirst'
    BY <1>1 DEF LogInv, AtFirst, client, initialLoading, isConnectionLoading
  <1>4. QED
    BY <1>1, <1>2, <1>3, LogElsewhere DEF client

LEMMA LogRedirected ==
    ASSUME LogInv, ~FlushNeeded, NEW filter \in Filters, Redirected(filter),
           UNCHANGED <<produced, handedOver, connections, logs, batchedEvents, base, skipped,
                       mishaps>>
    PROVE  LogInv'
  <1>1. url'.filter \in Filters
    BY DEF Redirected
  <1>2. LogShapes'
    BY <1>1 DEF LogInv, LogShapes
  <1>3. AtFirst'
    BY FlushedFacts DEF AtFirst
  <1>4. QED
    BY <1>2, <1>3, LogElsewhere

LEMMA LogTakenDown ==
    ASSUME LiveTailInv, LogInv, ~FlushNeeded,
           connections' = {c \in connections : c.number # eventSourceRef},
           UNCHANGED <<produced, url, handedOver, logs, batchedEvents, base, skipped, mishaps>>
    PROVE  LogInv'
  <1>1. connections' = {}
    BY NoneLeft DEF LiveTailInv
  <1>2. LogShapes'
    BY <1>1 DEF LogInv, LogShapes
  <1>3. AtFirst'
    BY FlushedFacts DEF AtFirst
  <1>4. QED
    BY <1>1, <1>2, <1>3, LogClosed

LEMMA LogEnter ==
    ASSUME LiveTailInv, LogInv, NEW filter \in Filters, NEW list \in Prefetched,
           NEW fromExplorer \in BOOLEAN, Enter(filter, list, fromExplorer)
    PROVE  LogInv'
  <1>1. connections' = {}
    BY NoneLeft DEF LiveTailInv, Enter
  <1>2. /\ url'.filter = filter /\ handedOver' = list /\ logs' = <<>> /\ batchedEvents' = <<>>
        /\ base'.filter = None /\ base'.after = 0 /\ context' = Entered /\ mishaps' = {}
        /\ produced' = produced
    BY DEF Enter
  <1>3. list \in Seq(Log)
    BY LiveTailAssumption DEF Log
  <1>4. logs' \in Seq(Log) /\ batchedEvents' \in Seq(Log) /\ Len(logs') = 0 /\ Len(batchedEvents') = 0
    BY <1>2, EmptySeq
  <1>5. LogShapes'
    BY <1>1, <1>2, <1>3, <1>4, LiveTailAssumption DEF LogInv, LogShapes
  <1>6. AtFirst'
    BY <1>2 DEF AtFirst, Entered, initialLoading, isConnectionLoading
  <1>7. InOrder'
    <2>1. ToSet(logs') = {}
      BY <1>2, <1>4, ToSetType
    <2>2. Ascending(batchedEvents') /\ Descending(logs')
      BY <1>4 DEF Ascending, Descending
    <2>3. QED
      BY <1>1, <2>1, <2>2 DEF InOrder, NewerThanList
  <1>8. QED
    BY <1>1, <1>2, <1>5, <1>6, <1>7 DEF LogInv, KeptUpTo, KeptByCursor

(* What the batch does to what is accounted for. *)
LEMMA LogUpdated ==
    ASSUME LogInv, debouncedUpdateLogs
    PROVE  LogInv'
  <1> USE DEF LogInv
  <1>1. /\ logs \in Seq(Log) /\ batchedEvents \in Seq(Log) /\ Len(logs) <= ListSize
        /\ ListSize \in Nat \ {0}
    BY LiveTailAssumption DEF LogShapes
  <1>2. /\ logs' = updateLogs(Reverse(batchedEvents)) /\ batchedEvents' = <<>>
        /\ UNCHANGED <<produced, url, handedOver, context, connections, base, skipped, mishaps>>
        /\ ~FlushNeeded
    BY DEF debouncedUpdateLogs
  <1>3. /\ logs' \in Seq(Log) /\ Len(logs') <= ListSize
        /\ ToSet(logs') \subseteq Shown
        /\ \A x \in Shown :
              \/ x \in ToSet(logs')
              \/ Len(logs') = ListSize /\ (NewerThanList(batchedEvents) => x < logs'[ListSize])
        /\ NewerThanList(batchedEvents) => Descending(logs')
        /\ Len(logs) = ListSize =>
              Len(logs') = ListSize
              /\ (NewerThanList(batchedEvents) => logs[ListSize] <= logs'[ListSize])
    BY <1>1, <1>2, UpdateFacts DEF Shown
  <1>4. batchedEvents' \in Seq(Log) /\ Len(batchedEvents') = 0 /\ ToSet(batchedEvents') = {}
    BY <1>2, EmptySeq, ToSetType
  <1>5. Shown' = ToSet(logs')
    BY <1>4 DEF Shown
  <1>6. LogShapes'
    BY <1>2, <1>3, <1>4 DEF LogShapes
  <1>7. AtFirst'
    BY <1>2, FlushedFacts DEF AtFirst
  <1>8. InOrder'
    <2>1. Ascending(batchedEvents')
      BY <1>4 DEF Ascending
    <2>2. QED
      BY <1>2, <1>3, <1>4, <1>5, <2>1 DEF InOrder, NewerThanList
  <1>9. ASSUME NEW x \in Log, Accounted(x) PROVE Accounted(x)'
    <2>1. CASE x \in Shown
      BY <1>2, <1>3, <1>5, <2>1 DEF Accounted, InOrder
    <2>2. CASE x \in skipped
      BY <1>2, <2>2 DEF Accounted
    <2>3. CASE Len(logs) = ListSize /\ (mishaps # {} \/ x < logs[ListSize])
      <3>1. Len(logs') = ListSize
        BY <1>3, <2>3
      <3>2. ASSUME mishaps = {} PROVE x < logs'[ListSize]
        <4>1. x < logs[ListSize] /\ logs[ListSize] <= logs'[ListSize]
          BY <1>3, <2>3, <3>2 DEF InOrder
        <4>2. ListSize \in 1 .. Len(logs) /\ ListSize \in 1 .. Len(logs')
          BY <1>1, <2>3, <3>1
        <4>3. logs[ListSize] \in Log /\ logs'[ListSize] \in Log
          BY <1>1, <1>3, <4>2, ElementOfSeq
        <4>4. QED
          BY <4>1, <4>3 DEF Log
      <3>3. QED
        BY <1>2, <3>1, <3>2 DEF Accounted
    <2>4. QED
      BY <1>9, <2>1, <2>2, <2>3 DEF Accounted
  <1>10. Found \in [Filters -> SUBSET Log] /\ \A c \in connections : c.filter \in Filters
    BY LiveTailAssumption DEF Log, LogShapes
  <1>11. KeptByCursor'
    BY <1>2, <1>9, <1>10 DEF KeptByCursor
  <1>12. KeptUpTo'
    <2>1. base.filter # None => Found[base.filter] \in SUBSET Log
      BY <1>10 DEF LogShapes
    <2>2. QED
      BY <1>2, <1>3, <1>5, <1>9, <2>1 DEF KeptUpTo
  <1>13. QED
    BY <1>6, <1>7, <1>8, <1>11, <1>12

(* A new connection follows the first log of the list: without a mishap that is the *)
(* newest log, and what is before it is accounted for, as is what left the range.   *)
LEMMA LogConnect ==
    ASSUME LiveTailInv, LogInv, RangeInv, Flush, ConnectFires
    PROVE  LogInv'
  <1> USE DEF LogInv
  <1>1. /\ logs \in Seq(Log) /\ batchedEvents \in Seq(Log) /\ handedOver \in Seq(Log)
        /\ Len(logs) <= ListSize /\ url.filter \in Filters
        /\ ListSize \in Nat \ {0} /\ MaxLog \in Nat
    BY LiveTailAssumption DEF LogShapes
  <1>2. /\ Connect
        /\ logs' = IF handedOver = <<>> THEN logs ELSE updateLogs(Reverse(handedOver))
        /\ batchedEvents' = IF handedOver = <<>> THEN batchedEvents ELSE <<>>
        /\ handedOver' = <<>> /\ UNCHANGED <<produced, url>>
    BY DEF Flush
  <1> DEFINE new == [number |-> eventSourceRef + 1, filter |-> url.filter,
                     open |-> FALSE, cursor |-> Begin, sent |-> <<>>]
  <1>3. connections' = {new}
    BY <1>2, NoneLeft DEF Connect, Reconnected, LiveTailInv
  <1>4. new.filter = url.filter /\ new.cursor = Begin /\ new.sent = <<>>
    OBVIOUS
  <1> HIDE DEF new
  <1>5. /\ Shown \in SUBSET Log /\ ToSet(logs) \in SUBSET Log /\ ToSet(handedOver) \in SUBSET Log
        /\ ToSet(batchedEvents) \in SUBSET Log
    BY <1>1, ToSetType DEF Shown
  <1>6. firstLogId \in 0 .. MaxLog /\ (logs # <<>> => firstLogId = logs[1] /\ firstLogId \in Shown)
    <2>1. CASE logs = <<>>
      BY <1>1, <2>1 DEF firstLogId
    <2>2. CASE logs # <<>>
      <3>1. firstLogId = logs[1] /\ logs[1] \in ToSet(logs)
        BY <1>1, <2>2, ToSetType DEF firstLogId
      <3>2. logs[1] \in Log
        BY <1>5, <3>1
      <3>3. QED
        BY <1>1, <3>1, <3>2 DEF Log, Shown
    <2>3. QED
      BY <2>1, <2>2
  <1>0. /\ Begin \in 0 .. MaxLog /\ firstLogId <= Begin
        /\ \A x \in Int : x <= Begin => x <= firstLogId \/ (firstLogId < x /\ x <= start)
        /\ skipped' = skipped \cup {x \in Found[url.filter] : firstLogId < x /\ x <= start}
    <2>1. /\ firstLogId \in Int /\ 0 <= firstLogId /\ firstLogId <= MaxLog
          /\ start \in Int /\ 0 <= start /\ start <= MaxLog
      BY <1>1, <1>6 DEF RangeInv
    <2>2. Begin = IF start > firstLogId THEN start ELSE firstLogId
      BY DEF Begin
    <2>3. QED
      BY <1>1, <1>2, <2>1, <2>2 DEF Connect
  <1>7. \A S \in SUBSET Log : Newest(S) \in 0 .. MaxLog /\ \A y \in S : y <= Newest(S)
    BY NewestFacts DEF Log
  <1>8. /\ \A x \in ToSet(batchedEvents) : x <= Newest(ToSet(batchedEvents))
        /\ Newest(ToSet(batchedEvents)) \in 0 .. MaxLog
    BY <1>5, <1>7
  <1>9. /\ \A x \in ToSet(logs) \cup ToSet(handedOver) :
               x <= Newest(ToSet(logs) \cup ToSet(handedOver))
        /\ Newest(ToSet(logs) \cup ToSet(handedOver)) \in 0 .. MaxLog
    BY <1>5, <1>7
  <1>10. /\ \A x \in Shown \cup ToSet(handedOver) : x <= Newest(Shown \cup ToSet(handedOver))
         /\ Newest(Shown \cup ToSet(handedOver)) \in 0 .. MaxLog
    BY <1>5, <1>7
  <1>11. /\ logs' \in Seq(Log) /\ Len(logs') <= ListSize /\ batchedEvents' \in Seq(Log)
         /\ Shown' \subseteq Shown \cup ToSet(handedOver)
    <2>1. CASE handedOver = <<>>
      BY <1>1, <1>2, <2>1 DEF Shown
    <2>2. CASE handedOver # <<>>
      <3>1. logs' = updateLogs(Reverse(handedOver)) /\ batchedEvents' = <<>>
        BY <1>2, <2>2
      <3>2. /\ logs' \in Seq(Log) /\ Len(logs') <= ListSize
            /\ ToSet(logs') \subseteq ToSet(handedOver) \cup ToSet(logs)
        BY <1>1, <3>1, UpdateFacts
      <3>3. batchedEvents' \in Seq(Log) /\ ToSet(batchedEvents') = {}
        BY <3>1, EmptySeq, ToSetType
      <3>4. QED
        BY <3>2, <3>3 DEF Shown
    <2>3. QED
      BY <2>1, <2>2
  <1>12. base' = IF staged # 0 /\ base.filter = url.filter THEN base
                 ELSE [filter |-> url.filter, after |-> Newest(Shown \cup ToSet(handedOver))]
    BY <1>2 DEF Connect
  <1>13. LogShapes'
    <2>1. base'.filter \in Filters \cup {None} /\ base'.after \in Nat
      BY <1>1, <1>10, <1>12 DEF LogShapes
    <2>2. new.sent \in Seq(Log) /\ Ascending(new.sent) /\ ToSet(new.sent) = {}
      <3>1. new.sent \in Seq(Log) /\ Len(new.sent) = 0
        BY <1>4, EmptySeq
      <3>2. ToSet(new.sent) = {}
        BY <1>4, <3>1, ToSetType
      <3>3. Ascending(new.sent)
        BY <3>1 DEF Ascending
      <3>4. QED
        BY <3>1, <3>2, <3>3
    <2>3. handedOver' \in Seq(Log)
      BY <1>2, EmptySeq
    <2>4. produced' \in Nat /\ produced' <= MaxLog /\ url'.filter \in Filters
      BY <1>1, <1>2 DEF LogShapes
    <2>5. QED
      BY <1>0, <1>1, <1>3, <1>4, <1>11, <2>1, <2>2, <2>3, <2>4 DEF LogShapes
  <1>14. AtFirst'
    BY <1>2 DEF AtFirst
  <1>15. InOrder'
    <2> SUFFICES ASSUME mishaps' = {}
                 PROVE  /\ NewerThanList(batchedEvents)'
                        /\ \A x \in Shown' : x <= new.cursor /\ \A y \in ToSet(new.sent) : x < y
      BY <1>3 DEF InOrder
    <2>1. /\ mishaps = {}
          /\ ~ (Newest(ToSet(batchedEvents)) > firstLogId)
          /\ ~ (Newest(ToSet(logs) \cup ToSet(handedOver)) > firstLogId)
      BY <1>2 DEF Connect
    <2>2. \A x \in Shown \cup ToSet(handedOver) : x <= firstLogId
      <3> SUFFICES ASSUME NEW x \in Shown \cup ToSet(handedOver) PROVE x <= firstLogId
        OBVIOUS
      <3>1. x \in Int /\ firstLogId \in Int
        BY <1>1, <1>5, <1>6 DEF Log
      <3>2. CASE x \in ToSet(batchedEvents)
        BY <1>1, <1>8, <2>1, <3>1, <3>2
      <3>3. CASE x \in ToSet(logs) \cup ToSet(handedOver)
        BY <1>1, <1>9, <2>1, <3>1, <3>3
      <3>4. QED
        BY <3>2, <3>3 DEF Shown
    <2>3. handedOver = <<>>
      <3> SUFFICES ASSUME handedOver # <<>> PROVE FALSE
        OBVIOUS
      <3>1. firstLogId = 0
        BY DEF AtFirst, firstLogId
      <3>2. handedOver[1] \in ToSet(handedOver) /\ handedOver[1] \in Log
        BY <1>1, <1>5, ToSetType
      <3>3. QED
        BY <2>2, <3>1, <3>2 DEF Log
    <2>4. UNCHANGED <<logs, batchedEvents>>
      BY <1>2, <2>3
    <2>5. NewerThanList(batchedEvents)'
      BY <2>1, <2>4 DEF InOrder, NewerThanList
    <2>6. ToSet(new.sent) = {}
      BY <1>4, EmptySeq, ToSetType
    <2>7. ASSUME NEW x \in Shown' PROVE x <= new.cursor
      <3>1. x \in Shown \cup ToSet(handedOver)
        BY <1>11
      <3>2. x <= firstLogId /\ x \in Int /\ firstLogId \in Int /\ Begin \in Int
        BY <1>0, <1>1, <1>5, <1>6, <2>2, <3>1 DEF Log
      <3>3. QED
        BY <1>0, <1>4, <3>2
    <2>8. QED
      BY <2>5, <2>6, <2>7
  <1>16. CASE staged # 0 /\ base.filter = url.filter
    <2>1. base' = base /\ base.filter # None
      BY <1>1, <1>12, <1>16, LiveTailAssumption
    <2>2. handedOver = <<>> /\ UNCHANGED <<logs, batchedEvents>> /\ mishaps \subseteq mishaps'
          /\ skipped \subseteq skipped'
      BY <1>0, <1>2, <2>1 DEF AtFirst, Connect
    <2>3. \A x : Accounted(x) => Accounted(x)'
      BY <2>2 DEF Accounted, Shown
    <2>4. KeptUpTo'
      BY <2>1, <2>2, <2>3 DEF KeptUpTo, Shown
    <2>5. KeptByCursor'
      <3> SUFFICES ASSUME NEW x \in Found[base.filter], base.after < x, x <= Begin
                   PROVE  Accounted(x)'
        BY <1>3, <1>4, <1>16, <2>1 DEF KeptByCursor
      <3>1. x \in Log /\ base.after \in Nat
        BY <2>1, LiveTailAssumption DEF Log, LogShapes
      <3>5. x <= firstLogId \/ (firstLogId < x /\ x <= start)
        BY <1>0, <1>1, <3>1 DEF Log
      <3>6. CASE firstLogId < x /\ x <= start
        BY <1>0, <1>16, <3>6 DEF Accounted
      <3>7. CASE x <= firstLogId
        <4>1. logs # <<>>
          BY <3>1, <3>7 DEF firstLogId, Log
        <4>2. firstLogId \in Shown
          BY <1>6, <4>1
        <4>3. QED
          BY <2>1, <2>3, <3>7, <4>2 DEF KeptUpTo
      <3>8. QED
        BY <3>5, <3>6, <3>7
    <2>6. QED
      BY <1>13, <1>14, <1>15, <2>4, <2>5
  <1>17. CASE ~ (staged # 0 /\ base.filter = url.filter)
    <2>1. /\ base'.filter = url.filter
          /\ base'.after = Newest(Shown \cup ToSet(handedOver))
      BY <1>12, <1>17
    <2>2. Found[url.filter] \in SUBSET Log
      BY <1>1, LiveTailAssumption DEF Log
    <2>3. \A x \in Found[url.filter], y \in Shown' : ~ (base'.after < x /\ x <= y)
      <3> SUFFICES ASSUME NEW x \in Found[url.filter], NEW y \in Shown', base'.after < x, x <= y
                   PROVE  FALSE
        OBVIOUS
      <3>1. y \in Shown \cup ToSet(handedOver)
        BY <1>11
      <3>2. y <= base'.after
        BY <1>10, <2>1, <3>1
      <3>3. base'.after \in Int
        BY <1>1, <1>10, <2>1
      <3>4. y \in Log /\ x \in Log
        BY <1>5, <2>2, <3>1
      <3>5. y \in Int /\ x \in Int
        BY <1>1, <3>4 DEF Log
      <3>6. QED
        BY <3>2, <3>3, <3>5
    <2>4. KeptUpTo'
      BY <2>1, <2>3 DEF KeptUpTo
    <2>5. firstLogId <= base'.after
      <3>1. CASE logs = <<>>
        BY <1>1, <1>10, <2>1, <3>1 DEF firstLogId
      <3>2. CASE logs # <<>>
        BY <1>6, <1>10, <2>1, <3>2
      <3>3. QED
        BY <3>1, <3>2
    <2>6. \A x \in Found[url.filter] : ~ (base'.after < x /\ x <= firstLogId)
      <3> TAKE x \in Found[url.filter]
      <3>1. x \in Int /\ firstLogId \in Int /\ base'.after \in Int
        BY <1>1, <1>6, <1>10, <2>1, <2>2 DEF Log
      <3>2. QED
        BY <2>5, <3>1
    <2>7. KeptByCursor'
      <3> SUFFICES ASSUME NEW x \in Found[url.filter], base'.after < x, x <= Begin
                   PROVE  Accounted(x)'
        BY <1>3, <1>4, <2>1 DEF KeptByCursor
      <3>1. firstLogId < x /\ x <= start
        BY <1>0, <1>1, <2>2, <2>6 DEF Log
      <3>2. QED
        BY <1>0, <3>1 DEF Accounted
    <2>8. QED
      BY <1>13, <1>14, <1>15, <2>4, <2>7
  <1>18. QED
    BY <1>16, <1>17

LEMMA LogFlush ==
    ASSUME LiveTailInv, LogInv, RangeInv, Flush
    PROVE  LogInv'
  <1>1. CASE ConnectFires
    BY <1>1, LogConnect
  <1>2. CASE ~ConnectFires
    <2>1. handedOver = <<>>
      BY <1>2 DEF LogInv, AtFirst, ConnectFires
    <2>2. /\ UNCHANGED <<connections, logs, batchedEvents, base, skipped, mishaps, produced, url>>
          /\ handedOver' = <<>>
      BY <1>2, <2>1 DEF Flush
    <2>3. LogShapes'
      BY <2>1, <2>2 DEF LogInv, LogShapes
    <2>4. QED
      BY <2>2, <2>3, LogElsewhere DEF AtFirst
  <1>3. QED
    BY <1>1, <1>2

(* There is one connection, which a step replaces. *)
LEMMA OnlyConnection ==
    ASSUME LiveTailInv, NEW c \in connections, NEW d, connections' = (connections \ {c}) \cup {d}
    PROVE  connections = {c} /\ connections' = {d}
  BY DEF LiveTailInv, Truthful

LEMMA LogOpened ==
    ASSUME LiveTailInv, LogInv, NEW c \in connections, Opened(c)
    PROVE  LogInv'
  <1> USE DEF LogInv
  <1> DEFINE d == [c EXCEPT !.open = TRUE]
  <1>1. DOMAIN c = {"number", "filter", "open", "cursor", "sent"}
    BY DEF LiveTailInv, Shapes
  <1>2. d.filter = c.filter /\ d.cursor = c.cursor /\ d.sent = c.sent /\ d.open = TRUE
    BY <1>1
  <1>3. connections' = (connections \ {c}) \cup {d}
    BY DEF Opened
  <1> HIDE DEF d
  <1>4. connections = {c} /\ connections' = {d}
    BY <1>3, OnlyConnection
  <1>5. /\ UNCHANGED <<produced, url, handedOver, logs, batchedEvents, base, skipped, mishaps>>
        /\ ~FlushNeeded
    BY DEF Opened
  <1>6. LogShapes'
    BY <1>2, <1>4, <1>5 DEF LogShapes
  <1>7. AtFirst'
    BY <1>5, FlushedFacts DEF AtFirst
  <1>8. InOrder'
    BY <1>2, <1>4, <1>5 DEF InOrder, NewerThanList, Ascending, Descending, Shown
  <1>9. KeptUpTo'
    BY <1>5 DEF KeptUpTo, Accounted, Shown
  <1>10. KeptByCursor'
    BY <1>2, <1>4, <1>5 DEF KeptByCursor, Accounted, Shown
  <1>11. QED
    BY <1>6, <1>7, <1>8, <1>9, <1>10

(* A tick sends the newest of what follows the cursor: what it leaves out is older *)
(* than what it sends, and what it sends is newer than what was sent before.       *)
LEMMA LogTick ==
    ASSUME LiveTailInv, LogInv, NEW c \in connections, Tick(c)
    PROVE  LogInv'
  <1> USE DEF LogInv
  <1> DEFINE rows == Rows(c)
             d == [c EXCEPT !.cursor = Max(Rows(c)), !.sent = @ \o OldestFirst(Rows(c))]
  <1>1. DOMAIN c = {"number", "filter", "open", "cursor", "sent"}
    BY DEF LiveTailInv, Shapes
  <1>2. /\ d.filter = c.filter /\ d.cursor = Max(rows) /\ d.open = c.open
        /\ d.sent = c.sent \o OldestFirst(rows)
    BY <1>1
  <1>3. connections' = (connections \ {c}) \cup {d} /\ rows # {} /\ c.open
    BY DEF Tick
  <1> HIDE DEF d
  <1>4. connections = {c} /\ connections' = {d}
    BY <1>3, OnlyConnection
  <1>5. /\ UNCHANGED <<produced, url, handedOver, context, logs, batchedEvents, base, mishaps>>
        /\ skipped' = skipped \cup
              {x \in Found[c.filter] \ rows : c.cursor < x /\ x < Max(rows)}
    BY DEF Tick, client
  <1>6. /\ c.filter \in Filters /\ c.cursor \in 0 .. MaxLog /\ c.sent \in Seq(Log)
        /\ Ascending(c.sent) /\ \A x \in ToSet(c.sent) : x <= c.cursor
        /\ MaxLog \in Nat
    BY LiveTailAssumption DEF LogShapes
  <1>7. Found[c.filter] \in SUBSET Log
    BY <1>6, LiveTailAssumption DEF Log
  <1>8. rows \in SUBSET Log /\ \A x \in rows : c.cursor < x
    BY <1>7 DEF Rows
  <1> HIDE DEF rows
  <1> DEFINE more == OldestFirst(rows)
  <1>9. more \in Seq(Log) /\ Ascending(more) /\ ToSet(more) = rows
    BY <1>8, OldestFirstFacts DEF Log
  <1> HIDE DEF more
  <1>10. Max(rows) \in rows /\ \A y \in rows : y <= Max(rows)
    BY <1>3, <1>8, MaxFacts DEF Log
  <1>11. Max(rows) \in Log /\ Max(rows) \in 0 .. MaxLog /\ c.cursor < Max(rows)
    <2>1. Max(rows) \in Log /\ c.cursor < Max(rows)
      BY <1>8, <1>10
    <2>2. QED
      BY <1>6, <2>1 DEF Log
  <1>12. ToSet(c.sent) \in SUBSET Log
    BY <1>6, ToSetType
  <1>13. \A x \in ToSet(c.sent), y \in rows : x < y
    <2> TAKE x \in ToSet(c.sent), y \in rows
    <2>1. x <= c.cursor /\ c.cursor < y
      BY <1>6, <1>8
    <2>2. x \in Log /\ y \in Log
      BY <1>8, <1>12
    <2>3. QED
      BY <1>6, <2>1, <2>2 DEF Log
  <1>14. d.sent \in Seq(Log) /\ Ascending(d.sent) /\ ToSet(d.sent) = ToSet(c.sent) \cup rows
    <2>1. d.sent = c.sent \o more
      BY <1>2 DEF more
    <2>2. QED
      BY <1>6, <1>9, <1>13, <2>1, AscendingConcat, ToSetConcat, ConcatProperties
  <1>15. LogShapes'
    <2>1. \A x \in ToSet(d.sent) : x <= d.cursor
      <3> TAKE x \in ToSet(d.sent)
      <3>1. CASE x \in rows
        BY <1>2, <1>10, <3>1
      <3>2. CASE x \in ToSet(c.sent)
        <4>1. x <= c.cursor /\ x \in Log
          BY <1>6, <1>12, <3>2
        <4>2. QED
          BY <1>2, <1>6, <1>11, <4>1 DEF Log
      <3>3. QED
        BY <1>14, <3>1, <3>2
    <2>2. d.filter \in Filters /\ d.cursor \in 0 .. MaxLog /\ d.open
      BY <1>2, <1>3, <1>6, <1>11
    <2>3. QED
      BY <1>4, <1>5, <1>14, <2>1, <2>2 DEF LogShapes
  <1>16. AtFirst'
    BY <1>5 DEF AtFirst, initialLoading, isConnectionLoading
  <1>17. InOrder'
    <2> SUFFICES ASSUME mishaps = {}
                 PROVE  /\ NewerThanList(batchedEvents)'
                        /\ \A x \in Shown : x <= d.cursor /\ \A y \in ToSet(d.sent) : x < y
      BY <1>4, <1>5 DEF InOrder, Shown
    <2>1. NewerThanList(batchedEvents)'
      BY <1>5 DEF InOrder, NewerThanList, Ascending, Descending
    <2>2. ASSUME NEW x \in Shown PROVE x <= d.cursor /\ \A y \in ToSet(d.sent) : x < y
      <3>1. x <= c.cursor /\ \A y \in ToSet(c.sent) : x < y
        BY <1>4 DEF InOrder
      <3>2. x \in Log
        BY ToSetType DEF Shown, LogShapes
      <3>3. x <= d.cursor
        BY <1>2, <1>6, <1>11, <3>1, <3>2 DEF Log
      <3>4. \A y \in rows : x < y
        <4> TAKE y \in rows
        <4>1. y \in Log /\ c.cursor < y
          BY <1>8
        <4>2. QED
          BY <1>6, <3>1, <3>2, <4>1 DEF Log
      <3>5. QED
        BY <1>14, <3>1, <3>3, <3>4
    <2>3. QED
      BY <2>1, <2>2
  <1>18. \A x : Accounted(x) => Accounted(x)'
    BY <1>5 DEF Accounted, Shown
  <1>19. KeptUpTo'
    BY <1>5, <1>18 DEF KeptUpTo, Shown
  <1>20. KeptByCursor'
    <2> SUFFICES ASSUME NEW x \in Found[c.filter], base.after < x,
                        x <= Max(rows)
                 PROVE  x \in ToSet(d.sent) \/ Accounted(x)'
      BY <1>2, <1>4, <1>5 DEF KeptByCursor
    <2>1. x \in Log
      BY <1>7
    <2>2. CASE x <= c.cursor
      BY <1>4, <1>14, <1>18, <2>2 DEF KeptByCursor
    <2>3. CASE ~ (x <= c.cursor)
      <3>1. c.cursor < x
        BY <1>6, <2>1, <2>3 DEF Log
      <3>2. x = Max(rows) \/ x < Max(rows)
        BY <1>11, <2>1 DEF Log
      <3>3. x \in rows \/ x \in skipped'
        BY <1>5, <1>10, <3>1, <3>2
      <3>4. QED
        BY <1>14, <3>3 DEF Accounted
    <2>4. QED
      BY <2>2, <2>3
  <1>21. QED
    BY <1>15, <1>16, <1>17, <1>19, <1>20

(* What arrives is the oldest of what is on its way, and the page listens to it. *)
LEMMA LogMessage ==
    ASSUME LiveTailInv, LogInv, NEW c \in connections, Message(c)
    PROVE  LogInv'
  <1> USE DEF LogInv
  <1> DEFINE d == [c EXCEPT !.sent = Tail(@)]
  <1>1. DOMAIN c = {"number", "filter", "open", "cursor", "sent"}
    BY DEF LiveTailInv, Shapes
  <1>2. d.filter = c.filter /\ d.cursor = c.cursor /\ d.open = c.open /\ d.sent = Tail(c.sent)
    BY <1>1
  <1>3. connections' = (connections \ {c}) \cup {d} /\ c.sent # <<>> /\ ~FlushNeeded
    BY DEF Message
  <1> HIDE DEF d
  <1>4. connections = {c} /\ connections' = {d}
    BY <1>3, OnlyConnection
  <1>5. /\ c.filter \in Filters /\ c.cursor \in 0 .. MaxLog /\ c.sent \in Seq(Log)
        /\ Ascending(c.sent) /\ \A x \in ToSet(c.sent) : x <= c.cursor
        /\ c.open
    BY <1>3 DEF LogShapes
  <1> DEFINE h == Head(c.sent)
  <1>6. /\ h \in Log /\ d.sent \in Seq(Log)
        /\ ToSet(c.sent) = {h} \cup ToSet(d.sent)
        /\ Ascending(d.sent)
        /\ \A x \in ToSet(d.sent) : h < x
    BY <1>2, <1>3, <1>5, AscendingHead
  <1>7. c.number = instance
    BY <1>5 DEF LiveTailInv, Truthful
  <1>8. /\ batchedEvents' = Append(batchedEvents, h)
        /\ UNCHANGED <<produced, url, handedOver, logs, base, skipped, mishaps>>
    BY <1>7 DEF Message
  <1> HIDE DEF h
  <1>9. logs \in Seq(Log) /\ batchedEvents \in Seq(Log) /\ Len(logs) <= ListSize
    BY DEF LogShapes
  <1>10. /\ batchedEvents' \in Seq(Log) /\ ToSet(batchedEvents') = ToSet(batchedEvents) \cup {h}
         /\ Shown' = Shown \cup {h}
    BY <1>6, <1>8, <1>9, ToSetAppend DEF Shown
  <1>11. LogShapes'
    <2>1. \A x \in ToSet(d.sent) : x <= d.cursor
      BY <1>2, <1>5, <1>6
    <2>2. QED
      BY <1>2, <1>4, <1>5, <1>6, <1>8, <1>10, <2>1 DEF LogShapes
  <1>12. AtFirst'
    BY <1>3, <1>8, FlushedFacts DEF AtFirst
  <1>13. InOrder'
    <2> SUFFICES ASSUME mishaps = {}
                 PROVE  /\ NewerThanList(batchedEvents)'
                        /\ \A x \in Shown' : x <= d.cursor /\ \A y \in ToSet(d.sent) : x < y
      BY <1>4, <1>8 DEF InOrder
    <2>1. /\ NewerThanList(batchedEvents)
          /\ \A x \in Shown : x <= c.cursor /\ \A y \in ToSet(c.sent) : x < y
      BY <1>4 DEF InOrder
    <2>2. \A x \in Shown : x < h
      BY <1>6, <2>1
    <2>3. Ascending(batchedEvents')
      <3>1. <<h>> \in Seq(Log) /\ ToSet(<<h>>) = {h} /\ Len(<<h>>) = 1
        BY <1>6 DEF ToSet
      <3>2. Ascending(<<h>>)
        BY <3>1 DEF Ascending
      <3>3. batchedEvents' = batchedEvents \o <<h>>
        BY <1>6, <1>8, <1>9, AppendIsConcat
      <3>4. \A x \in ToSet(batchedEvents), y \in ToSet(<<h>>) : x < y
        BY <2>2, <3>1 DEF Shown
      <3>5. QED
        BY <1>9, <2>1, <3>1, <3>2, <3>3, <3>4, AscendingConcat DEF NewerThanList
    <2>4. \A x \in ToSet(batchedEvents'), y \in ToSet(logs) : y < x
      BY <1>10, <2>1, <2>2 DEF NewerThanList, Shown
    <2>5. NewerThanList(batchedEvents)'
      BY <1>8, <2>1, <2>3, <2>4 DEF NewerThanList, Descending
    <2>6. ASSUME NEW x \in Shown' PROVE x <= d.cursor /\ \A y \in ToSet(d.sent) : x < y
      <3>1. CASE x \in Shown
        BY <1>2, <1>6, <2>1, <3>1
      <3>2. CASE x = h
        BY <1>2, <1>5, <1>6, <3>2
      <3>3. QED
        BY <1>10, <3>1, <3>2
    <2>7. QED
      BY <2>5, <2>6
  <1>14. \A x : Accounted(x) => Accounted(x)'
    BY <1>8, <1>10 DEF Accounted
  <1>15. KeptUpTo'
    <2> SUFFICES ASSUME base.filter # None, NEW x \in Found[base.filter], base.after < x,
                        NEW y \in Shown', x <= y
                 PROVE  Accounted(x)'
      BY <1>8 DEF KeptUpTo
    <2>1. CASE y \in Shown
      BY <1>14, <2>1 DEF KeptUpTo
    <2>2. CASE y = h
      <3>1. x \in Log
        BY LiveTailAssumption DEF LogShapes, Log
      <3>2. x \in Shown' \/ x < h
        BY <1>6, <1>10, <2>2, <3>1 DEF Log
      <3>3. CASE x < h
        <4>1. ~ (x \in ToSet(c.sent))
          <5>1. ASSUME NEW z \in ToSet(d.sent) PROVE z # x
            <6>1. z \in Log /\ h < z
              BY <1>6, <5>1, ToSetType
            <6>2. QED
              BY <1>6, <3>1, <3>3, <6>1 DEF Log
          <5>2. h # x
            BY <1>6, <3>1, <3>3 DEF Log
          <5>3. QED
            BY <1>6, <5>1, <5>2
        <4>2. x <= c.cursor
          <5>1. h <= c.cursor
            BY <1>5, <1>6
          <5>2. QED
            BY <1>5, <1>6, <3>1, <3>3, <5>1, LiveTailAssumption DEF Log
        <4>3. c.filter = base.filter
          BY DEF KeptByCursor
        <4>4. QED
          BY <1>14, <4>1, <4>2, <4>3 DEF KeptByCursor
      <3>4. QED
        BY <3>2, <3>3 DEF Accounted
    <2>3. QED
      BY <1>10, <2>1, <2>2
  <1>16. KeptByCursor'
    <2> SUFFICES ASSUME NEW x \in Found[c.filter], base.after < x,
                        x <= c.cursor
                 PROVE  x \in ToSet(d.sent) \/ Accounted(x)'
      BY <1>2, <1>4, <1>8 DEF KeptByCursor
    <2>1. x \in ToSet(c.sent) \/ Accounted(x)
      BY DEF KeptByCursor
    <2>2. QED
      BY <1>6, <1>10, <1>14, <2>1 DEF Accounted
  <1>17. QED
    BY <1>11, <1>12, <1>13, <1>15, <1>16

LEMMA LogStep == LiveTailInv /\ LogInv /\ RangeInv /\ [Next]_vars => LogInv'
  <1> SUFFICES ASSUME LiveTailInv, LogInv, RangeInv, [Next]_vars PROVE LogInv'
    OBVIOUS
  <1>1. CASE Flush
    BY <1>1, LogFlush
  <1>2. CASE Produce
    BY <1>2, LogProduce
  <1>3. CASE debouncedUpdateLogs
    BY <1>3, LogUpdated
  <1>4. CASE Pause
    BY <1>4, LogTakenDown DEF Pause, UserStep
  <1>5. ASSUME NEW c \in connections, Tick(c) PROVE LogInv'
    BY <1>5, LogTick
  <1>6. ASSUME NEW c \in connections, Opened(c) PROVE LogInv'
    BY <1>6, LogOpened
  <1>7. ASSUME NEW c \in connections, Message(c) PROVE LogInv'
    BY <1>7, LogMessage
  <1>8. ASSUME NEW c \in connections, Broken(c) PROVE LogInv'
    <2>1. connections' = {d \in connections : d.number # eventSourceRef}
      BY <1>8 DEF Broken
    <2>2. QED
      BY <1>8, <2>1, LogTakenDown DEF Broken
  <1>9. ASSUME NEW filter \in Filters, Search(filter) PROVE LogInv'
    BY <1>9, LogRedirected DEF Search, UserStep
  <1>10. ASSUME NEW filter \in Filters, Resume(filter) PROVE LogInv'
    BY <1>10, LogRedirected DEF Resume, UserStep
  <1>11. ASSUME NEW filter \in Filters, NEW list \in Prefetched, NEW fromExplorer \in BOOLEAN,
                Enter(filter, list, fromExplorer)
         PROVE  LogInv'
    BY <1>11, LogEnter
  <1>12. CASE UNCHANGED vars
    <2>1. LogShapes'
      BY <1>12 DEF LogInv, LogShapes, vars, client, Ascending
    <2>2. AtFirst'
      BY <1>12 DEF LogInv, AtFirst, vars, client, initialLoading, isConnectionLoading
    <2>3. QED
      BY <1>12, <2>1, <2>2, LogElsewhere DEF vars, client
  <1>13. CASE Pass
    BY <1>13, LogPass
  <1>14. QED
    BY <1>1, <1>2, <1>3, <1>4, <1>5, <1>6, <1>7, <1>8, <1>9, <1>10, <1>11, <1>12, <1>13 DEF Next

LEMMA RangeStep == RangeInv /\ [Next]_vars => RangeInv'
  <1> SUFFICES ASSUME RangeInv, [Next]_vars PROVE RangeInv'
    OBVIOUS
  <1>1. MaxLog \in Nat
    BY LiveTailAssumption
  <1>2. CASE Produce
    BY <1>1, <1>2 DEF Produce, RangeInv
  <1>3. CASE Pass
    BY <1>1, <1>3 DEF Pass, RangeInv
  <1>4. ASSUME NEW filter \in Filters, NEW list \in Prefetched, NEW fromExplorer \in BOOLEAN,
               Enter(filter, list, fromExplorer)
        PROVE  RangeInv'
    BY <1>4 DEF Enter, RangeInv
  <1>5. CASE UNCHANGED <<produced, start>>
    BY <1>5 DEF RangeInv
  <1>6. QED
    BY <1>2, <1>3, <1>4, <1>5 DEF Next, Flush, debouncedUpdateLogs, Pause, Tick, Opened, Message,
       Broken, Search, Resume, vars

LEMMA LogAlways == Spec => []LogInv
  <1>1. Spec => []LiveTailInv
    BY InitInv, StepInv, PTL DEF Spec
  <1>2. Init => RangeInv
    BY DEF Init, RangeInv
  <1>3. Spec => []RangeInv
    BY <1>2, RangeStep, PTL DEF Spec
  <1>4. QED
    BY <1>1, <1>3, LogInit, LogStep, PTL DEF Spec

(* Whatever the filters, the logs and the sizes are: without one of the two mishaps *)
(* the logs of the live view are in order and none is shown twice.                  *)
THEOREM NewestFirstHolds == Spec => []NewestFirst
  BY LogAlways, LogInvOrder, PTL

(* A log that the query lets through and that is newer than what was shown at first *)
(* is shown, on its way, one of too many, or pushed out of the list by newer ones,  *)
(* however often the connection breaks or is opened anew, or it had left the range  *)
(* that is selected when it was.                                                    *)
THEOREM NothingLostHolds == Spec => []NothingLost
  BY LogAlways, LogInvLost, PTL
=============================================================================

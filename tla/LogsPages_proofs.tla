--------------------------- MODULE LogsPages_proofs ---------------------------
(***************************************************************************)
(* The logs list never shows what was not asked for, and in the end all    *)
(* that was, for any queries, ranges, limits, orders and results.  For the *)
(* first (OnlyStagedAlways) two things have to be known in                 *)
(* every state: what the list, the data and the cache hold is for the      *)
(* query and the range they are kept under (Holds), so that the late data  *)
(* of another query cannot be appended; and as long as a page may still be *)
(* appended there is room for it (Room), although pages are asked for with *)
(* a size that was computed from the list of an earlier render.  A page    *)
(* would be appended twice if it were shown from the cache and then        *)
(* fetched: that this happens only in a list whose first page was in the   *)
(* cache is what the conditions on the cache are for.  It would be, too,   *)
(* if it were fetched again and came otherwise: when it does not, it is    *)
(* because the same is asked for (Again), and the same is what comes       *)
(* (Told).  What the second (PagesCompleteHolds) needs besides is said     *)
(* before CompleteInv.                                                     *)
(***************************************************************************)
EXTENDS LogsPages, FiniteSetTheorems, WellFoundedInduction, TLAPS

Clean == ~ResetNeeded

\* A list of which no page was shown from the cache or fetched again.
Spotless == mishaps \cap {"revisited", "refetched"} = {}

\* Rows of a query in a range.
Of(rows, q, r) ==
    /\ rows \in Seq(Logs)
    /\ \A i \in DOMAIN rows : \E j \in DOMAIN Found[q][r] : rows[i] = Found[q][r][j]

\* What a request may be answered.
Answers(rows, key) ==
    /\ Of(rows, key.request.query, key.range)
    /\ Len(rows) <= key.request.size
    /\ Limit[key.request.query] > 0 => Len(rows) <= Limit[key.request.query]

\* Requests: the first page is always the same one.
RequestOk(rq) ==
    /\ rq \in Requests /\ rq.size # 0
    /\ rq.page = 1 => rq = FirstPage(rq.query)

FirstKey(key) == [request |-> FirstPage(key.request.query), range |-> key.range]

KeyOk(key) == key \in Keys /\ RequestOk(key.request)

\* Data is what the server answers for its key and the times that were sent.
Answer(key, params) ==
    [key |-> key, params |-> params, rows |-> Rows(key.request, key.range, params)]

Told(d) ==
    /\ KeyOk(d.key) /\ ~TooFar(d.key.request) /\ d.params \in Params
    /\ d = Answer(d.key, d.params)

\* The shapes that the rest needs.
Shapes ==
    /\ staged \in Queries /\ range \in Ranges /\ minTimeRef \in Ranges
    /\ logs \in Seq(Logs)
    /\ IF request = None THEN observed = None ELSE RequestOk(request) /\ page = request.page
    /\ fetching # None => KeyOk(observed) /\ fetching \in Params /\ ~failed
    /\ lastLog \in Times /\ from \in Nat

\* What is held is for the query and range it is kept under.
Holds ==
    /\ request # None => Of(logs, request.query, minTimeRef)
    /\ \A k \in DOMAIN cache : cache[k] # None /\ cache[k].key = k /\ Told(cache[k])
    /\ \A d \in {data, seen} \ {None} : Told(d)

\* Data that the effects have not seen is the answer for the list.
NewData ==
    Clean /\ data # seen /\ data # None =>
        /\ data.key = Key /\ Key = observed
        /\ fetching = None /\ ~failed

\* What the list asks for is observed, or about to be; the first page of another list
\* never is already.
Observing ==
    /\ Clean /\ ~FetchNeeded => Key = observed
    /\ ResetNeeded /\ request # None => observed # [request |-> FirstPage(staged), range |-> range]

\* First pages are in the cache before other pages are.
FirstPages ==
    /\ \A k \in DOMAIN cache : FirstKey(k) \in DOMAIN cache
    /\ \A d \in {data, seen} \ {None} : FirstKey(d.key) \in DOMAIN cache
    /\ fetching # None /\ observed.request.page > 1 /\ (ResetNeeded \/ Key = observed) =>
          FirstKey(observed) \in DOMAIN cache
    /\ Clean /\ (request.page > 1 \/ logs # <<>>) => FirstKey(Key) \in DOMAIN cache

\* A list whose first page was not in the cache asks for no page that is.
Fresh ==
    Clean /\ "revisited" \notin mishaps /\ (request.page > 1 \/ Key = observed) =>
        \A k \in DOMAIN cache :
            k.request.query = request.query /\ k.range = range
            /\ k.request.page >= request.page => k = observed /\ k = Key

\* The page of the list is not there yet; or it is, and not in the list.
Waiting == Key # observed \/ data = None \/ data.key # Key

Expecting == Waiting \/ data # seen

\* What the effects have seen is not of the page that is waited for.
Unseen ==
    Clean /\ Spotless /\ Waiting =>
        /\ request.page = 1 /\ Key = observed => Key \notin DOMAIN cache
        /\ request.page > 1 =>
              \A d \in {data, seen} \ {None} : d.key.request.page < request.page

\* What is fetched again comes as it was.
Again ==
    Clean /\ Spotless /\ ~Waiting /\ fetching # None => fetching = data.params

\* While a page may still be appended there is room for it.
Room ==
    Clean /\ Spotless =>
        /\ Expecting /\ request.page = 1 => logs = <<>>
        /\ Limit[request.query] > 0 =>
              /\ Len(logs) <= Limit[request.query]
              /\ Expecting /\ request.page > 1 =>
                    Len(logs) + request.size <= Limit[request.query]

ListInv ==
    /\ Shapes /\ Holds /\ NewData /\ Observing /\ FirstPages /\ Fresh /\ Unseen /\ Again /\ Room

-----------------------------------------------------------------------------
\* Sets of natural numbers: the n-th smallest of them.
LEMMA Least ==
    ASSUME NEW T \in SUBSET Nat, T # {}
    PROVE  \E m \in T : \A n \in T : m <= n
<1> DEFINE Below == {p \in Nat \X Nat : p[1] < p[2]}
<1>1. IsWellFoundedOn(Below, Nat)
  BY NatLessThanWellFounded DEF OpToRel
<1>2. \A m, n \in Nat : n < m => <<n, m>> \in Below
  OBVIOUS
<1> HIDE DEF Below
<1>3. PICK m \in T : \A n \in T : <<n, m>> \notin Below
  BY <1>1, WFMin
<1>4. ASSUME NEW n \in T PROVE m <= n
  <2>1. ~(n < m)
    BY <1>2, <1>3
  <2> QED BY <2>1
<1> QED BY <1>4

LEMMA FiniteIndices ==
    ASSUME NEW N \in Nat, NEW C \in SUBSET (1 .. N)
    PROVE  IsFiniteSet(C) /\ Cardinality(C) \in Nat
<1>1. IsFiniteSet(1 .. N)
  BY FS_Interval
<1> QED BY <1>1, FS_Subset, FS_CardinalityType

LEMMA NthExists ==
    ASSUME NEW N \in Nat, NEW C \in SUBSET (1 .. N), NEW k \in 1 .. Cardinality(C)
    PROVE  Nth(C, k) \in C
<1> DEFINE Low(i) == {j \in C : j <= i}
           T == {i \in Nat : Cardinality(Low(i)) >= k}
<1>1. \A i \in Nat : Low(i) \in SUBSET (1 .. N)
  OBVIOUS
<1>2. \A i \in Nat : IsFiniteSet(Low(i)) /\ Cardinality(Low(i)) \in Nat
  BY <1>1, FiniteIndices
<1>3. Cardinality(C) \in Nat /\ k \in Nat \ {0}
  <2>1. Cardinality(C) \in Nat
    BY FiniteIndices
  <2> QED BY <2>1
<1>4. Low(N) = C /\ Low(0) = {}
  <2>1. \A j \in C : j \in 1 .. N
    OBVIOUS
  <2>2. \A j \in C : j <= N /\ ~(j <= 0)
    BY <2>1
  <2> QED BY <2>2
<1>5. N \in T /\ 0 \notin T
  <2>1. Cardinality(Low(N)) >= k
    BY <1>3, <1>4
  <2>2. Cardinality(Low(0)) = 0
    BY <1>4, FS_EmptySet
  <2> QED BY <1>3, <2>1, <2>2
<1>6. PICK i \in T : \A n \in T : i <= n
  BY <1>5, Least
<1>7. i \in Nat \ {0} /\ i - 1 \in Nat /\ Cardinality(Low(i)) >= k
  <2>1. i \in Nat /\ Cardinality(Low(i)) >= k
    BY <1>6
  <2>2. i # 0
    BY <1>5, <1>6
  <2> QED BY <2>1, <2>2
<1>8. i - 1 \notin T
  <2>1. i - 1 \in T => i <= i - 1
    BY <1>6
  <2> HIDE DEF T
  <2> QED BY <1>7, <2>1
<1>9. ~(Cardinality(Low(i - 1)) >= k)
  <2> HIDE DEF Low
  <2> QED BY <1>7, <1>8
<1> HIDE DEF T
<1>10. i \in C
  <2> SUFFICES ASSUME i \notin C PROVE FALSE
    OBVIOUS
  <2>1. \A j \in C : j <= i <=> j <= i - 1
    <3>1. \A j \in C : j \in Int /\ j # i
      OBVIOUS
    <3> QED BY <1>7, <3>1
  <2>2. Low(i) = Low(i - 1)
    BY <2>1
  <2> HIDE DEF Low
  <2> QED BY <1>7, <1>9, <2>2
<1>11. Low(i) = Low(i - 1) \cup {i} /\ i \notin Low(i - 1)
  <2>1. \A j \in C : (j <= i <=> j <= i - 1 \/ j = i) /\ ~(i <= i - 1)
    <3>1. \A j \in C : j \in Int
      OBVIOUS
    <3> QED BY <1>7, <3>1
  <2> QED BY <1>10, <2>1
<1>12. Cardinality(Low(i)) = Cardinality(Low(i - 1)) + 1
  <2>1. IsFiniteSet(Low(i - 1))
    BY <1>2, <1>7
  <2> HIDE DEF Low
  <2> QED BY <1>11, <2>1, FS_AddElement
<1>13. Cardinality(Low(i)) = k
  <2>1. Cardinality(Low(i - 1)) \in Nat
    BY <1>2, <1>7
  <2> HIDE DEF Low
  <2> QED BY <1>3, <1>7, <1>9, <1>12, <2>1
<1>14. \E x \in C : Cardinality({j \in C : j <= x}) = k
  BY <1>10, <1>13
<1> QED BY <1>14 DEF Nth

\* In an interval.
LEMMA NthOfInterval ==
    ASSUME NEW n \in Nat, NEW m \in Nat, n <= m, NEW k \in 1 .. m - n
    PROVE  Nth(n + 1 .. m, k) = n + k
<1> DEFINE S == n + 1 .. m
<1>1. ASSUME NEW i \in S PROVE Cardinality({j \in S : j <= i}) = i - n
  <2>1. {j \in S : j <= i} = n + 1 .. i
    OBVIOUS
  <2>2. n + 1 \in Int /\ i \in Int /\ n + 1 <= i
    OBVIOUS
  <2>3. Cardinality(n + 1 .. i) = IF n + 1 > i THEN 0 ELSE i - (n + 1) + 1
    BY <2>2, FS_Interval
  <2>4. (IF n + 1 > i THEN 0 ELSE i - (n + 1) + 1) = i - n
    BY <2>2
  <2> QED BY <2>1, <2>3, <2>4, Zenon
<1>2. n + k \in S
  OBVIOUS
<1>3. \A i \in S : Cardinality({j \in S : j <= i}) = k => i = n + k
  <2> SUFFICES ASSUME NEW i \in S, Cardinality({j \in S : j <= i}) = k PROVE i = n + k
    OBVIOUS
  <2>1. i - n = k
    BY <1>1
  <2> QED BY <2>1
<1>4. Cardinality({j \in S : j <= n + k}) = k
  <2>1. Cardinality({j \in S : j <= n + k}) = (n + k) - n
    BY <1>1, <1>2
  <2> QED BY <2>1
<1> HIDE DEF S
<1>5. Nth(S, k) \in S /\ Cardinality({j \in S : j <= Nth(S, k)}) = k
  BY <1>2, <1>4 DEF Nth
<1> QED BY <1>3, <1>5 DEF S

\* A set of numbers above n that leaves none out is an interval.
LEMMA Contiguous ==
    ASSUME NEW n \in Nat, NEW N \in Nat, n <= N, NEW C \in SUBSET (n + 1 .. N),
           \A i \in C : \A j \in n + 1 .. i : j \in C
    PROVE  \E m \in n .. N : C = n + 1 .. m /\ Cardinality(C) = m - n
<1> DEFINE T == {i \in n + 1 .. N + 1 : i \notin C}
<1>1. N + 1 \in T /\ T \in SUBSET Nat
  OBVIOUS
<1>2. PICK i \in T : \A j \in T : i <= j
  BY <1>1, Least
<1>3. i \in n + 1 .. N + 1 /\ i \notin C /\ \A j \in n + 1 .. i - 1 : j \in C
  BY <1>2
<1>4. i - 1 \in n .. N
  BY <1>3
<1>5. C = n + 1 .. i - 1
  <2>1. ASSUME NEW j \in C PROVE j \in n + 1 .. i - 1
    <3>1. ~(i <= j)
      BY <1>3, <2>1
    <3> QED BY <1>3, <3>1
  <2> QED BY <1>3, <2>1
<1>6. Cardinality(n + 1 .. i - 1) = (i - 1) - n
  <2>1. n + 1 \in Int /\ i - 1 \in Int
    BY <1>3
  <2>2. Cardinality(n + 1 .. i - 1) =
            IF n + 1 > i - 1 THEN 0 ELSE (i - 1) - (n + 1) + 1
    BY <2>1, FS_Interval
  <2> QED BY <1>4, <2>2
<1> QED BY <1>4, <1>5, <1>6

-----------------------------------------------------------------------------
\* What the server answers is rows of the result, no more than were asked for.
LEMMA RowLimits ==
    ASSUME NEW rq \in Requests, rq.size # 0, ~TooFar(rq)
    PROVE  /\ RowLimit(rq) \in Nat /\ RowLimit(rq) <= rq.size
           /\ Limit[rq.query] \in Nat
           /\ Limit[rq.query] > 0 => RowLimit(rq) <= Limit[rq.query]
<1>1. rq.query \in Queries /\ rq.offset \in Nat /\ rq.size \in Nat \ {0}
  BY DEF Requests
<1>2. Limit[rq.query] \in Nat
  BY <1>1, LogsPagesAssumption
<1> QED BY <1>1, <1>2 DEF RowLimit, TooFar

LEMMA RowsAnswer ==
    ASSUME NEW key, KeyOk(key), NEW params, ~TooFar(key.request)
    PROVE  Answers(Rows(key.request, key.range, params), key)
<1> DEFINE rq == key.request
           found == Found[rq.query][key.range]
           candidates == Candidates(rq, key.range, params)
           offset == IF Order[rq.query] = "other" THEN rq.offset ELSE 0
           count == Smaller(RowLimit(rq), Cardinality(candidates) - offset)
           rows == Rows(rq, key.range, params)
<1>1. /\ rq \in Requests /\ rq.size # 0
      /\ rq.query \in Queries /\ key.range \in Ranges
      /\ rq.offset \in Nat /\ rq.size \in Nat \ {0}
  BY DEF KeyOk, RequestOk, Keys, Requests
<1>2. found \in Seq(Logs) /\ Len(found) \in Nat /\ DOMAIN found = 1 .. Len(found)
  <2>1. found \in Seq(Logs)
    BY <1>1, LogsPagesAssumption
  <2> HIDE DEF found
  <2> QED BY <2>1
<1>3. /\ RowLimit(rq) \in Nat /\ RowLimit(rq) <= rq.size /\ Limit[rq.query] \in Nat
      /\ Limit[rq.query] > 0 => RowLimit(rq) <= Limit[rq.query]
  BY <1>1, RowLimits
<1>4. candidates \in SUBSET (1 .. Len(found))
  BY <1>2 DEF Candidates
<1>5. Cardinality(candidates) \in Nat /\ offset \in Nat
  <2>1. Cardinality(candidates) \in Nat
    BY <1>2, <1>4, FiniteIndices
  <2> QED BY <1>1, <2>1
<1>6. rows = [n \in 1 .. count |-> found[Nth(candidates, offset + n)]]
  BY DEF Rows
<1> HIDE DEF rows, candidates, offset, found, rq
<1>7. count \in Int /\ count <= RowLimit(rq) /\ count <= Cardinality(candidates) - offset
  BY <1>3, <1>5 DEF Smaller
<1> HIDE DEF count
<1>8. ASSUME NEW n \in 1 .. count
      PROVE  Nth(candidates, offset + n) \in DOMAIN found
  <2>1. offset + n \in 1 .. Cardinality(candidates)
    BY <1>5, <1>7
  <2>2. Nth(candidates, offset + n) \in candidates
    BY <1>2, <1>4, <2>1, NthExists
  <2> QED BY <1>2, <1>4, <2>2
<1> DEFINE size == IF count > 0 THEN count ELSE 0
<1>9. size \in Nat /\ 1 .. count = 1 .. size /\ size <= RowLimit(rq)
  BY <1>3, <1>7
<1> HIDE DEF size
<1>10. \A n \in 1 .. size : /\ rows[n] = found[Nth(candidates, offset + n)]
                            /\ Nth(candidates, offset + n) \in DOMAIN found
                            /\ rows[n] \in Logs
  <2>1. \A n \in 1 .. size : /\ rows[n] = found[Nth(candidates, offset + n)]
                             /\ Nth(candidates, offset + n) \in DOMAIN found
    BY <1>6, <1>8, <1>9
  <2>2. \A i \in DOMAIN found : found[i] \in Logs
    BY <1>2
  <2> QED BY <2>1, <2>2
<1>11. rows \in Seq(Logs) /\ Len(rows) = size /\ DOMAIN rows = 1 .. size
  <2>1. rows \in [1 .. size -> Logs]
    BY <1>6, <1>9, <1>10
  <2>2. rows \in Seq(Logs)
    BY <1>9, <2>1
  <2> QED BY <1>9, <2>1, <2>2
<1>12. \A i \in DOMAIN rows : \E j \in DOMAIN found : rows[i] = found[j]
  BY <1>10, <1>11
<1>13. Of(rows, rq.query, key.range)
  BY <1>11, <1>12 DEF Of, found
<1>14. /\ Len(rows) <= rq.size
       /\ Limit[rq.query] > 0 => Len(rows) <= Limit[rq.query]
  BY <1>1, <1>3, <1>9, <1>11
<1> QED BY <1>13, <1>14 DEF Answers, rq, rows

\* Data that is told is not nothing.
LEMMA ToldAnswers ==
    ASSUME NEW d, Told(d)
    PROVE  /\ KeyOk(d.key) /\ d.params \in Params /\ Answers(d.rows, d.key)
<1>1. KeyOk(d.key) /\ ~TooFar(d.key.request) /\ d.params \in Params
  BY DEF Told
<1>2. d.rows = Rows(d.key.request, d.key.range, d.params)
  <2>1. d = Answer(d.key, d.params)
    BY DEF Told
  <2>2. Answer(d.key, d.params).rows = Rows(d.key.request, d.key.range, d.params)
    BY DEF Answer
  <2> QED BY <2>1, <2>2
<1>3. Answers(Rows(d.key.request, d.key.range, d.params), d.key)
  BY <1>1, RowsAnswer
<1> QED BY <1>1, <1>2, <1>3

LEMMA AnswerTold ==
    ASSUME NEW key, KeyOk(key), ~TooFar(key.request), NEW params \in Params
    PROVE  /\ Told(Answer(key, params)) /\ Answer(key, params) # None
           /\ Answer(key, params).key = key /\ Answer(key, params).params = params
           /\ Answer(key, params).rows = Rows(key.request, key.range, params)
<1> DEFINE rows == Rows(key.request, key.range, params)
<1>1. /\ Answer(key, params).key = key /\ Answer(key, params).params = params
      /\ Answer(key, params).rows = rows
  BY DEF Answer
<1>2. rows \in Seq(Logs) /\ key \in Keys
  <2>1. Answers(rows, key)
    BY RowsAnswer
  <2> QED BY <2>1 DEF Answers, Of, KeyOk
<1> HIDE DEF rows
<1>3. Answer(key, params) = [key |-> key, rows |-> rows, params |-> params]
  BY DEF Answer, rows
<1>4. [key |-> key, rows |-> rows, params |-> params]
         \in [key : Keys, rows : Seq(Logs), params : Params]
  BY <1>2
<1>5. Answer(key, params) # None
  BY <1>3, <1>4, NoneIsNothing
<1>6. Told(Answer(key, params))
  BY <1>1 DEF Told
<1> QED BY <1>1, <1>5, <1>6 DEF rows

LEMMA Concatenated ==
    ASSUME NEW q, NEW r, NEW first, NEW second, Of(first, q, r), Of(second, q, r)
    PROVE  Of(first \o second, q, r) /\ Len(first \o second) = Len(first) + Len(second)
<1>1. first \in Seq(Logs) /\ second \in Seq(Logs)
  BY DEF Of
<1>2. /\ first \o second \in Seq(Logs)
      /\ Len(first \o second) = Len(first) + Len(second)
  BY <1>1
<1>3. ASSUME NEW i \in DOMAIN (first \o second)
      PROVE  \E j \in DOMAIN Found[q][r] : (first \o second)[i] = Found[q][r][j]
  <2>1. CASE i <= Len(first)
    <3>1. i \in DOMAIN first /\ (first \o second)[i] = first[i]
      BY <1>1, <2>1
    <3> QED BY <3>1 DEF Of
  <2>2. CASE i > Len(first)
    <3>1. i - Len(first) \in DOMAIN second /\ (first \o second)[i] = second[i - Len(first)]
      BY <1>1, <2>2
    <3> QED BY <3>1 DEF Of
  <2> QED BY <1>1, <2>1, <2>2
<1> QED BY <1>2, <1>3 DEF Of

\* The list that is not about to start anew.
LEMMA CleanFacts ==
    ASSUME ListInv, Clean
    PROVE  /\ request # None /\ RequestOk(request) /\ page = request.page
           /\ request.query = staged /\ minTimeRef = range
           /\ Key \in Keys /\ KeyOk(Key) /\ Key # None
           /\ Key.request = request /\ Key.range = range
           /\ request.page \in Nat \ {0} /\ request.size \in Nat \ {0}
           /\ request.offset \in Nat
<1>1. request # None /\ request.query = staged /\ minTimeRef = range
  BY DEF Clean, ResetNeeded
<1>2. RequestOk(request) /\ page = request.page /\ range \in Ranges
  BY <1>1 DEF ListInv, Shapes
<1>3. Key \in Keys /\ Key.request = request /\ Key.range = range
  BY <1>2 DEF Key, Keys, RequestOk
<1> QED BY <1>1, <1>2, <1>3, NoneIsNothing DEF KeyOk, RequestOk, Requests

\* When effects have run.
LEMMA RestFacts ==
    ASSUME ListInv, ~EffectsFire
    PROVE  Clean /\ Key = observed /\ data = seen /\ DataShown = data
<1>1. Clean /\ ~FetchNeeded /\ DataShown = seen
  BY DEF EffectsFire, Clean
<1>2. Key = observed
  BY <1>1 DEF ListInv, Observing
<1> QED BY <1>1, <1>2 DEF DataShown

\* What a render shows of the data.
LEMMA ShownFacts ==
    ASSUME ListInv
    PROVE  /\ Key # observed /\ Key \in DOMAIN cache =>
                 DataShown # None /\ DataShown.key = Key
           /\ ~(Key # observed /\ Key \in DOMAIN cache) => DataShown = data
           /\ DataShown # None =>
                 /\ Told(DataShown) /\ FirstKey(DataShown.key) \in DOMAIN cache
                 /\ KeyOk(DataShown.key) /\ DataShown.params \in Params
                 /\ Answers(DataShown.rows, DataShown.key)
<1>1. CASE Key # observed /\ Key \in DOMAIN cache
  <2>1. DataShown = cache[Key]
    BY <1>1 DEF DataShown
  <2>2. DataShown # None /\ DataShown.key = Key /\ Told(DataShown)
    BY <1>1, <2>1 DEF ListInv, Holds
  <2>3. FirstKey(DataShown.key) \in DOMAIN cache
    BY <1>1, <2>2 DEF ListInv, FirstPages
  <2> QED BY <1>1, <2>2, <2>3, ToldAnswers
<1>2. CASE ~(Key # observed /\ Key \in DOMAIN cache)
  <2>1. DataShown = data
    BY <1>2 DEF DataShown
  <2>2. data # None => Told(data) /\ FirstKey(data.key) \in DOMAIN cache
    BY DEF ListInv, Holds, FirstPages
  <2> QED BY <1>2, <2>1, <2>2, ToldAnswers
<1> QED BY <1>1, <1>2

LEMMA SentFacts ==
    ASSUME ListInv
    PROVE  /\ ParamsSent \in Params /\ ParamsSent # None
           /\ ParamsSent.end = EndSent
           /\ ParamsSent.from = (IF request.page = 1 THEN 0 ELSE from)
           /\ ParamsSent.from \in Nat
<1>1. lastLog \in Times /\ from \in Nat
  BY DEF ListInv, Shapes
<1>2. lastLog # None => lastLog \in Nat
  BY <1>1, LogsPagesAssumption DEF Times
<1>3. lastLog # None => Millisecond(lastLog) \in Nat
  <2>1. TicksPerMs \in Nat \ {0}
    BY LogsPagesAssumption
  <2>2. lastLog # None => lastLog \div TicksPerMs \in Nat
    BY <1>2, <2>1
  <2> QED BY <2>1, <2>2 DEF Millisecond
<1>4. EndSent \in Nat \cup {None}
  BY <1>3 DEF EndSent
<1> DEFINE turn == IF range \in Relative /\ DataShown # None /\ DataShown.key = Key
                   THEN 1 - DataShown.params.turn ELSE 0
           time == IF request.page = 1 THEN 0 ELSE from
<1>5. turn \in {0, 1}
  <2>1. DataShown # None => DataShown.params.turn \in {0, 1}
    BY ShownFacts DEF Params
  <2>2. DataShown # None => 1 - DataShown.params.turn \in {0, 1}
    BY <2>1
  <2> QED BY <2>2
<1>6. time \in Nat
  BY <1>1
<1>7. ParamsSent = [end |-> EndSent, from |-> time, turn |-> turn]
  BY DEF ParamsSent
<1> HIDE DEF turn, time
<1>8. ParamsSent \in Params
  BY <1>4, <1>5, <1>6, <1>7 DEF Params
<1>9. ParamsSent.end = EndSent /\ ParamsSent.from = time
  BY <1>7
<1> QED BY <1>6, <1>8, <1>9, NoneIsNothing DEF time

LEMMA InitList == Init => ListInv
<1> SUFFICES ASSUME Init PROVE ListInv
  OBVIOUS
<1>1. /\ request = None /\ logs = <<>> /\ DOMAIN cache = {} /\ fetching = None
      /\ data = None /\ seen = None /\ lastLog = None /\ from = 0
  BY DEF Init
<1>2. ResetNeeded
  BY <1>1 DEF ResetNeeded
<1>3. Shapes
  BY <1>1 DEF Init, Shapes, Times
<1>4. Holds
  BY <1>1 DEF Holds
<1> QED BY <1>1, <1>2, <1>3, <1>4
        DEF ListInv, NewData, Observing, FirstPages, Fresh, Unseen, Again, Room, Clean

-----------------------------------------------------------------------------
\* A flush that starts the list anew.
LEMMA ResetFacts ==
    ASSUME ListInv, Flush, ResetNeeded
    PROVE  /\ logs' = <<>> /\ page' = 1 /\ request' = FirstPage(staged)
           /\ minTimeRef' = range /\ reached' = 0
           /\ observed' = IF FetchNeeded THEN Key ELSE observed
           /\ fetching' = IF FetchNeeded THEN ParamsSent ELSE fetching
           /\ from' = IF FetchNeeded THEN ParamsSent.from ELSE from
           /\ failed' = (failed /\ ~FetchNeeded)
           /\ data' = DataShown /\ seen' = DataShown
           /\ lastLog' = IF DataShown # seen THEN None ELSE lastLog
           /\ UNCHANGED <<staged, range, cache>>
           /\ RequestOk(request') /\ request' # None
           /\ request'.query = staged /\ request'.page = 1
           /\ Key' = [request |-> FirstPage(staged), range |-> range]
           /\ Key' \in Keys /\ Key' # None /\ FirstKey(Key') = Key'
           /\ ~ResetNeeded'
           /\ Key' = observed' => FetchNeeded /\ Key = Key' /\ request = request'
           /\ Key' = observed' /\ "revisited" \notin mishaps' => Key' \notin DOMAIN cache
           /\ Key' = observed' /\ mishaps' = {} => EndSent = None
<1>1. /\ logs' = <<>> /\ page' = 1 /\ request' = FirstPage(staged) /\ minTimeRef' = range
      /\ reached' = 0
      /\ observed' = IF FetchNeeded THEN Key ELSE observed
      /\ fetching' = IF FetchNeeded THEN ParamsSent ELSE fetching
      /\ from' = IF FetchNeeded THEN ParamsSent.from ELSE from
      /\ failed' = (failed /\ ~FetchNeeded)
      /\ data' = DataShown /\ seen' = DataShown
      /\ lastLog' = IF DataShown # seen THEN None ELSE lastLog
      /\ UNCHANGED <<staged, range, cache>>
      /\ FetchNeeded /\ request.page = 1 /\ Key \in DOMAIN cache => "revisited" \in mishaps'
      /\ FetchNeeded /\ request.page = 1 /\ mishaps' = {} => EndSent = None
  BY DEF Flush, Observe, UpdateList, NoteMishaps, inputs
<1>2. /\ RequestOk(request') /\ request' # None
      /\ request'.query = staged /\ request'.page = 1
  <2>1. staged \in Queries /\ PageSize \in Nat \ {0}
    BY LogsPagesAssumption DEF ListInv, Shapes
  <2>2. FirstPage(staged) \in Requests
    BY <2>1 DEF FirstPage, Requests
  <2> QED BY <1>1, <2>1, <2>2, NoneIsNothing DEF RequestOk, FirstPage
<1>3. Key' = [request |-> FirstPage(staged), range |-> range] /\ Key' \in Keys /\ Key' # None
  BY <1>1, <1>2, NoneIsNothing DEF Key, Keys, RequestOk, ListInv, Shapes
<1>4. ~ResetNeeded'
  BY <1>1, <1>2 DEF ResetNeeded
<1>5. FirstKey(Key') = Key'
  BY <1>3 DEF FirstKey, FirstPage
<1>6. Key' = observed' => FetchNeeded /\ Key = Key' /\ request = request'
  <2>1. observed # Key'
    BY <1>3 DEF ListInv, Observing, Shapes
  <2> QED BY <1>1, <1>3, <2>1 DEF Key
<1>7. /\ Key' = observed' /\ "revisited" \notin mishaps' => Key' \notin DOMAIN cache
      /\ Key' = observed' /\ mishaps' = {} => EndSent = None
  BY <1>1, <1>2, <1>6
<1> QED BY <1>1, <1>2, <1>3, <1>4, <1>5, <1>6, <1>7

LEMMA ResetKeeps ==
    ASSUME ListInv, Flush, ResetNeeded
    PROVE  ListInv'
<1>1. /\ logs' = <<>> /\ page' = 1 /\ request' = FirstPage(staged) /\ minTimeRef' = range
      /\ observed' = IF FetchNeeded THEN Key ELSE observed
      /\ fetching' = IF FetchNeeded THEN ParamsSent ELSE fetching
      /\ from' = IF FetchNeeded THEN ParamsSent.from ELSE from
      /\ failed' = (failed /\ ~FetchNeeded)
      /\ data' = DataShown /\ seen' = DataShown
      /\ lastLog' = IF DataShown # seen THEN None ELSE lastLog
      /\ UNCHANGED <<staged, range, cache>>
  BY ResetFacts
<1>2. /\ RequestOk(request') /\ request' # None
      /\ request'.query = staged /\ request'.page = 1
      /\ Key' = [request |-> FirstPage(staged), range |-> range]
      /\ Key' \in Keys /\ Key' # None /\ FirstKey(Key') = Key'
      /\ ~ResetNeeded' /\ Clean'
  BY ResetFacts DEF Clean
<1>3. /\ Key' = observed' => FetchNeeded /\ Key = Key' /\ request = request'
      /\ Key' = observed' /\ "revisited" \notin mishaps' => Key' \notin DOMAIN cache
  BY ResetFacts
<1>4. FetchNeeded' \/ Key' = observed'
  <2>1. Limit[staged] \in Nat
    BY LogsPagesAssumption DEF ListInv, Shapes
  <2>2. ~isLimit'
    BY <1>1, <2>1 DEF isLimit
  <2> QED BY <1>2, <2>2 DEF FetchNeeded, Enabled
<1>5. FetchNeeded => KeyOk(Key) /\ Key.request = request
  BY DEF FetchNeeded, Enabled, ListInv, Shapes, Key, KeyOk, Keys, RequestOk
<1>6. Shapes'
  <2>1. logs' \in Seq(Logs) /\ request'.page = page'
    BY <1>1, <1>2
  <2>2. fetching' # None => KeyOk(observed') /\ fetching' \in Params /\ ~failed'
    BY <1>1, <1>5, SentFacts DEF ListInv, Shapes
  <2>3. range' \in Ranges /\ minTimeRef' \in Ranges /\ staged' \in Queries
    BY <1>1 DEF ListInv, Shapes
  <2>4. lastLog' \in Times' /\ from' \in Nat
    BY <1>1, SentFacts DEF ListInv, Shapes, Times
  <2> QED BY <1>2, <2>1, <2>2, <2>3, <2>4 DEF Shapes
<1>7. Holds'
  <2>1. Of(<<>>, request'.query, range)
    BY DEF Of
  <2>2. \A d \in {data', seen'} \ {None} : Told(d)
    BY <1>1, ShownFacts
  <2>3. \A k \in DOMAIN cache' : cache'[k] # None /\ cache'[k].key = k /\ Told(cache'[k])
    BY <1>1 DEF ListInv, Holds
  <2> QED BY <1>1, <2>1, <2>2, <2>3 DEF Holds
<1>8. NewData'
  BY <1>1 DEF NewData
<1>9. Observing'
  BY <1>2, <1>4 DEF Observing
<1>10. FirstPages'
  <2>1. \A d \in {data', seen'} \ {None} : FirstKey(d.key) \in DOMAIN cache'
    BY <1>1, ShownFacts
  <2>2. fetching' # None /\ observed'.request.page > 1 /\ (ResetNeeded' \/ Key' = observed') =>
           FirstKey(observed') \in DOMAIN cache'
    <3>1. Key'.request.page = 1
      BY <1>2 DEF FirstPage
    <3> QED BY <1>2, <3>1
  <2> QED BY <1>1, <1>2, <2>1, <2>2 DEF ListInv, FirstPages
<1>11. Fresh'
  <2> SUFFICES ASSUME "revisited" \notin mishaps', Key' = observed', NEW k \in DOMAIN cache,
                      k.request.query = staged, k.range = range
               PROVE  FALSE
    BY <1>1, <1>2 DEF Fresh
  <2>1. Key' \notin DOMAIN cache
    BY <1>3
  <2>2. FirstKey(k) = Key'
    BY <1>2 DEF FirstKey
  <2> QED BY <2>1, <2>2 DEF ListInv, FirstPages
<1>12. Unseen'
  BY <1>1, <1>2, <1>3 DEF Unseen, Spotless
<1>13. Again'
  <2> SUFFICES ASSUME Spotless', ~Waiting' PROVE FALSE
    BY DEF Again
  <2>1. Key' = observed' /\ data' # None /\ data'.key = Key'
    BY DEF Waiting
  <2>2. FirstKey(DataShown.key) \in DOMAIN cache
    BY <1>1, <2>1, ShownFacts
  <2>3. Key' \notin DOMAIN cache
    BY <1>3, <2>1 DEF Spotless
  <2> QED BY <1>1, <1>2, <2>1, <2>2, <2>3
<1>14. Room'
  <2>1. Len(logs') = 0
    BY <1>1
  <2> QED BY <1>1, <1>2, <2>1, LogsPagesAssumption DEF Room, ListInv, Shapes
<1> QED BY <1>6, <1>7, <1>8, <1>9, <1>10, <1>11, <1>12, <1>13, <1>14 DEF ListInv

\* A flush of a list that goes on: what is new in a render is appended.
Appends == DataShown # seen /\ DataShown # None

LEMMA AppendFacts ==
    ASSUME ListInv, Flush, Clean
    PROVE  /\ logs' = Appended
           /\ UNCHANGED <<page, request, minTimeRef, staged, range, cache, reached>>
           /\ fetching' = IF FetchNeeded THEN ParamsSent ELSE fetching
           /\ from' = IF FetchNeeded THEN ParamsSent.from ELSE from
           /\ failed' = (failed /\ ~FetchNeeded)
           /\ data' = DataShown /\ seen' = DataShown
           /\ lastLog' = IF DataShown # seen THEN None ELSE lastLog
           /\ mishaps \subseteq mishaps'
           /\ Key' = Key /\ Clean' /\ observed' = Key
           /\ ~FetchNeeded => Key = observed
           /\ FetchNeeded => Key # observed
           /\ ~Appends => logs' = logs
           /\ Appends => /\ Answers(DataShown.rows, Key) /\ logs' = logs \o DataShown.rows
                         /\ \/ Key # observed /\ Key \in DOMAIN cache
                            \/ Key = observed /\ data # seen /\ data # None
           /\ Of(logs', staged, range) /\ logs' \in Seq(Logs) /\ Len(logs') >= Len(logs)
           /\ Appends => /\ Len(logs') = Len(logs) + Len(DataShown.rows)
                         /\ Len(DataShown.rows) \in Nat
                         /\ Len(DataShown.rows) <= request.size
                         /\ Limit[request.query] > 0 =>
                               Len(DataShown.rows) <= Limit[request.query]
           /\ FetchNeeded /\ request.page = 1 /\ mishaps' = {} => EndSent = None
           /\ FetchNeeded /\ request.page # 1 /\ mishaps' = {} => ~RangeMoved
           /\ "revisited" \notin mishaps' =>
                 /\ "revisited" \notin mishaps
                 /\ Key # observed => Key \notin DOMAIN cache
<1> DEFINE rows == DataShown.rows
<1>1. /\ logs' = Appended
      /\ UNCHANGED <<page, request, minTimeRef, staged, range, cache, reached>>
      /\ fetching' = IF FetchNeeded THEN ParamsSent ELSE fetching
      /\ from' = IF FetchNeeded THEN ParamsSent.from ELSE from
      /\ failed' = (failed /\ ~FetchNeeded)
      /\ data' = DataShown /\ seen' = DataShown
      /\ lastLog' = IF DataShown # seen THEN None ELSE lastLog
      /\ mishaps \subseteq mishaps'
      /\ FetchNeeded /\ request.page = 1 /\ Key \in DOMAIN cache => "revisited" \in mishaps'
      /\ FetchNeeded /\ request.page = 1 /\ mishaps' = {} => EndSent = None
      /\ FetchNeeded /\ request.page # 1 /\ mishaps' = {} => ~RangeMoved
  BY DEF Flush, Observe, UpdateList, NoteMishaps, inputs, Clean
<1>2. /\ request # None /\ RequestOk(request) /\ page = request.page
      /\ request.query = staged /\ minTimeRef = range
      /\ Key \in Keys /\ KeyOk(Key) /\ Key # None
  BY CleanFacts
<1>3. Key' = Key /\ Key.request = request /\ Key.range = range /\ Clean'
  BY <1>1 DEF Key, Clean, ResetNeeded
<1>4. observed' = Key /\ (~FetchNeeded => Key = observed) /\ (FetchNeeded => Key # observed)
  BY DEF Flush, Observe, ListInv, Observing, FetchNeeded
<1>6. /\ request.page \in Nat \ {0} /\ request.size \in Nat
      /\ logs \in Seq(Logs) /\ Limit[request.query] \in Nat
  BY <1>2, LogsPagesAssumption DEF RequestOk, Requests, ListInv, Shapes
<1>7. Of(logs, staged, range)
  BY <1>2 DEF ListInv, Holds
<1>8. DataShown # None => Answers(DataShown.rows, DataShown.key)
  BY ShownFacts
\* Data that is appended is from the cache, or the answer that was waited for.
<1>9. ASSUME Appends
      PROVE  /\ Answers(rows, Key) /\ logs' = logs \o rows
             /\ \/ Key # observed /\ Key \in DOMAIN cache
                \/ Key = observed /\ data # seen /\ data # None
  <2>1. CASE Key # observed /\ Key \in DOMAIN cache
    <3>1. DataShown.key = Key /\ DataShown # None
      BY <2>1, ShownFacts
    <3> QED BY <1>1, <1>8, <1>9, <2>1, <3>1 DEF Appended, Appends
  <2>2. CASE ~(Key # observed /\ Key \in DOMAIN cache)
    <3>1. DataShown = data /\ data # seen /\ data # None
      BY <1>9, <2>2 DEF DataShown, Appends
    <3>2. data.key = Key /\ Key = observed
      BY <3>1 DEF ListInv, NewData
    <3> QED BY <1>1, <1>8, <1>9, <3>1, <3>2 DEF Appended, Appends
  <2> QED BY <2>1, <2>2
<1>10. Appends => /\ Of(logs', staged, range) /\ Len(logs') = Len(logs) + Len(rows)
                  /\ Len(rows) \in Nat /\ Len(rows) <= request.size
                  /\ Limit[request.query] > 0 => Len(rows) <= Limit[request.query]
  <2> SUFFICES ASSUME Appends
               PROVE  /\ Of(logs', staged, range) /\ Len(logs') = Len(logs) + Len(rows)
                      /\ Len(rows) \in Nat /\ Len(rows) <= request.size
                      /\ Limit[request.query] > 0 => Len(rows) <= Limit[request.query]
    OBVIOUS
  <2>1. Answers(rows, Key) /\ logs' = logs \o rows
    BY <1>9
  <2> HIDE DEF rows
  <2>2. Of(rows, staged, range) /\ Len(rows) <= request.size
        /\ (Limit[request.query] > 0 => Len(rows) <= Limit[request.query])
    BY <1>2, <1>3, <2>1 DEF Answers
  <2>3. rows \in Seq(Logs)
    BY <2>2 DEF Of
  <2>4. Of(logs \o rows, staged, range) /\ Len(logs \o rows) = Len(logs) + Len(rows)
    BY <1>7, <2>2, Concatenated
  <2> QED BY <2>1, <2>2, <2>3, <2>4
<1>11. ~Appends => logs' = logs
  BY <1>1 DEF Appended, Appends
<1>12. Of(logs', staged, range) /\ logs' \in Seq(Logs) /\ Len(logs') >= Len(logs)
  <2>1. Len(logs) \in Nat
    BY <1>6
  <2> QED BY <1>7, <1>10, <1>11, <2>1 DEF Of
\* A page from the cache is fetched again: the list notes it.
<1>13. ASSUME "revisited" \notin mishaps'
       PROVE  /\ "revisited" \notin mishaps
              /\ Key # observed => Key \notin DOMAIN cache
  <2>1. "revisited" \notin mishaps
    BY <1>1, <1>13
  <2>2. ASSUME Key # observed, Key \in DOMAIN cache PROVE FALSE
    <3>1. request.page # 1
      BY <1>1, <1>4, <1>13, <2>2
    <3>2. request.page > 1 /\ request.page >= request.page
      BY <1>6, <3>1
    <3> QED BY <1>2, <1>3, <2>1, <2>2, <3>2 DEF ListInv, Fresh
  <2> QED BY <2>1, <2>2
<1> HIDE DEF rows
<1>14. Appends => /\ Answers(rows, Key) /\ logs' = logs \o rows
                  /\ Len(logs') = Len(logs) + Len(rows)
                  /\ Len(rows) \in Nat /\ Len(rows) <= request.size
                  /\ Limit[request.query] > 0 => Len(rows) <= Limit[request.query]
                  /\ \/ Key # observed /\ Key \in DOMAIN cache
                     \/ Key = observed /\ data # seen /\ data # None
  BY <1>9, <1>10
<1> QED BY <1>1, <1>3, <1>4, <1>11, <1>12, <1>13, <1>14 DEF rows

\* In a list of which nothing was shown from the cache, what is appended is the answer
\* that was waited for; else the same is waited for as before.
LEMMA AppendCases ==
    ASSUME ListInv, Flush, Clean, Spotless'
    PROVE  /\ Spotless
           /\ Appends => /\ Key = observed /\ data # seen /\ data # None /\ data.key = Key
                         /\ DataShown = data /\ fetching' = None /\ ~failed'
                         /\ Expecting /\ ~Waiting' /\ ~Expecting'
           /\ ~Appends => /\ logs' = logs /\ data' = data /\ seen' = data
                          /\ Key # observed => Key \notin DOMAIN cache
                          /\ Expecting' <=> Waiting'
                          /\ Waiting' <=> Waiting
                          /\ Expecting' <=> Expecting
<1>1. /\ UNCHANGED <<request, cache>>
      /\ fetching' = IF FetchNeeded THEN ParamsSent ELSE fetching
      /\ failed' = (failed /\ ~FetchNeeded)
      /\ data' = DataShown /\ seen' = DataShown
      /\ mishaps \subseteq mishaps'
      /\ Key' = Key /\ Clean' /\ observed' = Key
      /\ ~FetchNeeded => Key = observed
      /\ FetchNeeded => Key # observed
      /\ ~Appends => logs' = logs
      /\ Appends => \/ Key # observed /\ Key \in DOMAIN cache
                    \/ Key = observed /\ data # seen /\ data # None
      /\ "revisited" \notin mishaps' =>
            /\ "revisited" \notin mishaps
            /\ Key # observed => Key \notin DOMAIN cache
  BY AppendFacts
<1>2. Spotless /\ (Key # observed => Key \notin DOMAIN cache)
  BY <1>1 DEF Spotless
<1>3. DataShown = data
  BY <1>2 DEF DataShown
<1>4. ASSUME Appends
      PROVE  /\ Key = observed /\ data # seen /\ data # None /\ data.key = Key
             /\ DataShown = data /\ fetching' = None /\ ~failed'
             /\ Expecting /\ ~Waiting' /\ ~Expecting'
  <2>1. Key = observed /\ data # seen /\ data # None
    BY <1>1, <1>2, <1>4
  <2>2. data.key = Key /\ fetching = None /\ ~failed /\ ~FetchNeeded
    BY <1>1, <2>1 DEF ListInv, NewData
  <2>3. fetching' = None /\ ~failed'
    BY <1>1, <2>2
  <2>4. ~Waiting'
    BY <1>1, <1>3, <2>1, <2>2 DEF Waiting
  <2> QED BY <1>1, <1>3, <2>1, <2>2, <2>3, <2>4 DEF Expecting
<1>5. ASSUME ~Appends
      PROVE  /\ logs' = logs /\ data' = data /\ seen' = data
             /\ Expecting' <=> Waiting'
             /\ Waiting' <=> Waiting
             /\ Expecting' <=> Expecting
  <2>1. logs' = logs /\ data' = data /\ seen' = data
    BY <1>1, <1>3, <1>5
  <2>2. data = seen \/ data = None
    BY <1>3, <1>5 DEF Appends
  <2>3. Waiting' => Waiting
    BY <1>1, <2>1 DEF Waiting
\* Data of the key would have its first page in the cache, and be of an earlier page.
  <2>4. Key # observed => data = None \/ data.key # Key
    <3> SUFFICES ASSUME Key # observed, data # None, data.key = Key PROVE FALSE
      OBVIOUS
    <3>1. Key \notin DOMAIN cache /\ Waiting
      BY <1>2 DEF Waiting
    <3>2. /\ Key.request = request /\ RequestOk(request) /\ Key.range = range
          /\ request.page \in Nat \ {0}
      BY CleanFacts
    <3>3. CASE request.page = 1
      <4>1. FirstKey(Key) = Key
        BY <3>2, <3>3 DEF FirstKey, RequestOk, Key
      <4> QED BY <3>1, <4>1 DEF ListInv, FirstPages
    <3>4. CASE request.page > 1
      <4>1. data.key.request.page < request.page
        BY <1>2, <3>1, <3>4 DEF ListInv, Unseen
      <4> QED BY <3>2, <4>1
    <3> QED BY <3>2, <3>3, <3>4
  <2>5. Waiting => Waiting'
    BY <1>1, <2>1, <2>4 DEF Waiting
  <2>6. Expecting' <=> Waiting'
    BY <2>1 DEF Expecting
  <2>7. Expecting <=> Waiting
    BY <2>2 DEF Expecting, Waiting
  <2> QED BY <2>1, <2>3, <2>5, <2>6, <2>7
<1> QED BY <1>2, <1>4, <1>5

LEMMA AppendKeeps ==
    ASSUME ListInv, Flush, Clean
    PROVE  ListInv'
<1>1. /\ UNCHANGED <<page, request, minTimeRef, staged, range, cache>>
      /\ fetching' = IF FetchNeeded THEN ParamsSent ELSE fetching
      /\ from' = IF FetchNeeded THEN ParamsSent.from ELSE from
      /\ failed' = (failed /\ ~FetchNeeded)
      /\ data' = DataShown /\ seen' = DataShown
      /\ lastLog' = IF DataShown # seen THEN None ELSE lastLog
      /\ mishaps \subseteq mishaps'
  BY AppendFacts
<1>2. /\ request # None /\ RequestOk(request) /\ page = request.page
      /\ request.query = staged /\ minTimeRef = range
      /\ Key \in Keys /\ KeyOk(Key) /\ Key # None
      /\ request.page \in Nat \ {0} /\ request.size \in Nat
  BY CleanFacts
<1>3. Key' = Key /\ Key.request = request /\ Key.range = range /\ Clean'
  BY AppendFacts DEF Key
<1>4. observed' = Key /\ (~FetchNeeded => Key = observed) /\ (FetchNeeded => Key # observed)
  BY AppendFacts
<1>5. FirstKey(Key) = [request |-> FirstPage(staged), range |-> range]
      /\ (request.page = 1 => FirstKey(Key) = Key)
  BY <1>2, <1>3 DEF FirstKey, Key, RequestOk
<1>6. logs \in Seq(Logs) /\ Limit[request.query] \in Nat
  BY <1>2, LogsPagesAssumption DEF RequestOk, Requests, ListInv, Shapes
<1>7. Of(logs', staged, range) /\ logs' \in Seq(Logs)
  BY AppendFacts
<1>8. Appends => \/ Key # observed /\ Key \in DOMAIN cache
                 \/ Key = observed /\ data # seen /\ data # None
  BY AppendFacts
<1>9. Appends => /\ Len(logs') = Len(logs) + Len(DataShown.rows)
                 /\ Len(DataShown.rows) \in Nat
                 /\ Len(DataShown.rows) <= request.size
                 /\ Limit[request.query] > 0 =>
                       Len(DataShown.rows) <= Limit[request.query]
  BY AppendFacts
<1>10. ~Appends => logs' = logs
  BY AppendFacts
<1>11. "revisited" \notin mishaps' =>
          /\ "revisited" \notin mishaps
          /\ Key # observed => Key \notin DOMAIN cache
  BY AppendFacts
<1>12. \A d \in {data', seen'} \ {None} : Told(d) /\ FirstKey(d.key) \in DOMAIN cache
  BY <1>1, ShownFacts
<1>13. Shapes'
  <2>1. fetching' # None => KeyOk(observed') /\ fetching' \in Params /\ ~failed'
    BY <1>1, <1>2, <1>4, SentFacts DEF ListInv, Shapes
  <2>2. lastLog' \in Times' /\ from' \in Nat
    BY <1>1, SentFacts DEF ListInv, Shapes, Times
  <2> QED BY <1>1, <1>2, <1>7, <2>1, <2>2 DEF ListInv, Shapes
<1>14. Holds'
  BY <1>1, <1>2, <1>7, <1>12 DEF ListInv, Holds
<1>15. NewData' /\ Observing'
  BY <1>1, <1>3, <1>4 DEF NewData, Observing, Clean
<1>16. FirstPages'
  <2>1. \A k \in DOMAIN cache : FirstKey(k) \in DOMAIN cache
    BY DEF ListInv, FirstPages
  <2>2. request.page > 1 \/ logs' # <<>> => FirstKey(Key) \in DOMAIN cache
    <3>1. CASE request.page > 1 \/ logs # <<>>
      BY <3>1 DEF ListInv, FirstPages
    <3>2. CASE ~(request.page > 1 \/ logs # <<>>) /\ logs' # <<>>
      <4>1. request.page = 1 /\ Appends
        BY <1>2, <1>10, <3>2
      <4>2. CASE Key # observed /\ Key \in DOMAIN cache
        BY <2>1, <4>2
      <4>3. CASE Key = observed /\ data # seen /\ data # None
        <5>1. data.key = Key
          BY <4>3 DEF ListInv, NewData
        <5> QED BY <4>3, <5>1 DEF ListInv, FirstPages
      <4> QED BY <1>8, <4>1, <4>2, <4>3
    <3> QED BY <3>1, <3>2
  <2>3. fetching' # None /\ Key.request.page > 1 => FirstKey(Key) \in DOMAIN cache
    BY <1>3, <2>2
  <2>4. ~ResetNeeded'
    BY <1>3 DEF Clean
  <2> QED BY <1>1, <1>3, <1>4, <1>12, <2>1, <2>2, <2>3, <2>4 DEF FirstPages
<1>17. Fresh'
  <2> SUFFICES ASSUME "revisited" \notin mishaps', NEW k \in DOMAIN cache,
                      k.request.query = request.query, k.range = range,
                      k.request.page >= request.page
               PROVE  k = Key
    BY <1>1, <1>3, <1>4 DEF Fresh
  <2>1. CASE request.page > 1 \/ Key = observed
    BY <1>11, <2>1 DEF ListInv, Fresh
  <2>2. CASE request.page = 1 /\ Key # observed
    <3>1. FirstKey(k) = Key
      BY <1>2, <1>5, <2>2 DEF FirstKey
    <3> QED BY <1>11, <2>2, <3>1 DEF ListInv, FirstPages
  <2> QED BY <1>2, <2>1, <2>2
<1>18. CASE ~Spotless'
  <2>1. Unseen' /\ Again' /\ Room'
    BY <1>18 DEF Unseen, Again, Room
  <2> QED BY <1>13, <1>14, <1>15, <1>16, <1>17, <2>1 DEF ListInv
<1>19. CASE Spotless' /\ Appends
  <2>1. /\ Spotless /\ Key = observed /\ data # seen /\ data # None
        /\ Expecting /\ ~Waiting' /\ ~Expecting' /\ fetching' = None
    BY <1>19, AppendCases
  <2>2. Unseen' /\ Again'
    BY <2>1 DEF Unseen, Again
  <2>3. Limit[request.query] > 0 => Len(logs') <= Limit[request.query]
    <3> SUFFICES ASSUME Limit[request.query] > 0 PROVE Len(logs') <= Limit[request.query]
      OBVIOUS
    <3>1. CASE request.page = 1
      <4>1. Len(logs) = 0
        BY <2>1, <3>1 DEF ListInv, Room
      <4> QED BY <1>6, <1>9, <1>19, <4>1
    <3>2. CASE request.page > 1
      <4>1. Len(logs) + request.size <= Limit[request.query]
        BY <2>1, <3>2 DEF ListInv, Room
      <4>2. Len(logs) \in Nat
        BY <1>6
      <4> QED BY <1>2, <1>6, <1>9, <1>19, <4>1, <4>2
    <3> QED BY <1>2, <3>1, <3>2
  <2>4. Room'
    BY <1>1, <2>1, <2>3 DEF Room
  <2> QED BY <1>13, <1>14, <1>15, <1>16, <1>17, <2>2, <2>4 DEF ListInv
<1>20. CASE Spotless' /\ ~Appends
  <2>1. /\ Spotless /\ logs' = logs /\ data' = data /\ seen' = data
        /\ Key # observed => Key \notin DOMAIN cache
    BY <1>20, AppendCases
  <2>2. (Waiting' <=> Waiting) /\ (Expecting' <=> Expecting)
    BY <1>20, AppendCases
  <2>3. Unseen'
    <3> SUFFICES ASSUME Waiting
                 PROVE  /\ request.page = 1 => Key \notin DOMAIN cache
                        /\ request.page > 1 =>
                              \A d \in {data, seen} \ {None} : d.key.request.page < request.page
      BY <1>1, <1>3, <2>1, <2>2 DEF Unseen
    <3> QED BY <2>1 DEF ListInv, Unseen
  <2>4. Again'
    <3> SUFFICES ASSUME ~Waiting, fetching' # None PROVE fetching' = data.params
      BY <2>1, <2>2 DEF Again
    <3>1. Key = observed /\ ~FetchNeeded
      BY <1>4 DEF Waiting
    <3>2. fetching' = fetching
      BY <1>1, <3>1
    <3> QED BY <2>1, <3>2 DEF ListInv, Again
  <2>5. Room'
    BY <1>1, <2>1, <2>2 DEF ListInv, Room
  <2> QED BY <1>13, <1>14, <1>15, <1>16, <1>17, <2>3, <2>4, <2>5 DEF ListInv
<1> QED BY <1>18, <1>19, <1>20

-----------------------------------------------------------------------------
\* An answer is data for the key that was observed when it was asked for, and is the
\* same again when the same was asked for again.
LEMMA SucceedFacts ==
    ASSUME ListInv, Succeed
    PROVE  /\ fetching # None /\ (ResetNeeded \/ ~EffectsFire) /\ ~TooFar(observed.request)
           /\ fetching \in Params /\ KeyOk(observed) /\ ~failed
           /\ data' = Answer(observed, fetching)
           /\ data' # None /\ data'.key = observed /\ Told(data')
           /\ data'.rows = Rows(observed.request, observed.range, fetching)
           /\ fetching' = None
           /\ UNCHANGED <<staged, range, request, logs, page, lastLog, minTimeRef, observed,
                          failed, seen, from, reached, mishaps>>
           /\ DOMAIN cache \subseteq DOMAIN cache'
           /\ DOMAIN cache' \subseteq DOMAIN cache \cup {observed}
           /\ Kept(observed) => observed \in DOMAIN cache'
           /\ \A k \in DOMAIN cache' : (k = observed /\ cache'[k] = data')
                                       \/ (k \in DOMAIN cache /\ cache'[k] = cache[k])
           /\ Clean => Key = observed /\ data = seen /\ ~Waiting'
           /\ Clean /\ Spotless /\ ~Waiting => data' = data
           /\ Clean /\ Spotless => (Expecting' => Waiting)
           /\ FirstKey(observed) \in DOMAIN cache'
           /\ Key' = Key /\ Clean' = Clean /\ Spotless' = Spotless
<1>1. /\ fetching # None /\ (ResetNeeded \/ ~EffectsFire) /\ ~TooFar(observed.request)
      /\ data' = Answer(observed, fetching)
      /\ cache' = IF Kept(observed)
                  THEN [k \in DOMAIN cache \cup {observed} |->
                           IF k = observed THEN data' ELSE cache[k]]
                  ELSE cache
      /\ fetching' = None
      /\ UNCHANGED <<staged, range, request, logs, page, lastLog, minTimeRef, observed,
                     failed, seen, from, reached, mishaps>>
  BY DEF Succeed, Answered, Answer, inputs, list
<1>2. KeyOk(observed) /\ ~failed /\ fetching \in Params
  BY <1>1 DEF ListInv, Shapes
<1>3. /\ data' # None /\ data'.key = observed /\ Told(data')
      /\ data'.rows = Rows(observed.request, observed.range, fetching)
  BY <1>1, <1>2, AnswerTold
<1>4. /\ DOMAIN cache \subseteq DOMAIN cache'
      /\ DOMAIN cache' \subseteq DOMAIN cache \cup {observed}
      /\ Kept(observed) => observed \in DOMAIN cache'
      /\ \A k \in DOMAIN cache' : (k = observed /\ cache'[k] = data')
                                  \/ (k \in DOMAIN cache /\ cache'[k] = cache[k])
  BY <1>1
<1>5. Key' = Key /\ Clean' = Clean /\ Spotless' = Spotless
  BY <1>1 DEF Key, Clean, ResetNeeded, Spotless
<1>6. Clean => Key = observed /\ data = seen
  BY <1>1, RestFacts DEF Clean
<1>7. Clean => ~Waiting'
  BY <1>1, <1>3, <1>5, <1>6 DEF Waiting
<1>8. Clean /\ Spotless /\ ~Waiting => data' = data
  <2> SUFFICES ASSUME Clean, Spotless, ~Waiting PROVE data' = data
    OBVIOUS
  <2>1. data # None /\ data.key = observed
    BY <1>6 DEF Waiting
  <2>2. data.params = fetching
    BY <1>1 DEF ListInv, Again
  <2>3. Told(data)
    BY <2>1 DEF ListInv, Holds
  <2>4. data = Answer(data.key, data.params)
    BY <2>3 DEF Told
  <2> QED BY <1>1, <2>1, <2>2, <2>4
<1>9. Clean /\ Spotless => (Expecting' => Waiting)
  <2> SUFFICES ASSUME Clean, Spotless, ~Waiting PROVE ~Expecting'
    OBVIOUS
  <2>1. data' = seen'
    BY <1>1, <1>6, <1>8
  <2> QED BY <1>7, <2>1 DEF Expecting
<1>10. FirstKey(observed) \in DOMAIN cache'
  <2>1. CASE observed.request.page = 1
    <3>1. FirstKey(observed) = observed /\ Kept(observed)
      BY <1>2, <2>1 DEF FirstKey, FirstPage, KeyOk, RequestOk, Keys, Kept
    <3> QED BY <1>4, <3>1
  <2>2. CASE observed.request.page # 1
    <3>1. observed.request.page > 1
      BY <1>2, <2>2 DEF KeyOk, RequestOk, Requests
    <3>2. ResetNeeded \/ Key = observed
      BY <1>6 DEF Clean
    <3> QED BY <1>1, <1>4, <3>1, <3>2 DEF ListInv, FirstPages
  <2> QED BY <2>1, <2>2
<1> QED BY <1>1, <1>2, <1>3, <1>4, <1>5, <1>6, <1>7, <1>8, <1>9, <1>10

LEMMA SucceedKeeps ==
    ASSUME ListInv, Succeed
    PROVE  ListInv'
<1>1. /\ fetching # None /\ KeyOk(observed) /\ ~failed
      /\ data' # None /\ data'.key = observed /\ Told(data') /\ fetching' = None
      /\ UNCHANGED <<staged, range, request, logs, page, lastLog, minTimeRef, observed,
                     failed, seen, from, mishaps>>
  BY SucceedFacts
<1>2. /\ DOMAIN cache \subseteq DOMAIN cache'
      /\ DOMAIN cache' \subseteq DOMAIN cache \cup {observed}
      /\ \A k \in DOMAIN cache' : (k = observed /\ cache'[k] = data')
                                  \/ (k \in DOMAIN cache /\ cache'[k] = cache[k])
      /\ FirstKey(observed) \in DOMAIN cache'
  BY SucceedFacts
<1>3. /\ Clean => Key = observed /\ data = seen /\ ~Waiting'
      /\ Clean /\ Spotless => (Expecting' => Waiting)
      /\ Key' = Key /\ Clean' = Clean /\ Spotless' = Spotless
  BY SucceedFacts
<1>4. ResetNeeded' = ResetNeeded /\ FetchNeeded' = FetchNeeded
  BY <1>1, <1>3 DEF ResetNeeded, FetchNeeded, Enabled, isLimit
<1>5. Shapes'
  BY <1>1 DEF ListInv, Shapes, Times
<1>6. Holds'
  <2>1. \A k \in DOMAIN cache' : cache'[k] # None /\ cache'[k].key = k /\ Told(cache'[k])
    BY <1>1, <1>2 DEF ListInv, Holds
  <2> QED BY <1>1, <2>1 DEF ListInv, Holds
<1>7. NewData' /\ Observing'
  BY <1>1, <1>3, <1>4 DEF ListInv, NewData, Observing
<1>8. FirstPages'
  BY <1>1, <1>2, <1>3, <1>4 DEF ListInv, FirstPages, Clean
<1>9. Fresh'
  BY <1>1, <1>2, <1>3 DEF ListInv, Fresh
<1>10. Unseen' /\ Again'
  BY <1>1, <1>3 DEF Unseen, Again
<1>11. Room'
  <2>1. Waiting => Expecting
    BY DEF Expecting
  <2> QED BY <1>1, <1>3, <2>1 DEF ListInv, Room
<1> QED BY <1>5, <1>6, <1>7, <1>8, <1>9, <1>10, <1>11 DEF ListInv

LEMMA FailFacts ==
    ASSUME ListInv, Fail
    PROVE  /\ fetching # None /\ fetching' = None /\ failed' = TRUE /\ reached' = 0
           /\ data' = data \/ data' = None
           /\ UNCHANGED <<staged, range, request, logs, page, lastLog, minTimeRef, observed,
                          cache, seen, from, mishaps>>
           /\ Key' = Key /\ Clean' = Clean /\ Spotless' = Spotless
           /\ Clean => /\ Key = observed /\ data = seen
                       /\ Waiting' <=> Waiting
                       /\ Expecting' <=> Expecting
<1>1. /\ fetching # None /\ (ResetNeeded \/ ~EffectsFire)
      /\ data' = IF data # None /\ data.key = observed THEN data ELSE None
      /\ fetching' = None /\ failed' = TRUE /\ reached' = 0
      /\ UNCHANGED <<staged, range, request, logs, page, lastLog, minTimeRef, observed,
                     cache, seen, from, mishaps>>
  BY DEF Fail, Answered, inputs, list
<1>2. Key' = Key /\ Clean' = Clean /\ Spotless' = Spotless
  BY <1>1 DEF Key, Clean, ResetNeeded, Spotless
<1>3. Clean => Key = observed /\ data = seen
  BY <1>1, RestFacts DEF Clean
<1>4. Clean => (Waiting' <=> Waiting)
  BY <1>1, <1>2, <1>3 DEF Waiting
<1>5. Clean => (Expecting' <=> Expecting)
  BY <1>1, <1>2, <1>3, <1>4 DEF Expecting, Waiting
<1> QED BY <1>1, <1>2, <1>3, <1>4, <1>5

LEMMA FailKeeps ==
    ASSUME ListInv, Fail
    PROVE  ListInv'
<1>1. /\ fetching # None /\ fetching' = None /\ failed' = TRUE
      /\ data' = data \/ data' = None
      /\ UNCHANGED <<staged, range, request, logs, page, lastLog, minTimeRef, observed,
                     cache, seen, from, mishaps>>
      /\ Key' = Key /\ Clean' = Clean /\ Spotless' = Spotless
      /\ Clean => /\ Key = observed /\ data = seen
                  /\ Waiting' <=> Waiting
                  /\ Expecting' <=> Expecting
  BY FailFacts
<1>2. ResetNeeded' = ResetNeeded /\ FetchNeeded' = FetchNeeded
  BY <1>1 DEF ResetNeeded, FetchNeeded, Enabled, isLimit
<1>3. {data', seen'} \ {None} \subseteq {data, seen} \ {None}
  BY <1>1
<1>4. Shapes' /\ Holds'
  BY <1>1, <1>3 DEF ListInv, Shapes, Holds, Times
<1>5. NewData' /\ Observing' /\ Fresh' /\ Again'
  BY <1>1, <1>2 DEF ListInv, NewData, Observing, Fresh, Again
<1>6. FirstPages'
  BY <1>1, <1>2, <1>3 DEF ListInv, FirstPages
<1>7. Unseen'
  BY <1>1, <1>3 DEF ListInv, Unseen
<1>8. Room'
  BY <1>1 DEF ListInv, Room
<1> QED BY <1>4, <1>5, <1>6, <1>7, <1>8 DEF ListInv

\* Another query or range: the list is about to start anew.
LEMMA StageKeeps ==
    ASSUME ListInv, NEW q \in Queries, Stage(q)
    PROVE  ListInv'
<1>1. /\ ~EffectsFire /\ q # staged /\ staged' = q
      /\ UNCHANGED <<range, request, logs, page, lastLog, minTimeRef, observed, fetching,
                     failed, data, seen, cache, from, mishaps>>
  BY DEF Stage, UserStep, list, client
<1>2. Clean /\ Key = observed /\ request # None /\ request.query = staged
  BY <1>1, RestFacts, CleanFacts
<1>3. ResetNeeded' /\ ~Clean' /\ Key' = Key
  BY <1>1, <1>2 DEF ResetNeeded, Clean, Key
<1>4. Shapes' /\ Holds'
  BY <1>1 DEF ListInv, Shapes, Holds, Times
<1>5. NewData' /\ Fresh' /\ FirstPages'
  BY <1>1, <1>2, <1>3 DEF ListInv, NewData, Fresh, FirstPages
<1>6. Observing'
  BY <1>1, <1>2, <1>3 DEF Observing, Key, FirstPage
<1>7. Unseen' /\ Again' /\ Room'
  BY <1>3 DEF Unseen, Again, Room
<1> QED BY <1>4, <1>5, <1>6, <1>7 DEF ListInv

LEMMA SelectRangeKeeps ==
    ASSUME ListInv, NEW r \in Ranges, SelectRange(r)
    PROVE  ListInv'
<1>1. /\ ~EffectsFire /\ r # range /\ range' = r
      /\ UNCHANGED <<staged, request, logs, page, lastLog, minTimeRef, observed, fetching,
                     failed, data, seen, cache, from, mishaps>>
  BY DEF SelectRange, UserStep, list, client
<1>2. Clean /\ Key = observed /\ request # None /\ minTimeRef = range
  BY <1>1, RestFacts, CleanFacts
<1>3. ResetNeeded' /\ ~Clean'
  BY <1>1, <1>2 DEF ResetNeeded, Clean
<1>4. Shapes' /\ Holds'
  BY <1>1 DEF ListInv, Shapes, Holds, Times
<1>5. NewData' /\ Fresh' /\ FirstPages'
  BY <1>1, <1>2, <1>3 DEF ListInv, NewData, Fresh, FirstPages
<1>6. Observing'
  BY <1>1, <1>2, <1>3 DEF Observing, Key
<1>7. Unseen' /\ Again' /\ Room'
  BY <1>3 DEF Unseen, Again, Room
<1> QED BY <1>4, <1>5, <1>6, <1>7 DEF ListInv

\* The next page is asked for with a size that the list has room for.
LEMMA EndReachedKeeps ==
    ASSUME ListInv, handleEndReached
    PROVE  ListInv'
<1>1. CASE isLimit \/ Len(logs) < PageSize
  <2>1. UNCHANGED <<staged, range, request, logs, page, lastLog, minTimeRef, observed,
                    fetching, failed, data, seen, cache, from, mishaps>>
    BY <1>1 DEF handleEndReached, inputs, list, client
  <2>2. /\ Key' = Key /\ Clean' = Clean /\ Spotless' = Spotless /\ ResetNeeded' = ResetNeeded
        /\ FetchNeeded' = FetchNeeded /\ Waiting' = Waiting /\ Expecting' = Expecting
    BY <2>1 DEF Key, Clean, ResetNeeded, Spotless, FetchNeeded, Enabled, isLimit, Waiting,
                Expecting
  <2> QED BY <2>1, <2>2
          DEF ListInv, Shapes, Holds, NewData, Observing, FirstPages, Fresh, Unseen, Again,
              Room, Times
<1>2. CASE ~(isLimit \/ Len(logs) < PageSize)
  <2>1. /\ ~EffectsFire /\ ~isLimit /\ ~(Len(logs) < PageSize) /\ logs # <<>>
        /\ page' = page + 1 /\ request' = NextPage /\ mishaps \subseteq mishaps'
        /\ lastLog' = logs[Len(logs)].ts
        /\ UNCHANGED <<staged, range, logs, minTimeRef, observed, fetching, failed, data,
                       seen, cache, from>>
    BY <1>2 DEF handleEndReached, UserStep, ListMounted, inputs, client
  <2>2. /\ Clean /\ Key = observed /\ data = seen
        /\ request # None /\ RequestOk(request) /\ page = request.page
        /\ request.query = staged /\ minTimeRef = range
        /\ request.page \in Nat \ {0} /\ Key.request = request
    BY <2>1, RestFacts, CleanFacts
  <2>3. /\ staged \in Queries /\ logs \in Seq(Logs) /\ Len(logs) \in Nat
        /\ PageSize \in Nat \ {0} /\ Limit[staged] \in Nat /\ page \in Nat \ {0}
    BY <2>2, LogsPagesAssumption DEF ListInv, Shapes, RequestOk, Requests
  <2>4. /\ NextSize \in 1 .. PageSize
        /\ Limit[staged] > 0 => Len(logs) + NextSize <= Limit[staged]
    BY <2>1, <2>3 DEF NextSize, isLimit
  <2>5. NextPage.query = staged /\ NextPage.page = page + 1 /\ NextPage.size = NextSize
    BY DEF NextPage
  <2>6. RequestOk(NextPage) /\ NextPage # None /\ logs[Len(logs)] \in Logs
    <3>1. logs[Len(logs)] \in Logs
      BY <2>1, <2>3
    <3>2. page * NextSize \in Nat /\ page + 1 \in Nat \ {0} /\ page + 1 # 1
      BY <2>3, <2>4
    <3>3. NextPage \in Requests
      BY <2>3, <2>4, <3>1, <3>2 DEF NextPage, Requests
    <3> QED BY <2>4, <2>5, <3>1, <3>2, <3>3, NoneIsNothing DEF RequestOk
  <2>7. /\ Key' = [request |-> NextPage, range |-> range] /\ Key' # observed
        /\ Clean' /\ ~ResetNeeded' /\ FetchNeeded' /\ Waiting'
    <3>1. Key' = [request |-> NextPage, range |-> range] /\ Key'.request.page = page + 1
      BY <2>1, <2>5 DEF Key
    <3>2. observed.request.page = page
      BY <2>2
    <3>3. Key' # observed
      BY <2>3, <3>1, <3>2
    <3>4. ~isLimit'
      BY <2>1 DEF isLimit
    <3> QED BY <2>1, <2>2, <2>5, <2>6, <3>1, <3>3, <3>4
            DEF Clean, ResetNeeded, FetchNeeded, Enabled, Waiting
  <2>8. Shapes' /\ Holds'
    <3>1. lastLog' \in Times'
      BY <2>1, <2>6 DEF Times
    <3> QED BY <2>1, <2>2, <2>5, <2>6, <3>1 DEF ListInv, Shapes, Holds
  <2>9. NewData' /\ Observing' /\ Again'
    BY <2>1, <2>2, <2>7 DEF NewData, Observing, Again
  <2>10. FirstPages'
    <3>1. FirstKey(Key') = FirstKey(Key) /\ FirstKey(Key) \in DOMAIN cache
      BY <2>1, <2>2, <2>5, <2>7 DEF ListInv, FirstPages, FirstKey, Key
    <3> QED BY <2>1, <2>7, <3>1 DEF ListInv, FirstPages
  <2>11. Fresh'
    <3> SUFFICES ASSUME "revisited" \notin mishaps', NEW k \in DOMAIN cache,
                        k.request.query = staged, k.range = range,
                        k.request.page >= page + 1
                 PROVE  FALSE
      BY <2>1, <2>5, <2>7 DEF Fresh
    <3>1. k.request.page \in Nat
      <4>1. KeyOk(k)
        BY ToldAnswers DEF ListInv, Holds
      <4> QED BY <4>1 DEF KeyOk, RequestOk, Requests
    <3>2. k.request.page >= request.page
      BY <2>2, <2>3, <3>1
    <3>3. k = Key
      BY <2>1, <2>2, <3>2 DEF ListInv, Fresh
    <3> QED BY <2>2, <2>3, <3>3 DEF Key
  <2>12. Spotless' => Spotless
    BY <2>1 DEF Spotless
  <2>13. Unseen'
    <3> SUFFICES ASSUME Spotless, NEW d \in {data, seen} \ {None}
                 PROVE  d.key.request.page < page + 1
      BY <2>1, <2>2, <2>3, <2>5, <2>7, <2>12 DEF Unseen
    <3>1. d = data /\ d # None
      BY <2>2
    <3>2. CASE Waiting
      <4>1. request.page # 1
        BY <2>1, <2>2, <3>2 DEF ListInv, Room, Expecting
      <4>2. d.key.request.page < request.page /\ d.key.request.page \in Nat
        <5>1. Told(d)
          BY DEF ListInv, Holds
        <5>2. KeyOk(d.key)
          BY <5>1, ToldAnswers
        <5>3. request.page > 1
          BY <2>2, <4>1
        <5>4. d.key.request.page < request.page
          BY <2>2, <3>2, <5>3 DEF ListInv, Unseen
        <5> QED BY <5>2, <5>4 DEF KeyOk, RequestOk, Requests
      <4> QED BY <2>2, <4>2
    <3>3. CASE ~Waiting
      <4>1. d.key.request = request
        BY <2>2, <3>1, <3>3 DEF Waiting
      <4> QED BY <2>2, <2>3, <4>1
    <3> QED BY <3>2, <3>3
  <2>14. Room'
    <3>1. request'.query = staged /\ request'.page # 1 /\ request'.size = NextSize
      BY <2>1, <2>3, <2>5
    <3>2. Spotless /\ Limit[staged] > 0 => Len(logs) <= Limit[staged]
      BY <2>2 DEF ListInv, Room
    <3> QED BY <2>1, <2>2, <2>4, <2>12, <3>1, <3>2 DEF Room
  <2> QED BY <2>8, <2>9, <2>10, <2>11, <2>13, <2>14 DEF ListInv
<1> QED BY <1>1, <1>2

\* What was shown, or failed, is fetched again, for the same key.
LEMMA ReconnectKeeps ==
    ASSUME ListInv, Reconnect
    PROVE  ListInv'
<1>1. /\ ~EffectsFire /\ fetching' = ParamsSent /\ from' = ParamsSent.from
      /\ failed' = FALSE /\ mishaps' = mishaps \cup RefetchMishaps
      /\ UNCHANGED <<staged, range, request, logs, page, lastLog, minTimeRef, observed, data,
                     seen, cache>>
  BY DEF Reconnect, UserStep, inputs, list
<1>2. Clean /\ Key = observed /\ data = seen /\ KeyOk(observed) /\ Key.request = request
  BY <1>1, RestFacts, CleanFacts
<1>3. /\ Key' = Key /\ ResetNeeded' = ResetNeeded /\ Clean' = Clean
      /\ FetchNeeded' = FetchNeeded /\ Waiting' = Waiting /\ Expecting' = Expecting
  BY <1>1 DEF Key, ResetNeeded, Clean, FetchNeeded, Enabled, isLimit, Waiting, Expecting
<1>4. /\ Spotless' => Spotless
      /\ "revisited" \notin mishaps' => "revisited" \notin mishaps
  BY <1>1 DEF Spotless
<1>5. Shapes' /\ Holds'
  BY <1>1, <1>2, SentFacts DEF ListInv, Shapes, Holds, Times
<1>6. NewData' /\ Observing' /\ Fresh'
  BY <1>1, <1>2, <1>3, <1>4 DEF ListInv, NewData, Observing, Fresh
<1>7. FirstPages'
  <2>1. request.page > 1 => FirstKey(observed) \in DOMAIN cache
    BY <1>2 DEF ListInv, FirstPages
  <2> QED BY <1>1, <1>2, <1>3, <2>1 DEF ListInv, FirstPages
<1>8. Unseen' /\ Room'
  BY <1>1, <1>3, <1>4 DEF ListInv, Unseen, Room
<1>9. Again'
  <2> SUFFICES ASSUME Spotless', ~Waiting PROVE ParamsSent = data.params
    BY <1>1, <1>3 DEF Again
  <2>1. data # None /\ data.key = observed
    BY <1>2 DEF Waiting
  <2>2. "refetched" \notin RefetchMishaps
    BY <1>1 DEF Spotless
  <2> QED BY <2>1, <2>2 DEF RefetchMishaps
<1> QED BY <1>5, <1>6, <1>7, <1>8, <1>9 DEF ListInv

LEMMA OthersKeep ==
    ASSUME ListInv, ChangeFormat \/ Pass \/ UNCHANGED vars
    PROVE  ListInv'
<1>1. UNCHANGED <<staged, range, request, logs, page, lastLog, minTimeRef, observed, fetching,
                  failed, data, seen, cache, mishaps>>
  BY DEF ChangeFormat, Pass, vars, inputs, list, client
<1>2. from' \in Nat
  <2>1. CASE Pass
    <3>1. PICK i \in DOMAIN Found[staged][range] : from' = Found[staged][range][i].ts + 1
      BY <2>1 DEF Pass
    <3>2. Found[staged][range][i] \in Logs
      BY LogsPagesAssumption DEF ListInv, Shapes
    <3> QED BY <3>1, <3>2, LogsPagesAssumption
  <2>2. CASE ChangeFormat \/ UNCHANGED vars
    BY <2>2 DEF ChangeFormat, vars, ListInv, Shapes
  <2> QED BY <2>1, <2>2
<1>3. /\ Key' = Key /\ Clean' = Clean /\ Spotless' = Spotless /\ ResetNeeded' = ResetNeeded
      /\ FetchNeeded' = FetchNeeded /\ Waiting' = Waiting /\ Expecting' = Expecting
  BY <1>1 DEF Key, Clean, ResetNeeded, Spotless, FetchNeeded, Enabled, isLimit, Waiting,
              Expecting
<1> QED BY <1>1, <1>2, <1>3
        DEF ListInv, Shapes, Holds, NewData, Observing, FirstPages, Fresh, Unseen, Again,
            Room, Times

LEMMA NextList == ListInv /\ [Next]_vars => ListInv'
<1> SUFFICES ASSUME ListInv, [Next]_vars PROVE ListInv'
  OBVIOUS
<1>1. CASE Flush
  BY <1>1, ResetKeeps, AppendKeeps DEF Clean
<1>2. CASE Succeed
  BY <1>2, SucceedKeeps
<1>3. CASE Fail
  BY <1>3, FailKeeps
<1>4. CASE \E q \in Queries : Stage(q)
  BY <1>4, StageKeeps
<1>5. CASE \E r \in Ranges : SelectRange(r)
  BY <1>5, SelectRangeKeeps
<1>6. CASE handleEndReached
  BY <1>6, EndReachedKeeps
<1>7. CASE ChangeFormat \/ Pass \/ UNCHANGED vars
  BY <1>7, OthersKeep
<1>8. CASE Reconnect
  BY <1>8, ReconnectKeeps
<1> QED BY <1>1, <1>2, <1>3, <1>4, <1>5, <1>6, <1>7, <1>8 DEF Next

LEMMA ListOnlyStaged == ListInv => OnlyStaged
<1> SUFFICES ASSUME ListInv, ~ResetNeeded
             PROVE  /\ \A i \in DOMAIN logs : \E j \in DOMAIN Found[staged][range] :
                          logs[i] = Found[staged][range][j]
                    /\ mishaps \cap {"revisited", "refetched"} = {} /\ Limit[staged] > 0 =>
                          Len(logs) <= Limit[staged]
  BY DEF OnlyStaged
<1>1. request # None /\ request.query = staged /\ minTimeRef = range
  BY CleanFacts DEF Clean
<1> QED BY <1>1 DEF ListInv, Holds, Of, Room, Clean, Spotless

\* Through late and failed answers, answers from the cache, pages asked for in any order
\* of effects and times that have passed between them, the logs list shows logs of the
\* staged query and the selected range only, and no more of them than the limit of the
\* query, unless a page was shown from the cache or fetched again after a reconnect.
THEOREM OnlyStagedAlways == Spec => []OnlyStaged
<1>1. Spec => []ListInv
  BY InitList, NextList, PTL DEF Spec
<1> QED BY <1>1, ListOnlyStaged, PTL

-----------------------------------------------------------------------------
(***************************************************************************)
(* That the list is complete needs more: that an answer is the rows that   *)
(* follow what is shown (Pages), for which the request has to start there  *)
(* (Asked) and the times that are sent must leave no row out (Sent), but   *)
(* the last ones, which have left the range (Gone); and that every answer  *)
(* that is waited for is appended, for which it has to be told apart from  *)
(* the data that the effects have seen (Unseen).                           *)
(***************************************************************************)
Result == Found[staged][range]

Good == Clean /\ mishaps = {}

\* What is shown is a beginning of the result: nothing before the first page is there,
\* then at least that.
Beginning ==
    Good =>
        /\ Len(logs) <= Len(Result) /\ logs = SubSeq(Result, 1, Len(logs))
        /\ ~(Expecting /\ request.page = 1) => Len(logs) >= Smaller(PageSize, Available)

\* A page is asked for from the end of what is shown on.
Asked ==
    Good /\ Expecting /\ request.page > 1 =>
        /\ logs # <<>>
        /\ IF Order[staged] = "other" THEN request.offset = Len(logs)
           ELSE request.after = logs[Len(logs)].id

\* No row that is yet to be shown is later than the time that is sent.
EndOk(end) ==
    end # None => /\ request.page > 1 /\ Order[staged] = "desc"
                  /\ \A i \in DOMAIN Result : Result[i].ts > end => i <= Len(logs)

\* None that is yet to be shown has left the range, but the last ones.
FromOk(time) ==
    /\ request.page = 1 => time = 0
    /\ Order[staged] = "asc" => \A i \in DOMAIN Result : Result[i].ts < time => i <= Len(logs)
    /\ Order[staged] = "other" => \A i \in DOMAIN Result : Result[i].ts >= time

Sent ==
    /\ Good /\ (request.page > 1 \/ Key = observed) => EndOk(EndSent)
    /\ Good /\ Waiting /\ Key = observed /\ fetching # None =>
          EndOk(fetching.end) /\ FromOk(fetching.from) /\ fetching.from <= from

\* All that there is to show beyond the first n has left the range.
Gone(n) == \A i \in n + 1 .. Available : Result[i].ts < from

\* Rows that follow what is shown, and some if there are any.
Following(rows) ==
    \E last \in Len(logs) .. Len(Result) :
        /\ rows = SubSeq(Result, Len(logs) + 1, last)
        /\ last = Len(logs) => Gone(last)
        /\ request.page = 1 => last >= Smaller(PageSize, Available)

Pages == Good /\ data # seen /\ data # None => Following(data.rows)

\* The end was reached when there was no more, or more is waited for.
EndReached ==
    /\ reached \in 0 .. Len(logs)
    /\ Good /\ ~Expecting /\ reached = Len(logs) => Gone(Len(logs))

\* A range that does not move does not.
Fixed == Clean /\ (request.page > 1 \/ Key = observed) /\ range \notin Relative => from = 0

\* What is waited for is fetched, or has failed.
Settled == Clean /\ Key = observed /\ Waiting => fetching # None \/ failed

CompleteInv == Beginning /\ Asked /\ Sent /\ Pages /\ EndReached /\ Fixed /\ Settled

-----------------------------------------------------------------------------
\* The result, and how much of it is to be shown.
LEMMA ResultFacts ==
    ASSUME ListInv
    PROVE  /\ staged \in Queries /\ range \in Ranges
           /\ Result \in Seq(Logs) /\ Len(Result) \in Nat /\ DOMAIN Result = 1 .. Len(Result)
           /\ PageSize \in Nat \ {0} /\ Limit[staged] \in Nat
           /\ logs \in Seq(Logs) /\ Len(logs) \in Nat
           /\ Available \in Nat /\ Available <= Len(Result)
           /\ Limit[staged] > 0 => Available <= Limit[staged]
           /\ Available = Len(Result) \/ (Limit[staged] > 0 /\ Available = Limit[staged])
           /\ from \in Nat
           /\ \A i \in DOMAIN Result : Result[i].ts \in Nat /\ Result[i].id # None
<1>1. staged \in Queries /\ range \in Ranges /\ logs \in Seq(Logs) /\ from \in Nat
  BY DEF ListInv, Shapes
<1>2. Result \in Seq(Logs) /\ PageSize \in Nat \ {0} /\ Limit[staged] \in Nat
  BY <1>1, LogsPagesAssumption DEF Result
<1>3. Len(Result) \in Nat /\ Len(logs) \in Nat /\ DOMAIN Result = 1 .. Len(Result)
  BY <1>1, <1>2
<1>4. Available = IF Limit[staged] = 0 THEN Len(Result) ELSE Smaller(Len(Result), Limit[staged])
  BY DEF Available, Result
<1>5. \A i \in DOMAIN Result : Result[i].ts \in Nat /\ Result[i].id # None
  <2>1. \A i \in DOMAIN Result : Result[i] \in Logs
    BY <1>2
  <2> QED BY <2>1, LogsPagesAssumption
<1>6. /\ Available \in Nat /\ Available <= Len(Result)
      /\ Limit[staged] > 0 => Available <= Limit[staged]
      /\ Available = Len(Result) \/ (Limit[staged] > 0 /\ Available = Limit[staged])
  BY <1>2, <1>3, <1>4 DEF Smaller
<1> QED BY <1>1, <1>2, <1>3, <1>5, <1>6

\* No two logs of a result have the same id, and the order is that of the query.
LEMMA ResultOrder ==
    ASSUME ListInv, NEW i \in DOMAIN Result, NEW j \in DOMAIN Result, i < j
    PROVE  /\ Result[i].id # Result[j].id
           /\ Order[staged] = "desc" => Result[j].ts <= Result[i].ts
<1>1. Result[i].ts \in Int /\ Result[j].ts \in Int
  BY ResultFacts
<1>2. /\ Result[i].id # Result[j].id
      /\ Order[staged] = "desc" => Result[i].ts >= Result[j].ts
  BY ResultFacts, LogsPagesAssumption DEF Result
<1> QED BY <1>1, <1>2

\* A beginning and what follows are a longer beginning.
LEMMA Continued ==
    ASSUME NEW all \in Seq(Logs), NEW n \in 0 .. Len(all), NEW m \in n .. Len(all)
    PROVE  /\ SubSeq(all, 1, n) \o SubSeq(all, n + 1, m) = SubSeq(all, 1, m)
           /\ Len(SubSeq(all, 1, m)) = m
<1>1. Len(all) \in Nat
  OBVIOUS
<1> DEFINE first == SubSeq(all, 1, n)
           second == SubSeq(all, n + 1, m)
           whole == SubSeq(all, 1, m)
<1>2. /\ first \in Seq(Logs) /\ Len(first) = n /\ \A i \in 1 .. n : first[i] = all[i]
      /\ second \in Seq(Logs) /\ Len(second) = m - n
      /\ \A i \in 1 .. m - n : second[i] = all[n + i]
      /\ whole \in Seq(Logs) /\ Len(whole) = m /\ \A i \in 1 .. m : whole[i] = all[i]
  <2>1. first \in Seq(Logs) /\ Len(first) = n /\ \A i \in 1 .. n : first[i] = all[i]
    BY <1>1
  <2>2. second \in Seq(Logs) /\ Len(second) = m - n
    BY <1>1
  <2>3. ASSUME NEW i \in 1 .. m - n PROVE second[i] = all[n + i]
    BY <1>1
  <2>4. whole \in Seq(Logs) /\ Len(whole) = m /\ \A i \in 1 .. m : whole[i] = all[i]
    BY <1>1
  <2> QED BY <2>1, <2>2, <2>3, <2>4
<1> HIDE DEF first, second, whole
<1>3. first \o second \in Seq(Logs) /\ Len(first \o second) = m
  BY <1>1, <1>2
<1>4. ASSUME NEW i \in 1 .. m PROVE (first \o second)[i] = whole[i]
  <2>1. CASE i <= n
    BY <1>2, <2>1
  <2>2. CASE i > n
    <3>1. i - n \in 1 .. m - n /\ n + (i - n) = i
      BY <2>2
    <3>2. (first \o second)[i] = second[i - n]
      BY <1>2, <2>2
    <3>3. second[i - n] = all[i]
      BY <1>2, <3>1
    <3>4. whole[i] = all[i]
      BY <1>2
    <3> QED BY <3>2, <3>3, <3>4
  <2>3. i <= n \/ i > n
    BY <1>1
  <2> QED BY <2>1, <2>2, <2>3
<1>5. first \o second = whole
  BY <1>2, <1>3, <1>4
<1> QED BY <1>2, <1>5 DEF first, second, whole

\* The logs that a page is taken from are those that follow what is shown, or in another
\* order all, up to those that have left the range.
First == IF Order[staged] = "other" THEN 0 ELSE Len(logs)

LEMMA CandidatesFollow ==
    ASSUME ListInv, CompleteInv, Good, Waiting, Key = observed, fetching # None
    PROVE  \E m \in First .. Len(Result) :
              /\ Candidates(request, range, fetching) = First + 1 .. m
              /\ Cardinality(Candidates(request, range, fetching)) = m - First
              /\ \A i \in DOMAIN Result : i > m => Result[i].ts < fetching.from
              /\ Order[staged] = "other" => m = Len(Result)
<1> DEFINE C == Candidates(request, range, fetching)
<1>1. /\ request.query = staged /\ RequestOk(request) /\ request.page \in Nat \ {0}
      /\ Expecting
  BY CleanFacts DEF Good, Expecting
<1>2. /\ DOMAIN Result = 1 .. Len(Result) /\ Len(Result) \in Nat /\ Len(logs) \in Nat
      /\ Result \in Seq(Logs)
      /\ \A i \in DOMAIN Result : Result[i].ts \in Nat /\ Result[i].id # None
  BY ResultFacts
<1>3. Len(logs) <= Len(Result) /\ logs = SubSeq(Result, 1, Len(logs))
  BY DEF CompleteInv, Beginning
<1>4. EndOk(fetching.end) /\ FromOk(fetching.from)
  BY DEF CompleteInv, Sent
<1>5. fetching.from \in Nat /\ fetching.end \in Nat \cup {None}
  BY DEF ListInv, Shapes, Params
<1>6. C = {i \in DOMAIN Result :
             /\ Order[staged] # "other" =>
                   \A j \in i .. Len(Result) : Result[j].id # request.after
             /\ fetching.end # None => Result[i].ts <= fetching.end
             /\ Result[i].ts >= fetching.from}
  BY <1>1 DEF Candidates, Result
<1> HIDE DEF C
\* No log that is yet to be shown is too new.
<1>7. ASSUME NEW i \in DOMAIN Result, i > Len(logs), fetching.end # None
      PROVE  Result[i].ts <= fetching.end
  <2>1. ~(Result[i].ts > fetching.end)
    BY <1>2, <1>4, <1>7 DEF EndOk
  <2> QED BY <1>2, <1>5, <1>7, <2>1
<1>8. CASE Order[staged] = "other"
  <2>1. fetching.end = None /\ \A i \in DOMAIN Result : Result[i].ts >= fetching.from
    BY <1>4, <1>8 DEF EndOk, FromOk
  <2>2. C = 1 .. Len(Result)
    BY <1>2, <1>6, <1>8, <2>1
  <2>3. Cardinality(1 .. Len(Result)) = Len(Result)
    <3>1. 1 \in Int /\ Len(Result) \in Int
      BY <1>2
    <3>2. Cardinality(1 .. Len(Result)) =
              IF 1 > Len(Result) THEN 0 ELSE Len(Result) - 1 + 1
      BY <3>1, FS_Interval
    <3> QED BY <1>2, <3>2
  <2>4. First = 0 /\ Len(Result) \in First .. Len(Result)
    BY <1>2, <1>8 DEF First
  <2>5. C = First + 1 .. Len(Result) /\ Cardinality(C) = Len(Result) - First
    BY <1>2, <2>2, <2>3, <2>4
  <2>6. \A i \in DOMAIN Result : ~(i > Len(Result))
    BY <1>2
  <2> QED BY <2>4, <2>5, <2>6 DEF C
<1>9. CASE Order[staged] # "other"
  <2> DEFINE n == Len(logs)
  <2>1. First = n
    BY <1>9 DEF First
\* The log that the page comes after is the last one that is shown.
  <2>2. request.page > 1 => n \in DOMAIN Result /\ request.after = Result[n].id
    <3> SUFFICES ASSUME request.page > 1 PROVE n \in DOMAIN Result /\ request.after = Result[n].id
      OBVIOUS
    <3>1. logs # <<>> /\ request.after = logs[n].id
      BY <1>1, <1>9 DEF CompleteInv, Asked
    <3>2. n >= 1
      BY <1>2, <3>1, ResultFacts
    <3>3. SubSeq(Result, 1, n)[n] = Result[n]
      BY <1>2, <1>3, <3>2
    <3> QED BY <1>2, <1>3, <3>1, <3>2, <3>3
  <2>3. request.page = 1 => n = 0 /\ request.after = None
    <3>1. request.page = 1 => logs = <<>>
      BY <1>1 DEF Good, Spotless, ListInv, Room
    <3> QED BY <1>1, <3>1 DEF RequestOk, FirstPage
  <2>4. ASSUME NEW i \in C PROVE i \in n + 1 .. Len(Result)
    <3>1. i \in 1 .. Len(Result) /\ \A j \in i .. Len(Result) : Result[j].id # request.after
      BY <1>2, <1>6, <1>9
    <3>2. ~(i <= n)
      <4> SUFFICES ASSUME i <= n PROVE FALSE
        OBVIOUS
      <4>1. request.page > 1
        BY <1>1, <1>2, <2>3, <3>1
      <4>2. n \in i .. Len(Result)
        BY <1>2, <1>3, <3>1
      <4> QED BY <2>2, <3>1, <4>1, <4>2
    <3> QED BY <1>2, <3>1, <3>2
  <2>5. ASSUME NEW i \in n + 1 .. Len(Result), Result[i].ts >= fetching.from PROVE i \in C
    <3>1. i \in DOMAIN Result /\ i > n
      BY <1>2
    <3>2. ASSUME NEW j \in i .. Len(Result) PROVE Result[j].id # request.after
      <4>1. j \in DOMAIN Result /\ n < j
        BY <1>2, <3>1
      <4>2. CASE request.page = 1
        BY <1>2, <2>3, <4>1, <4>2
      <4>3. CASE request.page > 1
        BY <2>2, <4>1, <4>3, ResultOrder
      <4> QED BY <1>1, <4>2, <4>3
    <3>3. fetching.end # None => Result[i].ts <= fetching.end
      BY <1>7, <3>1
    <3> QED BY <1>6, <2>5, <3>1, <3>2, <3>3
  <2>6. ASSUME NEW i \in C, NEW j \in n + 1 .. i PROVE j \in C
    <3>1. i \in n + 1 .. Len(Result) /\ Result[i].ts >= fetching.from
      BY <1>6, <2>4
    <3>2. j \in n + 1 .. Len(Result) /\ j \in DOMAIN Result /\ i \in DOMAIN Result /\ j <= i
      BY <1>2, <3>1
    <3>3. Result[j].ts >= fetching.from
      <4>1. CASE Order[staged] = "desc"
        <5>1. j # i => Result[i].ts <= Result[j].ts
          BY <3>2, <4>1, ResultOrder
        <5> QED BY <1>2, <1>5, <3>1, <3>2, <5>1
      <4>2. CASE Order[staged] = "asc"
        <5>1. ~(j <= n)
          BY <1>2, <3>2
        <5>2. ~(Result[j].ts < fetching.from)
          BY <1>4, <3>2, <4>2, <5>1 DEF FromOk
        <5> QED BY <1>2, <1>5, <3>2, <5>2
      <4>3. Order[staged] \in {"desc", "asc", "other"}
        BY LogsPagesAssumption, ResultFacts
      <4> QED BY <1>9, <4>1, <4>2, <4>3
    <3> QED BY <2>5, <3>2, <3>3
  <2>7. C \in SUBSET (n + 1 .. Len(Result))
    BY <2>4
  <2>8. n \in Nat /\ n <= Len(Result) /\ Len(Result) \in Nat
    BY <1>2, <1>3
  <2> HIDE DEF n
  <2>9. PICK m \in n .. Len(Result) : C = n + 1 .. m /\ Cardinality(C) = m - n
    BY <2>6, <2>7, <2>8, Contiguous
  <2>10. ASSUME NEW i \in DOMAIN Result, i > m PROVE Result[i].ts < fetching.from
    <3>1. i \in n + 1 .. Len(Result) /\ i \notin C
      BY <1>2, <2>8, <2>9, <2>10
    <3>2. ~(Result[i].ts >= fetching.from)
      BY <2>5, <3>1
    <3> QED BY <1>2, <1>5, <3>2
  <2> QED BY <1>9, <2>1, <2>9, <2>10 DEF C
<1> QED BY <1>8, <1>9

\* The server answers with the rows that follow what is shown.
LEMMA RowsFollow ==
    ASSUME ListInv, CompleteInv, Good, Waiting, Key = observed, fetching # None,
           ~TooFar(observed.request)
    PROVE  Following(Rows(observed.request, observed.range, fetching))
<1>1. /\ request.query = staged /\ RequestOk(request) /\ Expecting
      /\ observed.request = request /\ observed.range = range
      /\ request.page \in Nat \ {0} /\ request.offset \in Nat /\ request.size \in Nat \ {0}
      /\ request \in Requests
  BY CleanFacts DEF Good, Expecting, Key, RequestOk
<1>2. /\ Result \in Seq(Logs) /\ Len(Result) \in Nat /\ Len(logs) \in Nat
      /\ Limit[staged] \in Nat /\ PageSize \in Nat \ {0} /\ DOMAIN Result = 1 .. Len(Result)
      /\ Available \in Nat /\ Available <= Len(Result) /\ from \in Nat
      /\ \A i \in DOMAIN Result : Result[i].ts \in Nat
  BY ResultFacts
<1>3. Len(logs) <= Len(Result) /\ Len(logs) \in Nat /\ Len(Result) \in Nat
  BY <1>2 DEF CompleteInv, Beginning
<1>4. request.page = 1 => logs = <<>> /\ Len(logs) = 0
  BY <1>1 DEF Good, Spotless, ListInv, Room
<1> DEFINE C == Candidates(request, range, fetching)
           offset == IF Order[staged] = "other" THEN request.offset ELSE 0
           count == Smaller(RowLimit(request), Cardinality(C) - offset)
           rows == Rows(observed.request, observed.range, fetching)
           last == Len(logs) + count
<1>5. PICK m \in First .. Len(Result) :
        /\ C = First + 1 .. m
        /\ Cardinality(C) = m - First
        /\ \A i \in DOMAIN Result : i > m => Result[i].ts < fetching.from
        /\ Order[staged] = "other" => m = Len(Result)
  BY CandidatesFollow
<1>6. rows = [k \in 1 .. count |-> Result[Nth(C, offset + k)]]
  BY <1>1 DEF Rows, Result
<1> HIDE DEF C, rows
<1>7. /\ First \in Nat /\ m \in Nat /\ First <= m /\ m <= Len(Result)
      /\ First + offset = Len(logs) /\ offset \in Nat /\ Len(logs) <= m
  <2>0. First \in Nat /\ m \in Nat /\ First <= m /\ m <= Len(Result)
    <3>1. First \in Nat
      BY <1>2 DEF First
    <3>2. m \in First .. Len(Result)
      OBVIOUS
    <3> QED BY <1>2, <3>1, <3>2
  <2>1. CASE Order[staged] = "other"
    <3>1. request.page = 1 => request.offset = 0
      BY <1>1 DEF RequestOk, FirstPage
    <3>2. request.page > 1 => request.offset = Len(logs)
      BY <1>1, <2>1 DEF CompleteInv, Asked
    <3>3. request.offset = Len(logs)
      BY <1>1, <1>4, <3>1, <3>2
    <3>4. m = Len(Result) /\ First = 0 /\ offset = Len(logs)
      BY <1>5, <2>1, <3>3 DEF First
    <3> QED BY <1>2, <1>3, <2>0, <3>4
  <2>2. CASE Order[staged] # "other"
    <3>1. First = Len(logs) /\ offset = 0
      BY <2>2 DEF First
    <3> QED BY <1>2, <2>0, <3>1
  <2> QED BY <2>1, <2>2
<1> HIDE DEF offset
<1>8. /\ RowLimit(request) \in Nat \ {0}
      /\ request.page = 1 => RowLimit(request) = IF Limit[staged] > 0 /\ PageSize > Limit[staged]
                                                 THEN Limit[staged] ELSE PageSize
  <2>1. Limit[staged] > 0 => request.offset < Limit[staged]
    BY <1>1, <1>2 DEF TooFar
  <2>2. request.page = 1 => request.offset = 0 /\ request.size = PageSize
    BY <1>1 DEF RequestOk, FirstPage
  <2> QED BY <1>1, <1>2, <2>1, <2>2 DEF RowLimit
<1>9. /\ count \in Nat /\ count <= m - Len(logs)
      /\ count = RowLimit(request) \/ count = m - Len(logs)
  <2>1. Cardinality(C) - offset = m - Len(logs)
    <3>1. Cardinality(C) = m - First
      BY <1>5
    <3> QED BY <1>3, <1>7, <3>1
  <2>2. count = Smaller(RowLimit(request), m - Len(logs))
    BY <2>1
  <2>3. m - Len(logs) \in Nat
    BY <1>2, <1>7
  <2> HIDE DEF count
  <2> QED BY <1>8, <2>2, <2>3 DEF Smaller
<1> HIDE DEF count
<1>10. ASSUME NEW k \in 1 .. count
       PROVE  Len(logs) + k \in DOMAIN Result /\ Nth(C, offset + k) = Len(logs) + k
  <2>1. offset + k \in 1 .. m - First /\ First <= m
    BY <1>2, <1>7, <1>9
  <2>2. Nth(First + 1 .. m, offset + k) = First + (offset + k)
    BY <1>7, <2>1, NthOfInterval
  <2>3. Len(logs) + k \in DOMAIN Result
    BY <1>2, <1>7, <1>9
  <2>4. First + (offset + k) = Len(logs) + k
    BY <1>3, <1>7, <1>9
  <2> QED BY <1>5, <2>2, <2>3, <2>4
<1>11. last \in Len(logs) .. Len(Result)
  BY <1>2, <1>7, <1>9
<1>12. rows = SubSeq(Result, Len(logs) + 1, last)
  <2> DEFINE part == SubSeq(Result, Len(logs) + 1, last)
  <2>1. part \in Seq(Logs) /\ Len(part) = count
    BY <1>2, <1>9, <1>11
  <2>2. \A k \in 1 .. count : part[k] = Result[Len(logs) + k]
    <3> SUFFICES ASSUME NEW k \in 1 .. count PROVE part[k] = Result[Len(logs) + k]
      OBVIOUS
    <3>1. Len(logs) + 1 \in Int /\ last \in Int /\ k \in 1 .. last - (Len(logs) + 1) + 1
      BY <1>2, <1>9
    <3>2. part[k] = Result[k + (Len(logs) + 1) - 1]
      BY <1>2, <3>1
    <3>3. k + (Len(logs) + 1) - 1 = Len(logs) + k
      BY <1>2, <1>9
    <3> QED BY <3>2, <3>3
  <2> HIDE DEF part, last
  <2>3. \A k \in 1 .. count : rows[k] = Result[Len(logs) + k] /\ rows[k] \in Logs
    BY <1>2, <1>6, <1>10
  <2>4. rows \in Seq(Logs) /\ Len(rows) = count
    <3>1. rows \in [1 .. count -> Logs]
      BY <1>6, <2>3
    <3> QED BY <1>9, <3>1
  <2>5. rows = part
    BY <1>9, <2>1, <2>2, <2>3, <2>4
  <2> QED BY <2>5 DEF part
<1>13. last = Len(logs) => Gone(last)
  <2> SUFFICES ASSUME last = Len(logs), NEW i \in last + 1 .. Available PROVE Result[i].ts < from
    BY DEF Gone
  <2>1. m = Len(logs)
    BY <1>2, <1>7, <1>8, <1>9
  <2>2. i \in DOMAIN Result /\ i > m
    BY <1>2, <2>1
  <2>3. fetching.from <= from /\ fetching.from \in Nat
    BY DEF CompleteInv, Sent, ListInv, Shapes, Params
  <2>4. Result[i].ts < fetching.from
    BY <1>5, <2>2
  <2>5. Result[i].ts \in Nat
    BY <1>2, <2>2
  <2> QED BY <1>2, <2>3, <2>4, <2>5
<1>14. request.page = 1 => last >= Smaller(PageSize, Available)
  <2> SUFFICES ASSUME request.page = 1 PROVE last >= Smaller(PageSize, Available)
    OBVIOUS
  <2>1. m = Len(Result)
    <3>1. fetching.from = 0
      BY DEF CompleteInv, Sent, FromOk
    <3>2. \A i \in DOMAIN Result : ~(Result[i].ts < fetching.from)
      BY <1>2, <3>1
    <3>3. \A i \in DOMAIN Result : ~(i > m)
      BY <1>5, <3>2
    <3>4. Len(Result) \in DOMAIN Result => ~(Len(Result) > m)
      BY <3>3
    <3>5. Len(Result) > m => Len(Result) \in DOMAIN Result
      BY <1>2, <1>7
    <3>6. ~(Len(Result) > m)
      BY <3>4, <3>5
    <3> QED BY <1>3, <1>7, <3>6
  <2>2. last \in Int /\ (last = RowLimit(request) \/ last = Len(Result))
    <3>1. Len(logs) = 0
      BY <1>4
    <3> QED BY <1>3, <1>8, <1>9, <2>1, <3>1
  <2> HIDE DEF last
  <2>3. /\ Smaller(PageSize, Available) <= PageSize
        /\ Smaller(PageSize, Available) <= Available
        /\ Smaller(PageSize, Available) \in Int
    BY <1>2 DEF Smaller
  <2>4. CASE last = Len(Result)
    BY <1>2, <2>3, <2>4
  <2>5. CASE last = RowLimit(request)
    <3>1. CASE Limit[staged] > 0 /\ PageSize > Limit[staged]
      <4>1. last = Limit[staged]
        BY <1>8, <2>5, <3>1
      <4>2. Available <= Limit[staged]
        BY <3>1, ResultFacts
      <4> QED BY <1>2, <2>3, <4>1, <4>2
    <3>2. CASE ~(Limit[staged] > 0 /\ PageSize > Limit[staged])
      <4>1. last = PageSize
        BY <1>8, <2>5, <3>2
      <4> QED BY <1>2, <2>3, <4>1
    <3> QED BY <3>1, <3>2
  <2> QED BY <2>2, <2>4, <2>5
<1> HIDE DEF last
<1> QED BY <1>11, <1>12, <1>13, <1>14 DEF Following, rows

\* No more is shown than there is to show.
LEMMA ShownAvailable ==
    ASSUME ListInv, CompleteInv, Good
    PROVE  Len(logs) <= Available
<1>1. Len(logs) <= Len(Result)
  BY DEF CompleteInv, Beginning
<1>2. Limit[staged] > 0 => Len(logs) <= Limit[staged]
  BY CleanFacts DEF Good, ListInv, Room, Spotless
<1> QED BY <1>1, <1>2, ResultFacts

LEMMA InitComplete == Init => CompleteInv
<1> SUFFICES ASSUME Init PROVE CompleteInv
  OBVIOUS
<1>1. request = None /\ logs = <<>> /\ reached = 0
  BY DEF Init
<1>2. ~Clean /\ ~Good
  BY <1>1 DEF Good, Clean, ResetNeeded
<1> QED BY <1>1, <1>2
        DEF CompleteInv, Beginning, Asked, Sent, Pages, EndReached, Fixed, Settled

-----------------------------------------------------------------------------
\* A list that starts anew asks for its first page, or has done so.
LEMMA ResetCompletes ==
    ASSUME ListInv, CompleteInv, Flush, ResetNeeded
    PROVE  CompleteInv'
<1>1. /\ logs' = <<>> /\ request' = FirstPage(staged) /\ reached' = 0
      /\ fetching' = IF FetchNeeded THEN ParamsSent ELSE fetching
      /\ from' = IF FetchNeeded THEN ParamsSent.from ELSE from
      /\ data' = DataShown /\ seen' = DataShown
      /\ lastLog' = IF DataShown # seen THEN None ELSE lastLog
      /\ UNCHANGED <<staged, range, cache>>
      /\ request'.query = staged /\ request'.page = 1
      /\ FirstKey(Key') = Key'
  BY ResetFacts
<1>2. /\ Key' = observed' => FetchNeeded /\ Key = Key' /\ request = request'
      /\ Key' = observed' /\ "revisited" \notin mishaps' => Key' \notin DOMAIN cache
      /\ Key' = observed' /\ mishaps' = {} => EndSent = None
  BY ResetFacts
<1>3. /\ ParamsSent # None /\ ParamsSent.end = EndSent
      /\ Key' = observed' => /\ fetching' = ParamsSent /\ from' = ParamsSent.from
                             /\ ParamsSent.from = 0
  BY <1>1, <1>2, SentFacts
<1>4. Good' => Waiting' /\ Expecting'
  <2> SUFFICES ASSUME Good' PROVE Waiting'
    BY DEF Expecting
  <2> SUFFICES ASSUME Key' = observed', DataShown # None, DataShown.key = Key' PROVE FALSE
    BY <1>1 DEF Waiting
  <2>1. FirstKey(DataShown.key) \in DOMAIN cache
    BY ShownFacts
  <2>2. Key' \notin DOMAIN cache
    BY <1>2 DEF Good
  <2> QED BY <1>1, <2>1, <2>2
<1>5. Beginning'
  <2>1. Result' = Result /\ Result \in Seq(Logs) /\ Len(Result) \in Nat /\ Len(logs') = 0
    BY <1>1, ResultFacts DEF Result
  <2>2. SubSeq(Result, 1, 0) = <<>>
    BY <2>1
  <2> QED BY <1>1, <1>4, <2>1, <2>2 DEF Beginning
<1>6. Asked' /\ Pages'
  BY <1>1 DEF Asked, Pages
<1>7. Sent'
  <2>1. Result' = Result /\ \A i \in DOMAIN Result : Result[i].ts \in Nat
    BY <1>1, ResultFacts DEF Result
  <2>2. Good' /\ Key' = observed' => EndSent' = None /\ fetching'.end = None
    <3> SUFFICES ASSUME Good', Key' = observed' PROVE EndSent' = None /\ fetching'.end = None
      OBVIOUS
    <3>1. EndSent = None /\ request' = request /\ fetching'.end = EndSent
      BY <1>2, <1>3 DEF Good
    <3>2. lastLog' = None \/ lastLog' = lastLog
      BY <1>1
    <3>3. EndSent' = None
      BY <3>1, <3>2 DEF EndSent, Millisecond
    <3> QED BY <3>1, <3>3
  <2>3. Good' /\ Key' = observed' => fetching'.from = 0 /\ from' = 0
    BY <1>3
  <2>4. FromOk(0)'
    BY <1>1, <2>1 DEF FromOk
  <2>5. Good' /\ Key' = observed' => FromOk(fetching.from)'
    BY <2>3, <2>4 DEF FromOk
  <2>6. request'.page = 1 /\ ~(request'.page > 1)
    BY <1>1
  <2> QED BY <2>2, <2>3, <2>5, <2>6 DEF Sent, EndOk
<1>8. EndReached'
  <2>1. Len(logs') = 0 /\ reached' \in 0 .. Len(logs')
    BY <1>1
  <2> QED BY <1>4, <2>1 DEF EndReached
<1>9. Fixed' /\ Settled'
  <2>1. ~(request'.page > 1)
    BY <1>1
  <2> QED BY <1>3, <2>1 DEF Fixed, Settled
<1> QED BY <1>5, <1>6, <1>7, <1>8, <1>9 DEF CompleteInv

\* A page that is appended is the rows that follow; else the same is waited for as
\* before.
LEMMA AppendCompletes ==
    ASSUME ListInv, CompleteInv, Flush, Clean
    PROVE  CompleteInv'
<1>1. /\ UNCHANGED <<page, request, minTimeRef, staged, range, cache, reached>>
      /\ fetching' = IF FetchNeeded THEN ParamsSent ELSE fetching
      /\ from' = IF FetchNeeded THEN ParamsSent.from ELSE from
      /\ failed' = (failed /\ ~FetchNeeded)
      /\ data' = DataShown /\ seen' = DataShown
      /\ lastLog' = IF DataShown # seen THEN None ELSE lastLog
      /\ mishaps \subseteq mishaps'
      /\ Key' = Key /\ Clean' /\ observed' = Key
      /\ ~FetchNeeded => Key = observed
      /\ FetchNeeded => Key # observed
  BY AppendFacts
<1>2. /\ request # None /\ RequestOk(request) /\ Key.request = request
      /\ request.page \in Nat \ {0} /\ request.query = staged
  BY CleanFacts
<1>3. /\ Result' = Result /\ Available' = Available
      /\ Result \in Seq(Logs) /\ Len(Result) \in Nat /\ DOMAIN Result = 1 .. Len(Result)
      /\ Len(logs) \in Nat /\ PageSize \in Nat \ {0} /\ Available \in Nat
      /\ Available <= Len(Result)
      /\ \A i \in DOMAIN Result : Result[i].ts \in Nat
  BY <1>1, ResultFacts DEF Result, Available
<1>4. (Good' => Good) /\ (Good' => Spotless')
  BY <1>1 DEF Good, Spotless
<1>5. EndSent' = EndSent \/ EndSent' = None
  <2>1. lastLog' = None \/ lastLog' = lastLog
    BY <1>1
  <2> QED BY <1>1, <2>1 DEF EndSent, Millisecond
<1>6. /\ logs' \in Seq(Logs) /\ Len(logs') \in Nat /\ Len(logs') >= Len(logs)
      /\ reached' \in 0 .. Len(logs')
  <2>1. logs' \in Seq(Logs) /\ Len(logs') >= Len(logs)
    BY AppendFacts
  <2>2. Len(logs') \in Nat
    BY <2>1
  <2> QED BY <1>1, <1>3, <2>1, <2>2 DEF CompleteInv, EndReached
<1>7. ParamsSent # None /\ ParamsSent.end = EndSent /\ ParamsSent.from \in Nat
      /\ ParamsSent.from = (IF request.page = 1 THEN 0 ELSE from)
  BY SentFacts
<1>8. Fixed'
  <2> SUFFICES ASSUME range \notin Relative PROVE from' = 0
    BY <1>1 DEF Fixed
  <2>1. CASE FetchNeeded /\ request.page = 1
    BY <1>1, <1>7, <2>1
  <2>2. CASE FetchNeeded /\ request.page # 1
    <3>1. request.page > 1
      BY <1>2, <2>2
    <3> QED BY <1>1, <1>7, <2>2, <3>1 DEF CompleteInv, Fixed
  <2>3. CASE ~FetchNeeded
    BY <1>1, <2>3 DEF CompleteInv, Fixed
  <2> QED BY <2>1, <2>2, <2>3
<1>9. Settled'
  <2> SUFFICES ASSUME Waiting' PROVE fetching' # None \/ failed'
    BY DEF Settled
  <2>1. CASE FetchNeeded
    BY <1>1, <1>7, <2>1
  <2>2. CASE ~FetchNeeded
    <3>1. Key = observed /\ data' = data
      BY <1>1, <2>2 DEF DataShown
    <3>2. Waiting
      BY <1>1, <3>1 DEF Waiting
    <3> QED BY <1>1, <2>2, <3>1, <3>2 DEF CompleteInv, Settled
  <2> QED BY <2>1, <2>2
<1>10. CASE ~Good'
  <2>1. Beginning' /\ Asked' /\ Sent' /\ Pages' /\ EndReached'
    BY <1>6, <1>10 DEF Beginning, Asked, Sent, Pages, EndReached
  <2> QED BY <1>8, <1>9, <2>1 DEF CompleteInv
<1>11. CASE Good' /\ Appends
  <2>1. /\ Good /\ Key = observed /\ data # seen /\ data # None /\ data.key = Key
        /\ DataShown = data /\ fetching' = None
        /\ ~Waiting' /\ ~Expecting' /\ data' = seen'
    BY <1>1, <1>4, <1>11, AppendCases
  <2>2. logs' = logs \o data.rows
    BY <1>11, <2>1, AppendFacts
  <2>3. PICK last \in Len(logs) .. Len(Result) :
          /\ data.rows = SubSeq(Result, Len(logs) + 1, last)
          /\ last = Len(logs) => Gone(last)
          /\ request.page = 1 => last >= Smaller(PageSize, Available)
    BY <2>1 DEF CompleteInv, Pages, Following
  <2>4. logs' = SubSeq(Result, 1, last) /\ Len(logs') = last
    <3>1. logs = SubSeq(Result, 1, Len(logs)) /\ Len(logs) \in 0 .. Len(Result)
      BY <1>3, <2>1 DEF CompleteInv, Beginning
    <3>2. /\ SubSeq(Result, 1, Len(logs)) \o SubSeq(Result, Len(logs) + 1, last)
               = SubSeq(Result, 1, last)
          /\ Len(SubSeq(Result, 1, last)) = last
      BY <1>3, <3>1, Continued
    <3> QED BY <2>2, <2>3, <3>1, <3>2
  <2>5. Len(logs') >= Smaller(PageSize, Available)
    <3>1. CASE request.page = 1
      BY <2>3, <2>4, <3>1
    <3>2. CASE request.page # 1
      <4>1. Len(logs) >= Smaller(PageSize, Available)
        BY <2>1, <3>2 DEF CompleteInv, Beginning
      <4>2. Smaller(PageSize, Available) \in Int
        BY <1>3 DEF Smaller
      <4> QED BY <1>3, <1>6, <4>1, <4>2
    <3> QED BY <3>1, <3>2
  <2>6. Beginning'
    <3>1. Len(logs') <= Len(Result) /\ logs' = SubSeq(Result, 1, Len(logs'))
      BY <1>3, <2>3, <2>4
    <3> QED BY <1>3, <2>1, <2>5, <3>1 DEF Beginning, Smaller
  <2>7. Asked' /\ Pages'
    BY <2>1 DEF Asked, Pages
  <2>8. Sent'
    <3>1. lastLog' = None
      BY <1>1, <1>11 DEF Appends
    <3>2. EndSent' = None
      BY <3>1 DEF EndSent
    <3> QED BY <2>1, <3>2 DEF Sent, EndOk
  <2>9. EndReached'
    <3> SUFFICES ASSUME reached' = Len(logs') PROVE Gone(Len(logs))'
      BY <1>6 DEF EndReached
    <3>1. reached' = reached /\ reached \in 0 .. Len(logs)
      BY <1>1 DEF CompleteInv, EndReached
    <3>2. last = Len(logs)
      BY <1>3, <2>3, <2>4, <3>1
    <3>3. Gone(last) /\ Len(logs') = last
      BY <2>3, <2>4, <3>2
    <3>4. from' = from
      BY <1>1, <2>1
    <3> QED BY <1>3, <3>3, <3>4 DEF Gone
  <2> QED BY <1>8, <1>9, <2>6, <2>7, <2>8, <2>9 DEF CompleteInv
<1>12. CASE Good' /\ ~Appends
  <2>1. /\ Good /\ logs' = logs /\ data' = seen'
        /\ Waiting' <=> Waiting
        /\ Expecting' <=> Expecting
    BY <1>4, <1>12, AppendCases
  <2>2. Beginning'
    BY <1>1, <1>3, <2>1 DEF CompleteInv, Beginning, Smaller
  <2>3. Asked' /\ Pages'
    BY <1>1, <2>1 DEF CompleteInv, Asked, Pages
  <2>4. EndOk(EndSent)
    <3>1. CASE FetchNeeded /\ request.page = 1
      <4>1. EndSent = None
        BY <1>12, <3>1, AppendFacts DEF Good
      <4> QED BY <4>1 DEF EndOk
    <3>2. CASE ~(FetchNeeded /\ request.page = 1)
      <4>1. request.page > 1 \/ Key = observed
        BY <1>1, <1>2, <3>2
      <4> QED BY <2>1, <4>1 DEF CompleteInv, Sent
    <3> QED BY <3>1, <3>2
  <2>5. Waiting /\ fetching' # None =>
           EndOk(fetching'.end) /\ FromOk(fetching'.from) /\ fetching'.from <= from'
    <3>1. CASE FetchNeeded
      <4>1. fetching' = ParamsSent /\ from' = ParamsSent.from
        BY <1>1, <3>1
      <4>2. FromOk(ParamsSent.from)
        <5>1. CASE request.page = 1
          <6>1. ParamsSent.from = 0
            BY <1>7, <5>1
          <6>2. \A i \in DOMAIN Result : Result[i].ts >= 0 /\ ~(Result[i].ts < 0)
            BY <1>3
          <6> QED BY <6>1, <6>2 DEF FromOk
        <5>2. CASE request.page # 1
          <6>1. ~RangeMoved
            BY <1>12, <3>1, <5>2, AppendFacts DEF Good
          <6>2. \A i \in DOMAIN Result : Result[i].ts < ParamsSent.from =>
                   Order[staged] # "other" /\ (Order[staged] = "asc" => ~(i > Len(logs)))
            BY <1>2, <6>1 DEF RangeMoved, Result
          <6>3. \A i \in DOMAIN Result : ~(i > Len(logs)) => i <= Len(logs)
            BY <1>3
          <6>4. \A i \in DOMAIN Result : ~(Result[i].ts < ParamsSent.from) =>
                   Result[i].ts >= ParamsSent.from
            BY <1>3, <1>7
          <6> QED BY <5>2, <6>2, <6>3, <6>4 DEF FromOk
        <5> QED BY <5>1, <5>2
      <4> QED BY <1>7, <2>4, <4>1, <4>2
    <3>2. CASE ~FetchNeeded
      <4>1. Key = observed /\ fetching' = fetching /\ from' = from
        BY <1>1, <3>2
      <4> QED BY <2>1, <4>1 DEF CompleteInv, Sent
    <3> QED BY <3>1, <3>2
  <2>6. Sent'
    <3>1. EndOk(EndSent)'
      BY <1>1, <1>3, <1>5, <2>1, <2>4 DEF EndOk
    <3>2. Waiting /\ fetching' # None =>
             EndOk(fetching.end)' /\ FromOk(fetching.from)' /\ fetching'.from <= from'
      BY <1>1, <1>3, <2>1, <2>5 DEF EndOk, FromOk
    <3> QED BY <2>1, <3>1, <3>2 DEF Sent
  <2>7. EndReached'
    <3> SUFFICES ASSUME ~Expecting, reached = Len(logs) PROVE Gone(Len(logs))'
      BY <1>1, <1>6, <2>1 DEF EndReached
    <3>1. ~FetchNeeded
      BY <1>1 DEF Expecting, Waiting
    <3>2. from' = from
      BY <1>1, <3>1
    <3>3. Gone(Len(logs))
      BY <2>1 DEF CompleteInv, EndReached
    <3> QED BY <1>3, <2>1, <3>2, <3>3 DEF Gone
  <2> QED BY <1>8, <1>9, <2>2, <2>3, <2>6, <2>7 DEF CompleteInv
<1> QED BY <1>10, <1>11, <1>12

\* What is the same while the list and what it is for are.
LEMMA ListSame ==
    ASSUME UNCHANGED <<staged, range, request, logs, lastLog, minTimeRef, mishaps>>
    PROVE  /\ Key' = Key /\ Clean' = Clean /\ Good' = Good /\ EndSent' = EndSent
           /\ Result' = Result /\ Available' = Available /\ isLimit' = isLimit
<1>1. Key' = Key /\ Clean' = Clean /\ EndSent' = EndSent /\ Result' = Result
  BY DEF Key, Clean, ResetNeeded, EndSent, Millisecond, Result
<1>2. Good' = Good /\ Available' = Available /\ isLimit' = isLimit
  BY <1>1 DEF Good, Available, Smaller, isLimit
<1> QED BY <1>1, <1>2

\* An answer is the rows that follow, and is told apart from what was seen.
LEMMA SucceedCompletes ==
    ASSUME ListInv, CompleteInv, Succeed
    PROVE  CompleteInv'
<1> DEFINE rows == Rows(observed.request, observed.range, fetching)
<1>1. /\ fetching # None /\ ~TooFar(observed.request)
      /\ data' # None /\ data'.key = observed /\ data'.rows = rows
      /\ fetching' = None
      /\ UNCHANGED <<staged, range, request, logs, lastLog, minTimeRef, observed,
                     failed, seen, from, reached, mishaps>>
      /\ Clean => Key = observed /\ data = seen /\ ~Waiting'
      /\ Clean /\ Spotless /\ ~Waiting => data' = data
  BY SucceedFacts
<1>2. /\ Key' = Key /\ Clean' = Clean /\ Good' = Good /\ EndSent' = EndSent
      /\ Result' = Result /\ Available' = Available
  BY <1>1, ListSame
<1>3. Good => Clean /\ Spotless /\ Key = observed /\ data = seen
  BY <1>1 DEF Good, Spotless
<1>4. Good /\ Waiting => Following(rows)
  BY <1>1, <1>3, RowsFollow
<1> HIDE DEF rows
\* The effects have seen no data of this page.
<1>5. Good /\ Waiting => data' # seen'
  <2> SUFFICES ASSUME Good, Waiting, data' = seen PROVE FALSE
    BY <1>1
  <2>1. seen # None /\ seen.key = Key /\ Key.request = request /\ request.page \in Nat \ {0}
    BY <1>1, <1>3, CleanFacts
  <2>2. CASE request.page = 1
    <3>1. Key \notin DOMAIN cache
      BY <1>3, <2>2 DEF ListInv, Unseen
    <3>2. FirstKey(Key) = Key
      BY <1>3, <2>2, CleanFacts DEF FirstKey, Key, RequestOk
    <3> QED BY <2>1, <3>1, <3>2 DEF ListInv, FirstPages
  <2>3. CASE request.page > 1
    <3>1. seen.key.request.page < request.page
      BY <1>3, <2>1, <2>3 DEF ListInv, Unseen
    <3> QED BY <2>1, <3>1
  <2> QED BY <2>1, <2>2, <2>3
<1>6. Good => (Expecting' <=> Expecting)
  <2>1. Good /\ Waiting => Expecting /\ Expecting'
    BY <1>5 DEF Expecting
  <2>2. Good /\ ~Waiting => ~Expecting /\ ~Expecting'
    BY <1>1, <1>3 DEF Expecting
  <2> QED BY <2>1, <2>2
<1>7. Beginning'
  BY <1>1, <1>2, <1>6 DEF CompleteInv, Beginning, Smaller
<1>8. Asked'
  BY <1>1, <1>2, <1>6 DEF CompleteInv, Asked
<1>9. Sent'
  <2>1. Good /\ (request.page > 1 \/ Key = observed) => EndOk(EndSent)
    BY DEF CompleteInv, Sent
  <2>2. Good /\ (request.page > 1 \/ Key = observed) => EndOk(EndSent)'
    BY <1>1, <1>2, <2>1 DEF EndOk
  <2> QED BY <1>1, <1>2, <2>2 DEF Sent
<1>10. Pages'
  <2> SUFFICES ASSUME Good, data' # seen PROVE Following(data.rows)'
    BY <1>1, <1>2 DEF Pages
  <2>1. Waiting
    BY <1>1, <1>3
  <2>2. PICK last \in Len(logs) .. Len(Result) :
          /\ rows = SubSeq(Result, Len(logs) + 1, last)
          /\ last = Len(logs) => Gone(last)
          /\ request.page = 1 => last >= Smaller(PageSize, Available)
    BY <1>4, <2>1 DEF Following
  <2>3. Gone(last) => Gone(last)'
    BY <1>1, <1>2 DEF Gone
  <2> QED BY <1>1, <1>2, <2>2, <2>3 DEF Following, Smaller
<1>11. EndReached'
  <2>1. reached' \in 0 .. Len(logs')
    BY <1>1 DEF CompleteInv, EndReached
  <2>2. Good /\ ~Expecting /\ reached = Len(logs) => Gone(Len(logs))'
    BY <1>1, <1>2 DEF CompleteInv, EndReached, Gone
  <2> QED BY <1>1, <1>2, <1>6, <2>1, <2>2 DEF EndReached
<1>12. Fixed' /\ Settled'
  BY <1>1, <1>2 DEF CompleteInv, Fixed, Settled
<1> QED BY <1>7, <1>8, <1>9, <1>10, <1>11, <1>12 DEF CompleteInv

\* After an error the page is still waited for.
LEMMA FailCompletes ==
    ASSUME ListInv, CompleteInv, Fail
    PROVE  CompleteInv'
<1>1. /\ fetching' = None /\ failed' = TRUE /\ reached' = 0
      /\ data' = data \/ data' = None
      /\ UNCHANGED <<staged, range, request, logs, lastLog, minTimeRef, observed, cache, seen,
                     from, mishaps>>
      /\ Clean => Key = observed /\ data = seen /\ (Expecting' <=> Expecting)
  BY FailFacts
<1>2. /\ Key' = Key /\ Clean' = Clean /\ Good' = Good /\ EndSent' = EndSent
      /\ Result' = Result /\ Available' = Available
  BY <1>1, ListSame
<1>3. Good => Clean
  BY DEF Good
<1>4. Beginning'
  BY <1>1, <1>2, <1>3 DEF CompleteInv, Beginning, Smaller
<1>5. Asked' /\ Pages'
  BY <1>1, <1>2, <1>3 DEF CompleteInv, Asked, Pages
<1>6. Sent'
  <2>1. Good /\ (request.page > 1 \/ Key = observed) => EndOk(EndSent)
    BY DEF CompleteInv, Sent
  <2>2. Good /\ (request.page > 1 \/ Key = observed) => EndOk(EndSent)'
    BY <1>1, <1>2, <2>1 DEF EndOk
  <2> QED BY <1>1, <1>2, <2>2 DEF Sent
<1>7. EndReached'
  <2>1. Len(logs) \in Nat
    BY ResultFacts
  <2>2. Good /\ ~Expecting /\ 0 = Len(logs) => Gone(Len(logs))
    BY <2>1 DEF CompleteInv, EndReached
  <2>3. Good /\ ~Expecting /\ 0 = Len(logs) => Gone(Len(logs))'
    BY <1>1, <1>2, <2>2 DEF Gone
  <2> QED BY <1>1, <1>2, <1>3, <2>1, <2>3 DEF EndReached
<1>8. Fixed' /\ Settled'
  BY <1>1, <1>2 DEF CompleteInv, Fixed, Settled
<1> QED BY <1>4, <1>5, <1>6, <1>7, <1>8 DEF CompleteInv

\* Nothing is claimed of a list that is about to start anew.
LEMMA InputCompletes ==
    ASSUME ListInv, CompleteInv,
           \/ \E q \in Queries : Stage(q)
           \/ \E r \in Ranges : SelectRange(r)
    PROVE  CompleteInv'
<1>1. /\ ~EffectsFire /\ (staged' # staged \/ range' # range)
      /\ UNCHANGED <<request, logs, minTimeRef, reached>>
  BY DEF Stage, SelectRange, UserStep, list, client
<1>2. ResetNeeded'
  <2>1. request # None /\ request.query = staged /\ minTimeRef = range
    BY <1>1, RestFacts, CleanFacts
  <2> QED BY <1>1, <2>1 DEF ResetNeeded
<1>3. ~Good' /\ ~Clean'
  BY <1>2 DEF Good, Clean
<1> QED BY <1>1, <1>3
        DEF CompleteInv, Beginning, Asked, Sent, Pages, EndReached, Fixed, Settled

\* The end of the list is the end of the result, or another page is asked for: from the
\* end of what is shown on, and from a time on that leaves no row out.
LEMMA EndReachedCompletes ==
    ASSUME ListInv, CompleteInv, handleEndReached
    PROVE  CompleteInv'
<1>1. /\ ~EffectsFire /\ ~failed /\ logs # <<>> /\ data # None
      /\ reached' = Len(logs) /\ logs' = logs
      /\ UNCHANGED <<staged, range, minTimeRef, observed, fetching, failed, data, seen,
                     cache, from>>
  BY DEF handleEndReached, UserStep, ListMounted, inputs, list, client
<1>2. /\ Clean /\ Key = observed /\ data = seen
      /\ request # None /\ RequestOk(request) /\ page = request.page
      /\ request.query = staged /\ minTimeRef = range
      /\ request.page \in Nat \ {0} /\ Key.request = request
  BY <1>1, RestFacts, CleanFacts
<1>3. /\ Result' = Result /\ Available' = Available /\ isLimit' = isLimit
      /\ Result \in Seq(Logs) /\ Len(Result) \in Nat /\ DOMAIN Result = 1 .. Len(Result)
      /\ logs \in Seq(Logs) /\ Len(logs) \in Nat
      /\ PageSize \in Nat \ {0} /\ Available \in Nat
  BY <1>1, ResultFacts DEF Result, Available, isLimit, Smaller
<1>4. Good => /\ Len(logs) <= Len(Result) /\ logs = SubSeq(Result, 1, Len(logs))
              /\ Len(logs) >= Smaller(PageSize, Available)
              /\ ~(Expecting /\ request.page = 1)
  <2>1. Good /\ Expecting /\ request.page = 1 => logs = <<>>
    BY DEF ListInv, Room, Good, Spotless
  <2> QED BY <1>1, <2>1 DEF CompleteInv, Beginning
<1>5. reached' \in 0 .. Len(logs')
  BY <1>1, <1>3
<1>6. CASE isLimit \/ Len(logs) < PageSize
  <2>1. UNCHANGED <<request, page, lastLog, mishaps>>
    BY <1>6 DEF handleEndReached, list
  <2>2. /\ Key' = Key /\ Clean' = Clean /\ Good' = Good /\ EndSent' = EndSent
    BY <1>1, <2>1, ListSame
  <2>3. Waiting' = Waiting /\ Expecting' = Expecting
    BY <1>1, <2>2 DEF Waiting, Expecting
  <2>4. Good => Len(logs) = Available
    <3> SUFFICES ASSUME Good PROVE Len(logs) = Available
      OBVIOUS
    <3>1. Len(logs) <= Available
      BY ShownAvailable
    <3>2. CASE isLimit
      <4>1. Limit[staged] > 0 /\ Len(logs) >= Limit[staged]
        BY <3>2 DEF isLimit
      <4>2. Available <= Limit[staged] /\ Limit[staged] \in Nat
        BY <4>1, ResultFacts
      <4> QED BY <1>3, <3>1, <4>1, <4>2
    <3>3. CASE Len(logs) < PageSize
      <4>1. Len(logs) >= Smaller(PageSize, Available)
        BY <1>4
      <4>2. PageSize \in Int /\ Available \in Int /\ Len(logs) \in Int
        BY <1>3
      <4> QED BY <3>1, <3>3, <4>1, <4>2 DEF Smaller
    <3> QED BY <1>6, <3>2, <3>3
  <2>5. Beginning' /\ Asked'
    BY <1>1, <1>3, <2>1, <2>2, <2>3 DEF CompleteInv, Beginning, Asked, Smaller
  <2>6. Pages'
    BY <1>1, <1>2 DEF Pages
  <2>7. Sent'
    <3>1. Good /\ (request.page > 1 \/ Key = observed) => EndOk(EndSent)'
      BY <1>1, <1>3, <2>1, <2>2 DEF CompleteInv, Sent, EndOk
    <3>2. Good /\ Waiting /\ Key = observed /\ fetching # None =>
             EndOk(fetching.end)' /\ FromOk(fetching.from)' /\ fetching.from <= from
      BY <1>1, <1>3, <2>1, <2>2 DEF CompleteInv, Sent, EndOk, FromOk
    <3> QED BY <1>1, <2>1, <2>2, <2>3, <3>1, <3>2 DEF Sent
  <2>8. EndReached'
    <3>1. Good' => Gone(Len(logs))'
      <4>1. Good' => \A i \in Len(logs) + 1 .. Available : FALSE
        BY <1>3, <2>2, <2>4
      <4> QED BY <1>1, <1>3, <4>1 DEF Gone
    <3> QED BY <1>1, <1>5, <3>1 DEF EndReached
  <2>9. Fixed' /\ Settled'
    BY <1>1, <2>1, <2>2, <2>3 DEF CompleteInv, Fixed, Settled
  <2> QED BY <2>5, <2>6, <2>7, <2>8, <2>9 DEF CompleteInv
<1>7. CASE ~(isLimit \/ Len(logs) < PageSize)
  <2>1. /\ lastLog' = logs[Len(logs)].ts /\ request' = NextPage
        /\ mishaps' = mishaps \cup NextMishaps /\ ~isLimit
    BY <1>7 DEF handleEndReached
  <2>2. /\ request'.query = staged /\ request'.page = request.page + 1
        /\ request'.page > 1 /\ request'.page # 1
    BY <1>2, <2>1 DEF NextPage
  <2>3. Key' # observed' /\ Waiting' /\ Expecting'
    <3>1. Key'.request.page # observed.request.page
      BY <1>2, <2>1, <2>2 DEF Key
    <3> QED BY <1>1, <3>1 DEF Expecting, Waiting
  <2>4. Good' => Good /\ NextMishaps = {}
    BY <1>2, <2>1 DEF Good
  <2>5. logs[Len(logs)] \in Logs /\ Len(logs) >= 1
    BY <1>1, <1>3
  <2>6. Beginning'
    BY <1>1, <1>3, <1>4, <2>2, <2>4 DEF Beginning, Smaller
  <2>7. Asked'
    <3>1. Good' /\ Order[staged] = "other" => NextPage.offset = Len(logs)
      BY <2>4 DEF NextMishaps
    <3>2. Order[staged] # "other" => NextPage.after = logs[Len(logs)].id
      BY DEF NextPage
    <3> QED BY <1>1, <1>3, <2>1, <3>1, <3>2 DEF Asked
\* What is later than the time that is sent, and no later than the last log, is shown.
  <2>8. ASSUME Good, NextMishaps = {}, EndSent' # None,
               NEW i \in DOMAIN Result, Result[i].ts > EndSent'
        PROVE  i <= Len(logs)
    <3> SUFFICES ASSUME i > Len(logs) PROVE FALSE
      BY <1>3
    <3> DEFINE n == Len(logs)
    <3>1. /\ n \in DOMAIN Result /\ n < i
          /\ \A k \in DOMAIN logs : k \in DOMAIN Result /\ k < i /\ logs[k] = Result[k]
      <4>1. \A k \in 1 .. n : SubSeq(Result, 1, n)[k] = Result[k]
        BY <1>3, <1>4, <2>8
      <4> QED BY <1>3, <1>4, <2>5, <2>8, <4>1
    <3>2. logs[n] = Result[n]
      BY <1>3, <2>5, <3>1
    <3>3. Order[staged] = "desc" /\ EndSent' = Millisecond(logs[n].ts)
      BY <1>1, <2>1, <2>2, <2>8 DEF EndSent, Millisecond
    <3>4. Result[i] \in Logs /\ Result[i].ts <= logs[n].ts
      BY <1>3, <3>1, <3>2, <3>3, ResultOrder
    <3>5. Result[i].id \in {logs[k].id : k \in DOMAIN logs}
      BY <2>8, <3>3, <3>4 DEF NextMishaps
    <3>6. PICK k \in DOMAIN logs : Result[i].id = logs[k].id
      BY <3>5
    <3> QED BY <3>1, <3>6, ResultOrder
  <2>9. Sent'
    <3>1. EndSent' # None => Order[staged] = "desc"
      BY <1>1, <2>2 DEF EndSent
    <3>2. Good' => EndOk(EndSent)'
      BY <1>1, <1>3, <2>2, <2>4, <2>8, <3>1 DEF EndOk
    <3> QED BY <2>3, <3>2 DEF Sent
  <2>10. Pages'
    BY <1>1, <1>2 DEF Pages
  <2>11. EndReached'
    BY <1>5, <2>3 DEF EndReached
  <2>12. Fixed'
    BY <1>1, <1>2 DEF CompleteInv, Fixed
  <2>13. Settled'
    BY <2>3 DEF Settled
  <2> QED BY <2>6, <2>7, <2>9, <2>10, <2>11, <2>12, <2>13 DEF CompleteInv
<1> QED BY <1>6, <1>7

\* The list may report its end again, which it then has not.
LEMMA FormatCompletes ==
    ASSUME ListInv, CompleteInv, ChangeFormat
    PROVE  CompleteInv'
<1>1. /\ logs # <<>> /\ reached' = 0
      /\ UNCHANGED <<staged, range, request, logs, lastLog, minTimeRef, observed, fetching,
                     failed, data, seen, cache, from, mishaps>>
  BY DEF ChangeFormat, ListMounted, inputs, list, client
<1>2. /\ Key' = Key /\ Clean' = Clean /\ Good' = Good /\ EndSent' = EndSent
      /\ Result' = Result /\ Available' = Available
  BY <1>1, ListSame
<1>3. Waiting' = Waiting /\ Expecting' = Expecting
  BY <1>1, <1>2 DEF Waiting, Expecting
<1>4. Beginning' /\ Asked' /\ Pages'
  BY <1>1, <1>2, <1>3 DEF CompleteInv, Beginning, Asked, Pages, Following, Gone, Smaller
<1>5. Sent'
  BY <1>1, <1>2, <1>3 DEF CompleteInv, Sent, EndOk, FromOk
<1>6. EndReached'
  <2>1. Len(logs) \in Nat /\ Len(logs) # 0
    BY <1>1, ResultFacts
  <2> QED BY <1>1, <2>1 DEF EndReached
<1>7. Fixed' /\ Settled'
  BY <1>1, <1>2, <1>3 DEF CompleteInv, Fixed, Settled
<1> QED BY <1>4, <1>5, <1>6, <1>7 DEF CompleteInv

\* What is fetched again is the page that is waited for, from the times of before; or
\* what is shown, if nothing has moved.
LEMMA ReconnectCompletes ==
    ASSUME ListInv, CompleteInv, Reconnect
    PROVE  CompleteInv'
<1>1. /\ ~EffectsFire /\ fetching' = ParamsSent /\ from' = ParamsSent.from
      /\ failed' = FALSE /\ mishaps' = mishaps \cup RefetchMishaps
      /\ UNCHANGED <<staged, range, request, logs, lastLog, minTimeRef, observed, data,
                     seen, cache, reached>>
  BY DEF Reconnect, UserStep, inputs, list
<1>2. /\ Clean /\ Key = observed /\ data = seen /\ DataShown = data
      /\ request.page \in Nat \ {0} /\ request.query = staged
  BY <1>1, RestFacts, CleanFacts
<1>3. /\ Key' = Key /\ Clean' = Clean /\ EndSent' = EndSent
      /\ Result' = Result /\ Available' = Available
      /\ Waiting' = Waiting /\ Expecting' = Expecting
  BY <1>1 DEF Key, Clean, ResetNeeded, EndSent, Millisecond, Result, Available, Smaller,
              Waiting, Expecting
<1>4. /\ ParamsSent # None /\ ParamsSent.end = EndSent /\ ParamsSent.from \in Nat
      /\ ParamsSent.from = (IF request.page = 1 THEN 0 ELSE from)
  BY SentFacts
<1>5. Good' => Good /\ RefetchMishaps = {}
  BY <1>1, <1>3 DEF Good
<1>6. Beginning' /\ Asked' /\ Pages'
  BY <1>1, <1>2, <1>3, <1>5 DEF CompleteInv, Beginning, Asked, Pages, Smaller
<1>7. Sent'
  <2> SUFFICES ASSUME Good' PROVE EndOk(EndSent)' /\ FromOk(fetching.from)'
    BY <1>1, <1>3, <1>4 DEF Sent, EndOk
  <2>1. EndOk(EndSent)
    BY <1>2, <1>5 DEF CompleteInv, Sent
  <2>2. EndOk(EndSent)'
    BY <1>1, <1>3, <2>1 DEF EndOk
  <2>3. \A i \in DOMAIN Result : Result[i].ts \in Nat
    BY ResultFacts
  <2>4. FromOk(ParamsSent.from)
    <3>1. CASE request.page = 1
      <4>1. ParamsSent.from = 0
        BY <1>4, <3>1
      <4>2. \A i \in DOMAIN Result : Result[i].ts >= 0 /\ ~(Result[i].ts < 0)
        BY <2>3
      <4> QED BY <4>1, <4>2 DEF FromOk
    <3>2. CASE request.page > 1
      <4>1. ~RangeMoved
        BY <1>5, <3>2 DEF RefetchMishaps
      <4>2. \A i \in DOMAIN Result : Result[i].ts < ParamsSent.from =>
               Order[staged] # "other" /\ (Order[staged] = "asc" => ~(i > Len(logs)))
        BY <1>2, <4>1 DEF RangeMoved, Result
      <4>3. \A i \in DOMAIN Result : ~(i > Len(logs)) => i <= Len(logs)
        BY ResultFacts
      <4>4. \A i \in DOMAIN Result : ~(Result[i].ts < ParamsSent.from) =>
               Result[i].ts >= ParamsSent.from
        BY <1>4, <2>3
      <4>5. request.page # 1
        BY <3>2
      <4> QED BY <4>2, <4>3, <4>4, <4>5 DEF FromOk
    <3> QED BY <1>2, <3>1, <3>2
  <2>5. FromOk(fetching.from)'
    BY <1>1, <1>3, <2>4 DEF FromOk
  <2> QED BY <2>2, <2>5
<1>8. EndReached'
  <2>1. reached' \in 0 .. Len(logs')
    BY <1>1 DEF CompleteInv, EndReached
  <2> SUFFICES ASSUME Good', ~Expecting, reached = Len(logs) PROVE Gone(Len(logs))'
    BY <1>1, <1>3, <2>1 DEF EndReached
  <2>2. Gone(Len(logs))
    BY <1>5 DEF CompleteInv, EndReached
  <2>3. data # None /\ data.key = Key /\ data.key = observed
    BY <1>2 DEF Expecting, Waiting
  <2>4. data.params = ParamsSent
    BY <1>5, <2>3 DEF RefetchMishaps
  <2>5. range \notin Relative
    <3> SUFFICES ASSUME range \in Relative PROVE FALSE
      OBVIOUS
    <3>1. ParamsSent.turn = 1 - data.params.turn
      BY <1>2, <2>3 DEF ParamsSent
    <3>2. data.params.turn \in {0, 1}
      BY <1>2, <2>3, ShownFacts DEF Params
    <3> QED BY <2>4, <3>1, <3>2
  <2>6. from = 0 /\ ParamsSent.from = 0
    BY <1>2, <1>4, <2>5 DEF CompleteInv, Fixed
  <2> QED BY <1>1, <1>3, <2>2, <2>6 DEF Gone
<1>9. Fixed'
  <2>1. range \notin Relative => ParamsSent.from = 0
    BY <1>2, <1>4 DEF CompleteInv, Fixed
  <2> QED BY <1>1, <2>1 DEF Fixed
<1>10. Settled'
  BY <1>1, <1>4 DEF Settled
<1> QED BY <1>6, <1>7, <1>8, <1>9, <1>10 DEF CompleteInv

\* What has left the range does not come back to it.
LEMMA PassCompletes ==
    ASSUME ListInv, CompleteInv, Pass
    PROVE  CompleteInv'
<1>1. /\ range \in Relative
      /\ UNCHANGED <<staged, range, request, logs, lastLog, minTimeRef, observed, fetching,
                     failed, data, seen, cache, reached, mishaps>>
  BY DEF Pass, inputs, list, client
<1>2. from \in Nat /\ from' \in Nat /\ from < from'
  <2>1. PICK i \in DOMAIN Result : from <= Result[i].ts /\ from' = Result[i].ts + 1
    BY DEF Pass, Result
  <2>2. Result[i].ts \in Nat /\ from \in Nat
    BY ResultFacts
  <2> QED BY <2>1, <2>2
<1>3. /\ Key' = Key /\ Clean' = Clean /\ Good' = Good /\ EndSent' = EndSent
      /\ Result' = Result /\ Available' = Available
  BY <1>1, ListSame
<1>4. Waiting' = Waiting /\ Expecting' = Expecting
  BY <1>1, <1>3 DEF Waiting, Expecting
<1>5. ASSUME NEW n \in Nat, Gone(n)
      PROVE  Gone(n)' /\ \A i \in n + 1 .. Available : Result[i].ts < from'
  <2>1. \A i \in n + 1 .. Available : i \in DOMAIN Result
    BY ResultFacts
  <2>2. \A i \in n + 1 .. Available : Result[i].ts \in Nat /\ Result[i].ts < from
    BY <1>5, <2>1, ResultFacts DEF Gone
  <2>3. \A i \in n + 1 .. Available : Result[i].ts < from'
    BY <1>2, <2>2
  <2> QED BY <1>3, <2>3 DEF Gone
<1>6. Beginning' /\ Asked'
  BY <1>1, <1>3, <1>4 DEF CompleteInv, Beginning, Asked, Smaller
<1>7. Pages'
  <2> SUFFICES ASSUME Good, data # seen, data # None PROVE Following(data.rows)'
    BY <1>1, <1>3 DEF Pages
  <2>1. PICK last \in Len(logs) .. Len(Result) :
          /\ data.rows = SubSeq(Result, Len(logs) + 1, last)
          /\ last = Len(logs) => Gone(last)
          /\ request.page = 1 => last >= Smaller(PageSize, Available)
    BY DEF CompleteInv, Pages, Following
  <2>2. last \in Nat
    BY <2>1, ResultFacts
  <2>3. last = Len(logs) => Gone(last)'
    BY <1>5, <2>1, <2>2
  <2> QED BY <1>1, <1>3, <2>1, <2>3 DEF Following, Smaller
<1>8. Sent'
  <2>1. Good /\ (request.page > 1 \/ Key = observed) => EndOk(EndSent)'
    BY <1>1, <1>3 DEF CompleteInv, Sent, EndOk
  <2>2. Good /\ Waiting /\ Key = observed /\ fetching # None =>
           EndOk(fetching.end)' /\ FromOk(fetching.from)' /\ fetching.from <= from'
    <3> SUFFICES ASSUME Good, Waiting, Key = observed, fetching # None
                 PROVE  EndOk(fetching.end)' /\ FromOk(fetching.from)' /\ fetching.from <= from'
      OBVIOUS
    <3>1. EndOk(fetching.end) /\ FromOk(fetching.from) /\ fetching.from <= from
      BY DEF CompleteInv, Sent
    <3>2. fetching.from \in Nat
      BY DEF ListInv, Shapes, Params
    <3>3. fetching.from <= from'
      BY <1>2, <3>1, <3>2
    <3> QED BY <1>1, <1>3, <3>1, <3>3 DEF EndOk, FromOk
  <2> QED BY <1>1, <1>3, <1>4, <2>1, <2>2 DEF Sent
<1>9. EndReached'
  <2>1. Len(logs) \in Nat
    BY ResultFacts
  <2>2. reached' \in 0 .. Len(logs')
    BY <1>1 DEF CompleteInv, EndReached
  <2> SUFFICES ASSUME Good, ~Expecting, reached = Len(logs) PROVE Gone(Len(logs))'
    BY <1>1, <1>3, <1>4, <2>2 DEF EndReached
  <2>3. Gone(Len(logs))
    BY DEF CompleteInv, EndReached
  <2> DEFINE n == Len(logs)
  <2>4. Gone(n) /\ n \in Nat
    BY <2>1, <2>3
  <2>5. n' = n
    BY <1>1
  <2> HIDE DEF n
  <2>6. \A i \in n + 1 .. Available : Result[i].ts < from'
    BY <1>3, <1>5, <2>4 DEF Gone
  <2> QED BY <1>1, <1>3, <2>5, <2>6 DEF Gone, n
<1>10. Fixed' /\ Settled'
  BY <1>1, <1>3, <1>4 DEF CompleteInv, Fixed, Settled
<1> QED BY <1>6, <1>7, <1>8, <1>9, <1>10 DEF CompleteInv

LEMMA StutterCompletes ==
    ASSUME CompleteInv, UNCHANGED vars
    PROVE  CompleteInv'
<1>1. UNCHANGED <<staged, range, request, logs, lastLog, minTimeRef, observed, fetching,
                  failed, data, seen, cache, from, reached, mishaps>>
  BY DEF vars, inputs, list, client
<1>2. /\ Key' = Key /\ Clean' = Clean /\ Good' = Good /\ EndSent' = EndSent
      /\ Result' = Result /\ Available' = Available
  BY <1>1, ListSame
<1>3. Waiting' = Waiting /\ Expecting' = Expecting
  BY <1>1, <1>2 DEF Waiting, Expecting
<1>4. Beginning' /\ Asked' /\ Pages' /\ EndReached'
  BY <1>1, <1>2, <1>3
     DEF CompleteInv, Beginning, Asked, Pages, Following, Gone, EndReached, Smaller
<1>5. Sent' /\ Fixed' /\ Settled'
  BY <1>1, <1>2, <1>3 DEF CompleteInv, Sent, EndOk, FromOk, Fixed, Settled
<1> QED BY <1>4, <1>5 DEF CompleteInv

LEMMA NextComplete == ListInv /\ CompleteInv /\ [Next]_vars => CompleteInv'
<1> SUFFICES ASSUME ListInv, CompleteInv, [Next]_vars PROVE CompleteInv'
  OBVIOUS
<1>1. CASE Flush
  BY <1>1, ResetCompletes, AppendCompletes DEF Clean
<1>2. CASE Succeed
  BY <1>2, SucceedCompletes
<1>3. CASE Fail
  BY <1>3, FailCompletes
<1>4. CASE (\E q \in Queries : Stage(q)) \/ (\E r \in Ranges : SelectRange(r))
  BY <1>4, InputCompletes
<1>5. CASE handleEndReached
  BY <1>5, EndReachedCompletes
<1>6. CASE ChangeFormat
  BY <1>6, FormatCompletes
<1>7. CASE Reconnect
  BY <1>7, ReconnectCompletes
<1>8. CASE Pass
  BY <1>8, PassCompletes
<1>9. CASE UNCHANGED vars
  BY <1>9, StutterCompletes
<1> QED BY <1>1, <1>2, <1>3, <1>4, <1>5, <1>6, <1>7, <1>8, <1>9 DEF Next

LEMMA RestComplete == ListInv /\ CompleteInv => PagesComplete
<1> SUFFICES ASSUME ListInv, CompleteInv, Idle, mishaps = {}
             PROVE  /\ Len(logs) >= Smaller(PageSize, Available) /\ Len(logs) <= Available
                    /\ logs = SubSeq(Found[staged][range], 1, Len(logs))
                    /\ reached = Len(logs) =>
                          \A i \in Len(logs) + 1 .. Available : Found[staged][range][i].ts < from
  BY DEF PagesComplete
<1>1. Clean /\ Key = observed /\ data = seen
  BY RestFacts DEF Idle
<1>2. ~Waiting
  BY <1>1 DEF CompleteInv, Settled, Idle
<1>3. Good /\ ~Expecting
  BY <1>1, <1>2 DEF Good, Expecting
<1> QED BY <1>3, ShownAvailable DEF CompleteInv, Beginning, EndReached, Gone, Result

\* Whatever was staged, selected, late, failed, cached or fetched again: when nothing is
\* on its way the logs list is the logs of the staged query and the selected range from
\* the first one on, without gaps or repeats, and, when its end was reached, all of them
\* but what has left a relative range; unless one of the six mishaps that the history
\* names has happened.
THEOREM PagesCompleteHolds == Spec => []PagesComplete
<1>1. Init => ListInv /\ CompleteInv
  BY InitList, InitComplete
<1>2. ListInv /\ CompleteInv /\ [Next]_vars => (ListInv /\ CompleteInv)'
  BY NextList, NextComplete
<1>3. Spec => [](ListInv /\ CompleteInv)
  BY <1>1, <1>2, PTL DEF Spec
<1> QED BY <1>3, RestComplete, PTL
=============================================================================

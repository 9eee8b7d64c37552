----------------------------- MODULE QueryPageMC -----------------------------
(* Instances of QueryPage for TLC: a menu entry without a query, a bookmark *)
(* with two queries, an old bookmark that lacks fields, a panel, an old     *)
(* panel that lacks fields, a panel that is a list, and a page without a    *)
(* builder.                                                                 *)
EXTENDS QueryPage

CONSTANTS traces, editor, dashboards, sum, noop, count, all, some

Item(name, operator, filters) ==
    [name |-> name, operator |-> operator, filters |-> filters]

TwoItems == <<Item(2, sum, all), Item(1, Count, some)>>
OneItem == <<Item(2, sum, all)>>
ListItem == <<Item(1, Noop, some)>>

Link(path, list, id, items, valid) ==
    [path |-> path, list |-> list,
     query |-> [id |-> id, items |-> items, valid |-> valid]]

Menu(path) == [path |-> path, list |-> FALSE, query |-> None]

MCLinks == {Menu(traces), Menu(dashboards),
            Link(traces, FALSE, 2, TwoItems, TRUE), Link(traces, FALSE, 3, OneItem, FALSE),
            Link(editor, FALSE, 4, TwoItems, TRUE), Link(editor, FALSE, 5, OneItem, FALSE),
            Link(editor, TRUE, 6, ListItem, TRUE)}
=============================================================================

------------------------------ MODULE ListPage ------------------------------
(***************************************************************************)
(* The listing pages of the frontend: History, Templates, ModelConfigs,    *)
(* LlmProviders.  fetchList runs when the page (or filter) changes and     *)
(* after each deletion or adoption; answers come in any order.             *)
(***************************************************************************)
EXTENDS Naturals, SequencesExt

CONSTANTS Pages,        \* the pages (a filter is asked for in the same way)
          Rows,         \* the rows of the table when the page opens: their ids
          PageSize,
          MaxFetches    \* bound: fetches under way
ASSUME ListPageAssumption ==
  /\ Pages \cup Rows \subseteq Nat /\ IsFiniteSet(Rows)
  /\ PageSize \in Nat \ {0} /\ MaxFetches \in Nat \ {0}

VARIABLES table,        \* rows in the database
          page,         \* the page state of the component
          items,        \* the list state, and the fetch it came from
          fetches,      \* fetches under way: [of, read, answer, overtaken, refresh]
          deletions,    \* deletions awaited: [row, of, done], of the page of the closure
          givenUp,      \* the rows the page said it could not delete
          spinning,     \* loading
          failed        \* a fetch failed since the last list was shown
listVars == <<table, page, items, fetches, deletions, givenUp, spinning, failed>>

\* The newest rows come first.
PageOf(held, p) == {r \in held : Cardinality({q \in held : q > r}) \div PageSize = p - 1}
Listed(p) == PageOf(table, p)
\* An answer counts as overtaken once a fetch that was sent later is answered.
Fetch(p, refresh) ==
  [of |-> p, read |-> FALSE, answer |-> {}, overtaken |-> FALSE, refresh |-> refresh]
Ask(p, refresh) ==
  Len(fetches) < MaxFetches /\ fetches' = Append(fetches, Fetch(p, refresh))

ListInit ==
  /\ table = Rows /\ deletions = {} /\ givenUp = {} /\ spinning = TRUE /\ failed = FALSE
  /\ page \in Pages /\ items = Fetch(page, FALSE)
  /\ fetches = <<Fetch(page, FALSE)>>

\* Faulty variant: the effect does not depend on the page.
TurnOnly(p) ==
  /\ p # page /\ page' = p
  /\ UNCHANGED <<table, items, fetches, deletions, givenUp, spinning, failed>>
\* setPage, setCategory or setSearch makes a new fetchList, and the effect runs it.
Turn(p) ==
  /\ p # page /\ page' = p
  /\ Ask(p, FALSE) /\ spinning' = TRUE
  /\ UNCHANGED <<table, items, deletions, givenUp, failed>>

\* The backend reads the page.
Read(i) ==
  /\ ~fetches[i].read
  /\ fetches' = [fetches EXCEPT ![i].answer = Listed(fetches[i].of), ![i].read = TRUE]
  /\ UNCHANGED <<table, page, items, deletions, givenUp, spinning, failed>>

Without(i) == RemoveAt([j \in 1..Len(fetches) |->
                IF j < i THEN [fetches[j] EXCEPT !.overtaken = TRUE] ELSE fetches[j]], i)
\* setItems with whatever answer comes; the first answer stops the spinner.
Show(i) ==
  /\ fetches[i].read
  /\ items' = fetches[i] /\ fetches' = Without(i)
  /\ spinning' = FALSE /\ failed' = FALSE
  /\ UNCHANGED <<table, page, deletions, givenUp>>
FetchFails(i) ==
  /\ fetches' = Without(i)
  /\ spinning' = FALSE /\ failed' = TRUE
  /\ UNCHANGED <<table, page, items, deletions, givenUp>>

\* handleDelete: the request, and when it is answered, the fetchList of the
\* render in which the button was pressed, for the page of that time.  (Bound:
\* one awaited deletion of a row.)
Delete(r) ==
  /\ r \in items.answer /\ \A d \in deletions : d.row # r
  /\ deletions' = deletions \cup {[row |-> r, of |-> page, done |-> FALSE]}
  /\ UNCHANGED <<table, page, items, fetches, givenUp, spinning, failed>>
DeleteRow(d) ==
  /\ ~d.done /\ d.row \in table
  /\ table' = table \ {d.row}
  /\ deletions' = (deletions \ {d}) \cup {[d EXCEPT !.done = TRUE]}
  /\ UNCHANGED <<page, items, fetches, givenUp, spinning, failed>>
\* Faulty variant: the list is not fetched again.
DeletedOnly(d) ==
  /\ d.done /\ deletions' = deletions \ {d}
  /\ UNCHANGED <<table, page, items, fetches, givenUp, spinning, failed>>
Deleted(d) ==
  /\ d.done /\ deletions' = deletions \ {d}
  /\ Ask(d.of, TRUE) /\ spinning' = TRUE
  /\ UNCHANGED <<table, page, items, givenUp, failed>>
\* The catch of handleDelete: the row was gone already, the statement failed, or
\* no answer came in time, before the statement or after it.  Nothing is fetched.
DeleteFails(d) ==
  /\ deletions' = deletions \ {d} /\ givenUp' = givenUp \cup {d.row}
  /\ UNCHANGED <<table, page, items, fetches, spinning, failed>>
\* A request that is not awaited any more is still carried out.
DeleteLate(r) ==
  /\ r \in givenUp \cap table /\ table' = table \ {r}
  /\ UNCHANGED <<page, items, fetches, deletions, givenUp, spinning, failed>>

ListNext ==
  \/ \E p \in Pages : Turn(p)
  \/ \E i \in 1..Len(fetches) : Read(i) \/ Show(i) \/ FetchFails(i)
  \/ \E r \in Rows : Delete(r) \/ DeleteLate(r)
  \/ \E d \in deletions : DeleteRow(d) \/ Deleted(d) \/ DeleteFails(d)
ListSpec == ListInit /\ [][ListNext]_listVars

ListTypeOK ==
  /\ table \subseteq Rows /\ page \in Pages /\ spinning \in BOOLEAN /\ failed \in BOOLEAN
  /\ Len(fetches) <= MaxFetches /\ givenUp \subseteq Rows
  /\ \A d \in deletions : d.row \in Rows /\ d.of \in Pages

\* When nothing is awaited and the last list shown came in order, it is the page
\* of what the database holds, together with rows of which the page said that
\* deleting them failed: a row that is gone is shown for no other reason (this
\* page is the only one that deletes).  The other exceptions are an overtaken or
\* failed answer, and the refresh after a deletion, which asks for the page the
\* button was pressed on (fetchList, handleDelete).
QuietListIsTrue ==
  fetches = <<>> /\ deletions = {} /\ items.read /\ ~failed /\ ~items.overtaken =>
    /\ \E gone \in SUBSET givenUp : items.answer = PageOf(table \cup gone, items.of)
    /\ items.of = page \/ items.refresh
=============================================================================

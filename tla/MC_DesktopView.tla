--------------------------- MODULE MC_DesktopView ---------------------------
\* DesktopView with two sessions of an earlier run, and sessions that end in
\* another order than they began, differ in method and fail or not.
EXTENDS DesktopView

Get == 2
Post == 3
Host == 4

MCSession ==
    [n \in Earlier \cup 1..MaxEvents |->
        [started   |-> IF n \in Earlier THEN n ELSE 10 - n,
         method    |-> IF n = 1 THEN Post ELSE Get,
         host      |-> IF n = 1 THEN None ELSE Host,
         hostParts |-> {0, Host},
         words     |-> {0},
         status    |-> 200,
         state     |-> IF n = 2 THEN "failed" ELSE "completed",
         duration  |-> IF n = 0 THEN None ELSE 7 * n]]

CONSTANT GetFilter   \* the name of the filter with method "get"

MCEmptyFilter == [keyword |-> 0, method |-> 0, status |-> None, host |-> 0,
                  onlyFailed |-> FALSE, onlyMocked |-> FALSE]

MCFilter == [f \in {NoFilter, GetFilter} |->
                IF f = NoFilter THEN MCEmptyFilter ELSE [MCEmptyFilter EXCEPT !.method = Get]]
=============================================================================

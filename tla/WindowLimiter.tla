--------------------------- MODULE WindowLimiter ---------------------------
(***************************************************************************)
(* The limiters every instance shares                                      *)
(* (src/internal/platform/ratelimit/database.go): a row of the table per   *)
(* limiter, key and window of the clock.  An attempt counts itself in one  *)
(* statement and, when it opened the window, forgets the limiter's passed  *)
(* windows in a second one.  Instances' clocks differ a little, and an     *)
(* attempt may reach the database some time after it read its own.         *)
(***************************************************************************)
EXTENDS Clock, Functions

CONSTANTS
  Attempts,   \* requests that may be between their two statements at once
  Limiters,   \* the limiters' names
  Keys,       \* the subjects they limit
  Limit,      \* attempts a window allows, by limiter
  Window,     \* ticks a window lasts, by limiter
  Late        \* how far behind the clock an attempt's own time may be

ASSUME WindowAssumption ==
  /\ Limit \in [Limiters -> Nat \ {0}] /\ Window \in [Limiters -> Nat \ {0}]
  /\ Late \in Nat /\ \A l \in Limiters : Late <= Window[l]

VARIABLES
  rows,       \* hits, by limiter, key and the window's start
  sweeping,   \* attempts that opened a window: the row they opened
  passed,     \* attempts allowed, by limiter, key and window: of the windows
              \* an attempt may still belong to
  swept       \* the latest window whose opening forgot the passed ones, by limiter

windowVars == <<rows, sweeping, passed, swept>>

Rows == Limiters \X Keys \X Int

WindowInit ==
  /\ rows = << >>
  /\ sweeping = << >>
  /\ passed = << >>
  /\ swept = [l \in Limiters |-> 0]

\* The window a moment belongs to: Truncate.
Start(l, moment) == (moment \div Window[l]) * Window[l]

Count(f, x) == IF x \in DOMAIN f THEN f[x] ELSE 0
More(f, x)  == [y \in DOMAIN f \union {x} |-> IF y = x THEN Count(f, x) + 1 ELSE f[y]]

\* The upsert.  The first hit of a window is allowed only once it has swept.
\* Past the limit a row is counted no further: the answer is the same.
Hit(a, l, k) ==
  /\ a \notin DOMAIN sweeping
  /\ \E late \in 0..Late :
       /\ late <= now
       /\ LET row == <<l, k, Start(l, now - late)>>
          IN /\ rows' = IF Count(rows, row) > Limit[l] THEN rows ELSE More(rows, row)
             /\ IF rows'[row] = 1
                THEN /\ sweeping' = [b \in DOMAIN sweeping \union {a} |->
                                       IF b = a THEN row ELSE sweeping[b]]
                     /\ UNCHANGED passed
                ELSE /\ passed' = IF rows'[row] > Limit[l] THEN passed ELSE More(passed, row)
                     /\ UNCHANGED sweeping
  /\ UNCHANGED <<now, swept>>

\* Every limiter's rows, by one limiter's window.
Passed_Everyones(l, start) == {row \in DOMAIN rows : row[3] < start - Window[l]}

\* The limiter's rows a new window's opening forgets.
Passed(l, start) == {row \in DOMAIN rows : row[1] = l /\ row[3] < start - Window[l]}

Sweep(a) ==
  /\ a \in DOMAIN sweeping
  /\ LET row == sweeping[a]
     IN /\ rows' = Restrict(rows, DOMAIN rows \ Passed(row[1], row[3]))
        /\ passed' = More(passed, row)
        /\ swept' = [swept EXCEPT ![row[1]] = IF row[3] > @ THEN row[3] ELSE @]
  /\ sweeping' = Restrict(sweeping, DOMAIN sweeping \ {a})
  /\ UNCHANGED now

\* A limiter that fails does not allow; the process may end as well.
SweepFails(a) ==
  /\ a \in DOMAIN sweeping
  /\ sweeping' = Restrict(sweeping, DOMAIN sweeping \ {a})
  /\ UNCHANGED <<now, rows, passed, swept>>

\* The windows over too long for any attempt to belong to are counted no more.
WindowTick ==
  /\ Passes
  /\ LET reached(row) == row[3] + Window[row[1]] + Late > now' \/ \E a \in DOMAIN sweeping : sweeping[a] = row
     IN passed' = Restrict(passed, {row \in DOMAIN passed : reached(row)})
  /\ UNCHANGED <<rows, sweeping, swept>>

WindowNext ==
  \/ WindowTick
  \/ \E a \in Attempts :
       \/ \E l \in Limiters, k \in Keys : Hit(a, l, k)
       \/ Sweep(a)
       \/ SweepFails(a)

WindowSpec == now = 0 /\ WindowInit /\ [][WindowNext]_<<now, windowVars>>

\* No window of any limiter lets through more than its limit, whoever sweeps
\* meanwhile: another window's opening, another limiter, a late attempt.
WithinLimit == \A row \in DOMAIN passed : passed[row] <= Limit[row[1]]

\* The table does not grow with time: once a window's opening has swept, of
\* the limiter's rows only that window's, the one before's and later ones stay.
PastForgotten == \A row \in DOMAIN rows : row[3] >= swept[row[1]] - Window[row[1]]

LimitsHold == WithinLimit /\ PastForgotten
=============================================================================

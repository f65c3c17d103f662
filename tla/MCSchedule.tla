----------------------------- MODULE MCSchedule -----------------------------
(* Small instances of Schedule.                                            *)
EXTENDS Schedule, TLC

CONSTANTS even, odd, never

\* Times 2, 4, 6 ..., times 1, 3, 5 ..., and an expression such as
\* "0 0 31 2 *", which croniter accepts and finds no date for.
EvenOrOdd ==
    [c \in Cron |-> [t \in Clock |->
        CASE c = even -> 2 * (t \div 2) + 2
          [] c = odd -> 2 * ((t + 1) \div 2) + 1
          [] OTHER -> NoTime]]
=============================================================================

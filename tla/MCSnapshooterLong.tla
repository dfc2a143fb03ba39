------------------------- MODULE MCSnapshooterLong -------------------------
EXTENDS Snapshooter

WidthTwo == <<4, 12>>

PolicyTwo == {<<2, 3>>}

\* A snapshot at every hour before the first boot, as far back as the policy asks for.
HistoryHourly == {{t \in 1..(Start - 1) : t % Hour = 0}}

\* The program is started at once and its operations take no time.
Undisturbed == now' # now => pc = "idle"
UndisturbedSpec == Init /\ [][Next /\ Undisturbed]_vars
=============================================================================

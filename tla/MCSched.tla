------------------------------- MODULE MCSched -------------------------------
\* init and one other task besides task 0, one tick to the second.
EXTENDS Sched

\* The arguments of sys_nice and sys_alarm.
OneUpOrDown == {-1, 1}
CancelOrOne == {0, 1}

=============================================================================

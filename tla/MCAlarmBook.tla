------------------------------ MODULE MCAlarmBook ------------------------------
(* Model checking instance of AlarmBook: two alarm types, shelves of one or  *)
(* two minutes, the default, and one request long enough to overflow.        *)
EXTENDS AlarmBook

MCMinuteInputs == {0, 1, 3}

================================================================================

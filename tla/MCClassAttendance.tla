------------------------- MODULE MCClassAttendance -------------------------
(* ClassAttendance for two threads and one earlier class that the student  *)
(* attended.                                                               *)
EXTENDS ClassAttendance

MCPriorClasses == <<TRUE>>
=============================================================================

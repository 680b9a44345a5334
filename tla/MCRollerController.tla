-------------------------- MODULE MCRollerController --------------------------
(* Two rollers with topics of their own and the common topic; the smallest *)
(* time-out that one tick inside a call does not exhaust.                  *)
EXTENDS RollerController

CONSTANTS r1, r2, t1, t2, all

MCRollers == {r1, r2}
MCTab     == <<r1, r2>>
MCTopics  == {t1, t2, all}
MCTopicOf == [r \in MCRollers |-> IF r = r1 THEN t1 ELSE t2]
=============================================================================

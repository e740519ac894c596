------------------------ MODULE MCSigkillRetirement ------------------------
(* Three processes: thread 1, threads 2 and 3, and thread 4. *)
EXTENDS SigkillRetirement

ThreeProcesses == [t \in Threads |-> IF t \in {1} THEN 1 ELSE IF t \in {2, 3} THEN 2 ELSE 4]

OneTwoOrOwn == {{2}, {2, 4}, {1, 2}}
=============================================================================

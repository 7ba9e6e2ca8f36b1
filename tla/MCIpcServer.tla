----------------------------- MODULE MCIpcServer -----------------------------
(* A topic of each overflow policy, and room for one lag on each.           *)
EXTENDS IpcServer

MCOverflow == [t \in {"alert", "events"} |->
                  IF t = "alert" THEN "DropClientOnLag" ELSE "ReportDropAndContinue"]
=============================================================================

----------------------------- MODULE FatalError -----------------------------
(***************************************************************************)
(* error_handling.hpp and error_handling.cpp: the one path every component *)
(* takes when it meets an error it cannot handle.  FATAL_ERROR and ASSERT  *)
(* first release the performance monitoring unit (PMU) and then call the   *)
(* installed handler.  The default handler terminates the process; a       *)
(* handler installed with setDefaultErrorHandler may return, and then the  *)
(* code after the FATAL_ERROR runs as if nothing had happened.             *)
(*                                                                         *)
(* The module keeps that state and offers the operations as action         *)
(* formulas; the components' modules use them inside their own actions.    *)
(***************************************************************************)

VARIABLES
  handler,     \* g_fatalErrorHandler: "default", or "custom", one that returns
  status,      \* the process: "running", "terminated" or "undefined"
  programmed,  \* the PMU counts the events this process programmed
  raised       \* history: the fatal error path has been taken

errorVars == <<handler, status, programmed, raised>>

ErrorTypeOK ==
  /\ handler \in {"default", "custom"}
  /\ status \in {"running", "terminated", "undefined"}
  /\ programmed \in BOOLEAN
  /\ raised \in BOOLEAN

ErrorInit ==
  /\ handler = "default"
  /\ status = "running"
  /\ raised = FALSE

setDefaultErrorHandler ==
  /\ handler' = "custom"
  /\ UNCHANGED <<status, programmed, raised>>

resetDefaultErrorHandler ==
  /\ handler' = "default"
  /\ UNCHANGED <<status, programmed, raised>>

(* PCM::cleanup() on the singleton: this process's counters stop.          *)
runOnFatalError == programmed' = FALSE

HandlerReturns == handler = "custom"

(* What a FATAL_ERROR leaves behind.  `after' is the status of a process   *)
(* that executes the rest of the caller's code once a handler returned:    *)
(* "running", or "undefined" when that code has no defined behaviour.      *)
handleFatalError(after) ==
  /\ runOnFatalError
  /\ raised' = TRUE
  /\ status' = IF HandlerReturns THEN after ELSE "terminated"
  /\ UNCHANGED handler
=============================================================================

------------------------------ MODULE MCPyAudit ------------------------------
(* Small instances of PyAudit for TLC. *)
EXTENDS PyAudit

MCJobs == [writes : BOOLEAN, calls : {1}, consent : {"given", "ask", "refused"},
           dry : BOOLEAN]

MCOperations == {Call1("read", FALSE, 0), Call1("write", TRUE, 0),
                 Call1("write", FALSE, 0), Call1("dry_run", FALSE, 0)}
=============================================================================

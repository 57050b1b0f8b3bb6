------------------------------ MODULE ToolServer ------------------------------
(***************************************************************************)
(* A tool call as the MCP server sees it (mcp/server.ts): the tool is      *)
(* looked up, executed, and its result narrowed to a response.  A          *)
(* behaviour runs one call of bash, one call of grep, find or ls, requests *)
(* on one file, or the sandbox backend under its calls; tools share no     *)
(* state of the server beyond the backend, so their steps are not          *)
(* interleaved with each other here.                                       *)
(***************************************************************************)
EXTENDS BashTool, SearchTools, FileTools, DelegatingBackend

CONSTANT ResponseCap   \* MAX_RESPONSE_BYTES, in units of the model

VARIABLES called,      \* the tool of this behaviour
          response     \* what the request was answered with

toolVars == <<bashVars, searchVars, fileVars, gateVars, called, response>>

Called == {"bash", "search", "file", "sandbox"}

NoResponse == [isError |-> FALSE, size |-> 0, sent |-> FALSE]

ToolInit ==
  /\ BashInit /\ SearchInit /\ FileInit /\ GateInit
  /\ called \in Called \cup {"unknown"}
  /\ (called # "search" => query = [tool |-> "ls", backend |-> "local", limit |-> 1, tags |-> <<>>])
  /\ (called # "bash" => kind = "local")
  /\ response = NoResponse

\* The one place where a Result becomes a response; one over the cap is replaced.
Narrow(ok, size) ==
  IF ~ok THEN [isError |-> TRUE, size |-> 0, sent |-> TRUE]
  ELSE [isError |-> FALSE, size |-> IF size > ResponseCap THEN 0 ELSE size, sent |-> TRUE]

\* Whether the called tool has a result, and which.
HasResult == \/ called = "bash" /\ bash = "done"
             \/ called = "search" /\ search = "done"
             \/ called = "file" /\ (editor.pc \in {"done", "refused"} \/ (job = "paging" /\ reader.next = 0))
             \/ called = "unknown"

ResultOk == \/ called = "bash" /\ answer.ok
            \/ called = "search" /\ reply.ok
            \/ called = "file" /\ editor.pc # "refused"

ResultSize == CASE called = "bash" -> Len(answer.text)
                [] called = "search" -> Len(reply.rows)
                [] OTHER -> 0

CallTool ==
  /\ HasResult /\ ~response.sent
  /\ response' = Narrow(ResultOk, ResultSize)
  /\ UNCHANGED <<bashVars, searchVars, fileVars, gateVars, called>>

ToolNext ==
  \/ called = "bash" /\ BashNext /\ UNCHANGED <<searchVars, fileVars, gateVars, called, response>>
  \/ called = "search" /\ SearchNext /\ UNCHANGED <<bashVars, fileVars, gateVars, called, response>>
  \/ called = "file" /\ FileNext /\ UNCHANGED <<bashVars, searchVars, gateVars, called, response>>
  \/ called = "sandbox" /\ GateNext /\ UNCHANGED <<bashVars, searchVars, fileVars, called, response>>
  \/ CallTool

ToolSpec == ToolInit /\ [][ToolNext]_toolVars

-----------------------------------------------------------------------------

TypeOK ==
  /\ BashTypeOK
  /\ search \in {"idle", "running", "flushing", "listing", "done"}
  /\ Len(found) <= SearchLines /\ Len(pending) <= 2
  /\ rg.alive \in BOOLEAN /\ rg.code \in {-1, 0, 1, 2} /\ aborted \in BOOLEAN
  /\ job \in {"idle", "paging", "editing"} /\ torn \in BOOLEAN
  /\ editor.pc \in {"idle", "access", "read", "truncate", "fill", "done", "refused"}
  /\ writer \in {"idle", "fill", "done", "refused"}
  /\ service \in {"stopped", "booting", "ready"} /\ session \in 0 .. MaxSessions
  /\ cached \in 0 .. session /\ closed \in BOOLEAN
  /\ response \in [isError : BOOLEAN, size : 0 .. ResponseCap, sent : BOOLEAN]
=============================================================================

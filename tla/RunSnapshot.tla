------------------------------ MODULE RunSnapshot ------------------------------
(***************************************************************************)
(* support_desk/mcp_server.py: a client of relay_get_run or                *)
(* relay_wait_for_run, who reads a case while it is planned and approved   *)
(* (ToolPlanning).  A snapshot is several statements, and any other thread *)
(* or process may commit between them.  The MCP server reads its own       *)
(* connection, the HTTP API's readers do the same.  The last statement of  *)
(* the snapshot, the case's event log, is left out: the log is append-only *)
(* and nothing here compares it with the other two.                        *)
(***************************************************************************)
EXTENDS ToolPlanning

VARIABLE reader  \* which statement the snapshot is at, and what it has read so far

NoSnapshot == [at |-> 1, actions |-> <<>>, tool_calls |-> <<>>]

SnapshotInit == Init /\ reader = NoSnapshot

\* Mutant: the calls are read before the ticket.
OrderOfFieldsSwapped == <<"tool_calls", "actions">>

\* snapshot reads the ticket with its actions, then its calls (and then the log).
OrderOfFields == <<"actions", "tool_calls">>

Stored == [actions |-> actions, tool_calls |-> calls]

\* The next statement of the snapshot of a case that is there.
Read ==
    /\ status # "none"
    /\ reader.at <= Len(OrderOfFields)
    /\ LET field == OrderOfFields[reader.at] IN
         reader' = [reader EXCEPT ![field] = Stored[field], !.at = @ + 1]
    /\ UNCHANGED vars

Whole == reader.at > Len(OrderOfFields)

\* The snapshot is answered; or relay_wait_for_run finds a status that is not terminal
\* and takes another one.
Answer ==
    /\ Whole
    /\ reader' = NoSnapshot
    /\ UNCHANGED vars

SnapshotNext ==
    \/ Next /\ UNCHANGED reader
    \/ Read
    \/ Answer

SnapshotSpec == SnapshotInit /\ [][SnapshotNext]_<<vars, reader>>

-----------------------------------------------------------------------------
\* A snapshot accounts for each action it shows: its call was planned, and an action
\* shown with a result is shown with a call that was run, although the two come from
\* different statements (mcp_server.py:133-142) and from different commits of writers that
\* overlap (store.py:377-418, 525-605).  How the call ended may differ: another approve may
\* have run it again since, and failed.
SnapshotExplains ==
    Whole => \A i \in DOMAIN reader.actions :
               LET a == reader.actions[i] IN
                 /\ reader.tool_calls[a.call] \notin {"none", "planned"}
                 /\ a.status # "pending" => reader.tool_calls[a.call] \in CallResults
=============================================================================

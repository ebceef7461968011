------------------------------ MODULE CliConnection -----------------------------
(***************************************************************************)
(* The connection of the command-line tool to the server: `donebond init`  *)
(* asks for a project and stores its connection, `donebond task pull`      *)
(* loads that and asks for a task (apps/cli/src/config.ts, init.ts,        *)
(* task-command.ts).  Both read over routes that the browser reads, too    *)
(* (project-policy-handlers.ts, task-handlers.ts).                         *)
(***************************************************************************)
EXTENDS Integers

CONSTANTS Project, Token, None

VARIABLES
    cli_tokens,     \* the row of each token, or None
    config_json, credentials_json,      \* the stored connection: its project, its token
    cli,            \* the command that runs
    task_json       \* the task manifest is there

server == cli_tokens
files == <<config_json, credentials_json, task_json>>
vars == <<server, files, cli>>

\* active: the token has been active for the project since the request was sent.
Command == [at : {"init", "store", "storeToken", "pull", "refused"},
            project : Project, token : Token, active : BOOLEAN]

Init ==
    /\ cli_tokens = [k \in Token |-> None]
    /\ config_json = None /\ credentials_json = None /\ task_json = FALSE
    /\ cli = None
--------------------------------------------------------------------------------
(* The server.                                                              *)

createCliToken(k, p) ==
    /\ cli_tokens[k] = None
    /\ cli_tokens' = [cli_tokens EXCEPT ![k] = [project |-> p, revoked |-> FALSE]]
    /\ UNCHANGED <<files, cli>>

revokeCliToken(k) ==
    /\ cli_tokens[k] # None
    /\ cli_tokens' = [cli_tokens EXCEPT ![k].revoked = TRUE]
    /\ cli' = IF cli = None THEN cli ELSE [cli EXCEPT !.active = @ /\ cli.token # k]
    /\ UNCHANGED files

\* The routes know a caller by the cookie of a session alone.
authenticate(request) == request.cookie # None

\* A response: its status is 2xx, and the keys of its body.
Refusal == [ok |-> FALSE, keys |-> {"error"}]

getProject(request) ==
    IF authenticate(request) THEN [ok |-> TRUE, keys |-> {"project", "role"}] ELSE Refusal

getTask(request) == IF authenticate(request) THEN [ok |-> TRUE, keys |-> {"task"}] ELSE Refusal
--------------------------------------------------------------------------------
(* The tool.                                                                *)

Request(c) == [cookie |-> None, authorization |-> c.token]

Accepted(response) == response.ok /\ "publicId" \in response.keys

Answered(next, response) ==
    cli' = [cli EXCEPT !.at = IF Accepted(response) THEN next ELSE "refused"]

Sent(at, p, k) == [at |-> at, project |-> p, token |-> k,
                   active |-> cli_tokens[k] = [project |-> p, revoked |-> FALSE]]

initializeRepository(p, k) ==
    /\ cli = None
    /\ cli' = Sent("init", p, k)
    /\ UNCHANGED <<server, files>>

validateConnection ==
    /\ cli # None /\ cli.at = "init"
    /\ Answered("store", getProject(Request(cli)))
    /\ UNCHANGED <<server, files>>

\* Each file is replaced in one rename, the two of them one after the other.
storeConnection ==
    /\ cli # None
    /\ \/ /\ cli.at = "store"
          /\ config_json' = cli.project
          /\ cli' = [cli EXCEPT !.at = "storeToken"]
          /\ UNCHANGED credentials_json
       \/ /\ cli.at = "storeToken"
          /\ credentials_json' = cli.token
          /\ cli' = None
          /\ UNCHANGED config_json
    /\ UNCHANGED <<server, task_json>>

pullTask ==
    /\ cli = None
    /\ config_json # None /\ credentials_json # None
    /\ cli' = Sent("pull", config_json, credentials_json)
    /\ UNCHANGED <<server, files>>

authenticatedGetJson ==
    /\ cli # None /\ cli.at = "pull"
    /\ LET response == getTask(Request(cli))
       IN  IF Accepted(response)
             THEN task_json' = TRUE /\ cli' = None
             ELSE Answered("pull", response) /\ UNCHANGED task_json
    /\ UNCHANGED <<server, config_json, credentials_json>>

\* The command ends: it is stopped, cannot reach the server, or was refused.
end ==
    /\ cli # None
    /\ cli' = None
    /\ UNCHANGED <<server, files>>

Next ==
    \/ \E k \in Token : revokeCliToken(k)
    \/ \E k \in Token, p \in Project : createCliToken(k, p) \/ initializeRepository(p, k)
    \/ validateConnection \/ storeConnection \/ pullTask \/ authenticatedGetJson \/ end

Spec == Init /\ [][Next]_vars
--------------------------------------------------------------------------------
\* "API credentials are validated and stored" (the help of `donebond init`): a
\* token that is active for the project, before and after the request, is not
\* refused.
ActiveTokenNotRefused == cli # None => (cli.at = "refused" => ~cli.active)
================================================================================

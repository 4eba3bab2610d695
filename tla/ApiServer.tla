----------------------------- MODULE ApiServer -----------------------------
(***************************************************************************)
(* The opt-in local API: the configuration commands of                     *)
(* src-tauri/src/local_api.rs over the server of crates/api/src/lib.rs.    *)
(*                                                                         *)
(* Commands hold config_lock from their first read to their last write and *)
(* await in between: the drain of the old server, the bind of the new one, *)
(* the store.  Clients connect, present a credential and leave meanwhile;  *)
(* quitting takes the server without the lock; the process may die at any  *)
(* point, and autostart runs when it is back.  Credentials are numbers,    *)
(* fresh when generated.  The bind address travels with the port in one    *)
(* batch and is left out, and so is last_error.                            *)
(***************************************************************************)
EXTENDS Naturals, FiniteSets

CONSTANTS
    Admins,         \* concurrent callers of the configuration commands
    Sockets,        \* connections clients may make
    MaxConnections, \* max_active_connections
    MaxTokens,      \* bound: credentials ever generated
    MaxServers,     \* bound: servers ever started
    MaxCommands,    \* bound: configuration commands
    MaxApiFaults    \* bound: failing reads, writes and binds, and restarts

ASSUME ApiAssumption ==
    /\ MaxConnections \in Nat \ {0} /\ MaxTokens \in Nat \ {0, 1} /\ MaxServers \in Nat
    /\ MaxCommands \in Nat /\ MaxApiFaults \in Nat
    /\ "nobody" \notin Admins

VARIABLES
    saved,      \* api.enabled, api.port, api.token, api.read_token
    token,      \* runtime.token, the live bearer token
    slot,       \* runtime.server
    server,     \* every server ever started: its serve task, port and read credential
    conn,       \* Sockets -> the server a socket was admitted to, and what it is doing
    admin,      \* Admins -> the command a caller is in
    configLock, \* who holds config_lock
    autostarts, \* autostart has yet to run
    quitting,   \* graceful_shutdown has begun
    generated,  \* credentials generated so far
    commands,   \* bounds
    apiFaults

apiVars == <<saved, token, slot, server, conn, admin, configLock, autostarts, quitting,
             generated, commands, apiFaults>>

None == 0
Tokens == 1..MaxTokens
Servers == 1..MaxServers
Ports == {"default", "other"}
Kept == "kept"      \* a command that names no port
Nobody == "nobody"

NotAsked == [pc |-> "idle", enabled |-> FALSE, port |-> Kept, read |-> None, own |-> None]
Unused == [phase |-> "unused", port |-> "default", read |-> None]
NotConnected == [server |-> None, doing |-> "closed"]

ApiFault == apiFaults < MaxApiFaults /\ apiFaults' = apiFaults + 1
NoFault == UNCHANGED apiFaults
Fresh == generated + 1
Alive(s) == server[s].phase \in {"listening", "signalled", "draining"}
ConnectionsOf(s) == {c \in Sockets : conn[c].server = s}

Moves(a, pc) == admin' = [admin EXCEPT ![a].pc = pc] /\ UNCHANGED configLock
Returns(a) == admin' = [admin EXCEPT ![a] = NotAsked] /\ configLock' = Nobody

-----------------------------------------------------------------------------
(* The commands: each begins by taking config_lock *)

\* Mutant of Enters: commands overlap.
EntersUnlocked(a, asked) ==
    /\ admin[a] = NotAsked
    /\ configLock' = a
    /\ admin' = [admin EXCEPT ![a] = asked]
    /\ UNCHANGED <<saved, token, slot, server, conn, quitting, generated, apiFaults>>

Enters(a, asked) ==
    /\ admin[a] = NotAsked
    /\ configLock = Nobody
    /\ configLock' = a
    /\ admin' = [admin EXCEPT ![a] = asked]
    /\ UNCHANGED <<saved, token, slot, server, conn, quitting, generated, apiFaults>>

\* set_api_config, regenerate_api_token, create_/rotate_/revoke_api_read_token.
Command(a) ==
    /\ commands < MaxCommands
    /\ commands' = commands + 1
    /\ \/ \E on \in BOOLEAN, port \in Ports \cup {Kept} :
              Enters(a, [NotAsked EXCEPT !.pc = "apply", !.enabled = on, !.port = port])
       \/ \E pc \in {"regenerate", "create", "rotate", "revoke"} :
              Enters(a, [NotAsked EXCEPT !.pc = pc])
    /\ UNCHANGED autostarts

\* autostart: the saved configuration again, when it says enabled.
Autostart(a) ==
    /\ autostarts
    /\ autostarts' = FALSE
    /\ \/ /\ saved.enabled
          /\ Enters(a, [NotAsked EXCEPT !.pc = "apply", !.enabled = TRUE])
       \/ /\ ~saved.enabled /\ configLock = Nobody
          /\ UNCHANGED <<saved, token, slot, server, conn, admin, configLock, quitting, generated,
                         apiFaults>>
    /\ UNCHANGED commands

-----------------------------------------------------------------------------
(* apply_api_config_locked *)

\* The intent is persisted first.  A port that is kept is the saved one, or the
\* default one when it could not be read.
ApplyPersists(a) ==
    /\ admin[a].pc = "apply"
    /\ LET Persists(port) ==
              /\ saved' = [saved EXCEPT !.enabled = admin[a].enabled, !.port = port]
              /\ admin' = [admin EXCEPT ![a].pc = "take", ![a].port = port,
                                        ![a].read = IF admin[a].enabled THEN saved.read ELSE None]
       IN \/ admin[a].port # Kept /\ Persists(admin[a].port) /\ NoFault
          \/ admin[a].port = Kept /\ Persists(saved.port) /\ NoFault
          \/ admin[a].port = Kept /\ Persists("default") /\ ApiFault
    /\ UNCHANGED <<token, slot, server, conn, configLock, autostarts, quitting, generated,
                   commands>>

\* The address does not parse, a read or the write failed: nothing is touched.
CommandFails(a) ==
    /\ admin[a].pc \in {"apply", "regenerate", "create", "rotate", "revoke"}
    /\ ApiFault
    /\ Returns(a)
    /\ UNCHANGED <<saved, token, slot, server, conn, autostarts, quitting, generated, commands>>

\* The running server leaves the slot and is told to stop.
ApplyTakes(a) ==
    /\ admin[a].pc = "take"
    /\ slot' = None
    /\ server' = [s \in Servers |-> IF s = slot THEN [server[s] EXCEPT !.phase = "signalled"] ELSE server[s]]
    /\ admin' = [admin EXCEPT ![a].pc = "stop", ![a].own = slot]
    /\ UNCHANGED <<saved, token, conn, configLock, autostarts, quitting, generated, commands,
                   apiFaults>>

\* Mutant of ApplyStopped: the old server is only told to stop.
ApplyDoesNotWait(a) ==
    /\ admin[a].pc = "stop"
    /\ IF admin[a].enabled THEN Moves(a, "token") ELSE Returns(a)
    /\ UNCHANGED <<saved, token, slot, server, conn, autostarts, quitting, generated, commands,
                   apiFaults>>

\* ApiServer::stop has returned.
ApplyStopped(a) ==
    /\ admin[a].pc = "stop"
    /\ admin[a].own # None => ~Alive(admin[a].own)
    /\ IF admin[a].enabled THEN Moves(a, "token") ELSE Returns(a)
    /\ UNCHANGED <<saved, token, slot, server, conn, autostarts, quitting, generated, commands,
                   apiFaults>>

\* The live token is kept; an empty one is filled from the store, or with a
\* new one when the store has none or could not be read.
ApplyToken(a) ==
    /\ admin[a].pc = "token"
    /\ \/ /\ token # None
          /\ UNCHANGED <<saved, token, generated>> /\ NoFault
       \/ /\ token = None /\ saved.token # None
          /\ token' = saved.token
          /\ UNCHANGED <<saved, generated>> /\ NoFault
       \/ /\ token = None /\ Fresh \in Tokens
          /\ IF saved.token = None THEN NoFault ELSE ApiFault
          /\ token' = Fresh /\ generated' = Fresh
          /\ saved' = [saved EXCEPT !.token = Fresh]
    /\ Moves(a, "bind")
    /\ UNCHANGED <<slot, server, conn, autostarts, quitting, commands>>

\* The new token could not be saved, or the bind failed (last_error): enabled
\* on disk, nothing running.
ApplyFails(a) ==
    /\ \/ admin[a].pc = "token" /\ token = None
       \/ admin[a].pc = "bind"
    /\ ApiFault
    /\ Returns(a)
    /\ UNCHANGED <<saved, token, slot, server, conn, autostarts, quitting, generated, commands>>

\* start_on_with_read_token: bound, the read credential installed, accepting.
ApplyBinds(a) ==
    /\ admin[a].pc = "bind"
    /\ \E s \in Servers :
        /\ server[s] = Unused
        /\ \A r \in Servers : r < s => server[r] # Unused
        /\ server' = [server EXCEPT ![s] = [phase |-> "listening", port |-> admin[a].port,
                                            read |-> admin[a].read]]
        /\ admin' = [admin EXCEPT ![a].pc = "keep", ![a].own = s]
    /\ UNCHANGED <<saved, token, slot, conn, configLock, autostarts, quitting, generated, commands,
                   apiFaults>>

ApplyKeeps(a) ==
    /\ admin[a].pc = "keep"
    /\ slot' = admin[a].own
    /\ Returns(a)
    /\ UNCHANGED <<saved, token, server, conn, autostarts, quitting, generated, commands,
                   apiFaults>>

-----------------------------------------------------------------------------
(* rotate_legacy_token and change_read_token: persist, then install *)

RegeneratePersists(a) ==
    /\ admin[a].pc = "regenerate"
    /\ Fresh \in Tokens
    /\ generated' = Fresh
    /\ saved' = [saved EXCEPT !.token = Fresh]
    /\ Moves(a, "install")
    /\ UNCHANGED <<token, slot, server, conn, autostarts, quitting, commands, apiFaults>>

RegenerateInstalls(a) ==
    /\ admin[a].pc = "install"
    /\ token' = saved.token
    /\ Returns(a)
    /\ UNCHANGED <<saved, slot, server, conn, autostarts, quitting, generated, commands, apiFaults>>

\* Create refuses when there is one, rotate when there is none.
ReadTokenRefused(a) ==
    /\ \/ admin[a].pc = "create" /\ saved.read # None
       \/ admin[a].pc = "rotate" /\ saved.read = None
    /\ Returns(a)
    /\ UNCHANGED <<saved, token, slot, server, conn, autostarts, quitting, generated, commands,
                   apiFaults>>

ReadTokenPersists(a) ==
    /\ \/ /\ admin[a].pc = IF saved.read = None THEN "create" ELSE "rotate"
          /\ Fresh \in Tokens
          /\ generated' = Fresh
          /\ saved' = [saved EXCEPT !.read = Fresh]
       \/ /\ admin[a].pc = "revoke"
          /\ saved' = [saved EXCEPT !.read = None]
          /\ UNCHANGED generated
    /\ Moves(a, "installread")
    /\ UNCHANGED <<token, slot, server, conn, autostarts, quitting, commands, apiFaults>>

ReadTokenInstalls(a) ==
    /\ admin[a].pc = "installread"
    /\ server' = [s \in Servers |-> IF s = slot THEN [server[s] EXCEPT !.read = saved.read] ELSE server[s]]
    /\ Returns(a)
    /\ UNCHANGED <<saved, token, slot, conn, autostarts, quitting, generated, commands, apiFaults>>

-----------------------------------------------------------------------------
(* serve and run_connection *)

\* Over the limit a socket is closed at once; a signalled loop may accept one
\* more before it looks at the signal.
Connect(c) ==
    /\ conn[c] = NotConnected
    /\ \E s \in Servers :
        /\ server[s].phase \in {"listening", "signalled"}
        /\ Cardinality(ConnectionsOf(s)) < MaxConnections
        /\ conn' = [conn EXCEPT ![c] = [server |-> s, doing |-> "reading"]]
    /\ UNCHANGED <<saved, token, slot, server, admin, configLock, autostarts, quitting, generated,
                   commands, apiFaults>>

\* require_bearer: the credential is compared with the live ones.
Request(c) ==
    /\ conn[c].doing = "reading"
    /\ \E k \in Tokens : k \in {token, server[conn[c].server].read}
    /\ conn' = [conn EXCEPT ![c].doing = "answering"]
    /\ UNCHANGED <<saved, token, slot, server, admin, configLock, autostarts, quitting, generated,
                   commands, apiFaults>>

\* The answer is out: the connection is kept alive, unless its server stops.
Replies(c) ==
    /\ conn[c].doing = "answering"
    /\ conn' = [conn EXCEPT ![c] = IF server[conn[c].server].phase = "listening"
                                   THEN [conn[c] EXCEPT !.doing = "reading"] ELSE NotConnected]
    /\ UNCHANGED <<saved, token, slot, server, admin, configLock, autostarts, quitting, generated,
                   commands, apiFaults>>

\* The client leaves, misses the header deadline, or is idle when the server
\* stops.
Disconnect(c) ==
    /\ conn[c] # NotConnected
    /\ conn' = [conn EXCEPT ![c] = NotConnected]
    /\ UNCHANGED <<saved, token, slot, server, admin, configLock, autostarts, quitting, generated,
                   commands, apiFaults>>

\* The accept loop sees the signal and drops the listener.
ServeBreaks(s) ==
    /\ server[s].phase = "signalled"
    /\ server' = [server EXCEPT ![s].phase = "draining"]
    /\ UNCHANGED <<saved, token, slot, conn, admin, configLock, autostarts, quitting, generated,
                   commands, apiFaults>>

\* Every connection has ended, or the grace is over and those left are
\* cancelled: by the task, which awaits them, or with it when stop aborts it.
ServeEnds(s) ==
    /\ server[s].phase = "draining"
    /\ server' = [server EXCEPT ![s].phase = "gone"]
    /\ conn' = [c \in Sockets |-> IF conn[c].server = s THEN NotConnected ELSE conn[c]]
    /\ UNCHANGED <<saved, token, slot, admin, configLock, autostarts, quitting, generated, commands,
                   apiFaults>>

-----------------------------------------------------------------------------
(* The process *)

\* graceful_shutdown: stop_server, without config_lock.
Quit ==
    /\ ~quitting
    /\ quitting' = TRUE
    /\ slot' = None
    /\ server' = [s \in Servers |-> IF s = slot THEN [server[s] EXCEPT !.phase = "signalled"] ELSE server[s]]
    /\ UNCHANGED <<saved, token, conn, admin, configLock, autostarts, generated, commands,
                   apiFaults>>

\* The process ends, at the end of a shutdown or by a crash, and starts again.
ApiRestart ==
    /\ ApiFault
    /\ token' = None
    /\ slot' = None
    /\ server' = [s \in Servers |-> IF Alive(s) THEN [server[s] EXCEPT !.phase = "gone"] ELSE server[s]]
    /\ conn' = [c \in Sockets |-> NotConnected]
    /\ admin' = [a \in Admins |-> NotAsked]
    /\ configLock' = Nobody
    /\ autostarts' = TRUE
    /\ quitting' = FALSE
    /\ UNCHANGED <<saved, generated, commands>>

\* A launch finds no configuration, or what an earlier session saved.
FirstLaunch == [enabled |-> FALSE, port |-> "default", token |-> None, read |-> None]
Configured == [enabled |-> TRUE, port |-> "other", token |-> 1, read |-> 2]

ApiInit ==
    /\ saved \in {FirstLaunch, Configured}
    /\ token = None
    /\ slot = None
    /\ server = [s \in Servers |-> Unused]
    /\ conn = [c \in Sockets |-> NotConnected]
    /\ admin = [a \in Admins |-> NotAsked]
    /\ configLock = Nobody
    /\ autostarts = TRUE
    /\ quitting = FALSE
    /\ generated = saved.read
    /\ commands = 0
    /\ apiFaults = 0

ApiNext ==
    \/ \E a \in Admins :
        \/ Command(a) \/ Autostart(a) \/ CommandFails(a)
        \/ ApplyPersists(a) \/ ApplyTakes(a) \/ ApplyStopped(a) \/ ApplyToken(a)
        \/ ApplyFails(a) \/ ApplyBinds(a) \/ ApplyKeeps(a)
        \/ RegeneratePersists(a) \/ RegenerateInstalls(a)
        \/ ReadTokenRefused(a) \/ ReadTokenPersists(a) \/ ReadTokenInstalls(a)
    \/ \E c \in Sockets : Connect(c) \/ Request(c) \/ Replies(c) \/ Disconnect(c)
    \/ \E s \in Servers : ServeBreaks(s) \/ ServeEnds(s)
    \/ Quit
    \/ ApiRestart

ApiSpec == ApiInit /\ [][ApiNext]_apiVars

-----------------------------------------------------------------------------
(* Properties *)

ApiTypeOK ==
    /\ saved \in [enabled : BOOLEAN, port : Ports, token : Tokens \cup {None},
                  read : Tokens \cup {None}]
    /\ token \in Tokens \cup {None} /\ slot \in Servers \cup {None}
    /\ \A s \in Servers : server[s].phase \in {"unused", "listening", "signalled", "draining", "gone"}
    /\ \A c \in Sockets : conn[c].doing \in {"closed", "reading", "answering"}
    /\ configLock \in Admins \cup {Nobody}
    /\ generated \in 0..MaxTokens

\* When no command is under way the server that listens is the one in the slot,
\* and it listens on the port the saved configuration says, with the saved
\* credentials, and only if the configuration says enabled: whatever commands
\* overlapped, failed half way or were cut off.  A disable that finds no server
\* while an enable is still binding must not leave one serving
\* (local_api.rs:53), and a credential that was rotated or revoked opens
\* nothing any more (persist_then_install_read_token).
ServerIsAsSaved ==
    configLock = Nobody =>
        \A s \in Servers : server[s].phase = "listening" =>
            /\ s = slot
            /\ saved.enabled
            /\ server[s].port = saved.port
            /\ server[s].read = saved.read
            /\ token = saved.token

\* Once a command has returned, every open connection belongs to the server in
\* the slot: a disable, or a move to another port, leaves nobody connected to
\* the server it replaced, whatever was being answered (ApiServer::stop,
\* crates/api/src/lib.rs:412, "none survives shutdown").
DisabledServesNobody ==
    configLock = Nobody /\ ~quitting =>
        \A c \in Sockets : conn[c] # NotConnected => conn[c].server = slot
=============================================================================

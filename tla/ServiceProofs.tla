---------------------------- MODULE ServiceProofs ----------------------------
(***************************************************************************)
(* What the local API server serves once a command has returned, how often *)
(* a report's digest goes out, what the capture log answers, and what a    *)
(* walk through the pages of the history returns, for every number of      *)
(* callers, sockets, servers, chunks, revisions, retries, records and rows;*)
(* and, at the end, that the run of all nine services is about each of     *)
(* them as it stands alone.                                                *)
(***************************************************************************)
EXTENDS MCServices, SensorProofs, SessionProofs, FiniteSetTheorems, WellFoundedInduction, TLAPS

-----------------------------------------------------------------------------
(* The local API.  One command is under way at a time.  An apply knows what  *)
(* it has saved, and from the moment it took the old server until it keeps   *)
(* the new one the slot is empty, even if the process quits meanwhile.       *)

Caller == [pc : {"idle", "apply", "take", "stop", "token", "bind", "keep", "regenerate", "install",
                 "create", "rotate", "revoke", "installread"},
           enabled : BOOLEAN, port : Ports \cup {Kept}, read : Tokens \cup {None},
           own : Servers \cup {None}]
Server == [phase : {"unused", "listening", "signalled", "draining", "gone"}, port : Ports,
           read : Tokens \cup {None}]
Connection == [server : Servers \cup {None}, doing : {"closed", "reading", "answering"}]

ApiTypes ==
    /\ saved \in [enabled : BOOLEAN, port : Ports, token : Tokens \cup {None},
                  read : Tokens \cup {None}]
    /\ token \in Tokens \cup {None} /\ slot \in Servers \cup {None}
    /\ server \in [Servers -> Server]
    /\ conn \in [Sockets -> Connection]
    /\ admin \in [Admins -> Caller]
    /\ configLock \in Admins \cup {Nobody}
    /\ generated \in 0..MaxTokens
    /\ quitting \in BOOLEAN

OneCommand == \A a \in Admins : admin[a].pc # "idle" => configLock = a

Applying == {"take", "stop", "token", "bind", "keep"}

ApplyKnows ==
    \A a \in Admins :
        /\ admin[a].pc \in Applying =>
              /\ saved.enabled = admin[a].enabled /\ saved.port = admin[a].port
              /\ admin[a].enabled => saved.read = admin[a].read
        /\ admin[a].pc \in {"stop", "token", "bind", "keep"} => slot = None
        /\ admin[a].pc \in {"token", "bind", "keep"} => admin[a].enabled
        /\ admin[a].pc \in {"bind", "keep"} => token # None
        /\ admin[a].pc = "install" => saved.token # None

TokenIsSaved ==
    token # None /\ (\A a \in Admins : admin[a].pc # "install") => token = saved.token

\* A server listens in the slot, or is about to be put there.
ListensAsSaved ==
    \A s \in Servers : server[s].phase = "listening" =>
        /\ token # None
        /\ s = slot \/ \E a \in Admins : admin[a].pc = "keep" /\ admin[a].own = s
        /\ (\A a \in Admins : admin[a].pc # "take") =>
              saved.enabled /\ server[s].port = saved.port
        /\ (\A a \in Admins : admin[a].pc \notin {"take", "installread"}) =>
              server[s].read = saved.read

\* A server with connections is the one in the slot, or the one its command is
\* waiting for.
ServersAreKnown ==
    /\ \A c \in Sockets : conn[c] # NotConnected =>
          conn[c].server \in Servers /\ Alive(conn[c].server)
    /\ ~quitting => \A s \in Servers : Alive(s) =>
          s = slot \/ \E a \in Admins : admin[a].pc \in {"stop", "keep"} /\ admin[a].own = s

AInv == ApiTypes /\ OneCommand /\ ApplyKnows /\ TokenIsSaved /\ ListensAsSaved /\ ServersAreKnown

\* What the invariant gives at once: the markers are no tokens, ports, servers or
\* callers, and one caller has the lock.
LEMMA ApiFacts ==
    ASSUME AInv
    PROVE  /\ None \notin Servers /\ None \notin Tokens /\ Kept \notin Ports /\ Nobody \notin Admins
           /\ NotAsked \in Caller /\ NotAsked.pc = "idle" /\ Unused \in Server
           /\ NotConnected \in Connection /\ NotConnected.server = None
           /\ Unused.phase = "unused"
           /\ \A a, b \in Admins : admin[a].pc # "idle" /\ b # a => admin[b].pc = "idle"
           /\ configLock = Nobody => \A a \in Admins : admin[a].pc = "idle"
<1>1. None \notin Servers /\ None \notin Tokens
  BY ApiAssumption DEF None, Servers, Tokens
<1>2. Kept \notin Ports /\ Nobody \notin Admins
  BY ApiAssumption DEF Kept, Ports, Nobody
<1>3. NotAsked \in Caller /\ Unused \in Server /\ NotConnected \in Connection
  BY DEF NotAsked, Caller, Unused, Server, NotConnected, Connection, Ports
<1>4. NotAsked.pc = "idle" /\ Unused.phase = "unused" /\ NotConnected.server = None
  BY DEF NotAsked, Unused, NotConnected
<1>5. \A a, b \in Admins : admin[a].pc # "idle" /\ b # a => admin[b].pc = "idle"
  BY DEF AInv, OneCommand
<1>6. configLock = Nobody => \A a \in Admins : admin[a].pc = "idle"
  BY <1>2 DEF AInv, OneCommand
<1> QED BY <1>1, <1>2, <1>3, <1>4, <1>5, <1>6

\* A launch, with or without a saved configuration, owes nothing.
LEMMA ApiInitInv == ApiInit => AInv
<1> SUFFICES ASSUME ApiInit PROVE AInv
  OBVIOUS
<1>1. NotAsked \in Caller /\ Unused \in Server /\ NotConnected \in Connection
  BY DEF NotAsked, Caller, Unused, Server, NotConnected, Connection, Ports
<1>2. /\ saved \in [enabled : BOOLEAN, port : Ports, token : Tokens \cup {None},
                    read : Tokens \cup {None}]
      /\ generated \in 0..MaxTokens
  <2>1. 1 \in Tokens /\ 2 \in Tokens /\ 0 \in 0..MaxTokens /\ 2 \in 0..MaxTokens
    BY ApiAssumption DEF Tokens
  <2>2. CASE saved = FirstLaunch
    BY <2>1, <2>2 DEF ApiInit, FirstLaunch, Ports, None
  <2>3. CASE saved = Configured
    BY <2>1, <2>3 DEF ApiInit, Configured, Ports
  <2> QED BY <2>2, <2>3 DEF ApiInit
<1>3. ApiTypes
  BY <1>1, <1>2 DEF ApiInit, ApiTypes
<1>4. \A a \in Admins : admin[a].pc = "idle"
  BY DEF ApiInit, NotAsked
<1>5. /\ \A s \in Servers : server[s].phase = "unused"
      /\ \A c \in Sockets : conn[c] = NotConnected
  BY DEF ApiInit, Unused
<1>6. OneCommand /\ ApplyKnows /\ TokenIsSaved
  BY <1>4 DEF ApiInit, OneCommand, ApplyKnows, TokenIsSaved, Applying
<1>7. ListensAsSaved /\ ServersAreKnown
  BY <1>5 DEF ListensAsSaved, ServersAreKnown, Alive
<1> QED BY <1>3, <1>6, <1>7 DEF AInv

\* A command that begins.
LEMMA EntersOK ==
    ASSUME AInv, NEW a \in Admins, NEW asked \in Caller, Enters(a, asked),
           asked.pc \notin Applying \cup {"idle", "install", "installread"}
    PROVE  AInv'
<1>0. /\ configLock = Nobody /\ configLock' = a /\ asked.pc # "idle"
      /\ admin \in [Admins -> Caller]
      /\ admin' = [admin EXCEPT ![a] = asked]
      /\ UNCHANGED <<saved, token, slot, server, conn, quitting, generated>>
      /\ \A b \in Admins : admin[b].pc = "idle"
  BY ApiFacts DEF Enters, AInv, ApiTypes
<1>1. ApiTypes'
  BY <1>0 DEF AInv, ApiTypes
<1>2. /\ admin'[a].pc \notin Applying \cup {"idle", "install", "installread"}
      /\ \A b \in Admins : b # a => admin'[b].pc = "idle"
  BY <1>0
<1>3. OneCommand' /\ ApplyKnows' /\ TokenIsSaved' /\ ListensAsSaved'
  BY <1>0, <1>2 DEF AInv, OneCommand, ApplyKnows, TokenIsSaved, ListensAsSaved, Applying
<1>4. ServersAreKnown'
  BY <1>0, <1>2 DEF AInv, ServersAreKnown, Alive, Applying
<1> QED BY <1>1, <1>3, <1>4 DEF AInv

\* A command that returns when no server it started or took is left.
LEMMA ReturnsOK ==
    ASSUME AInv, NEW a \in Admins, Returns(a),
           UNCHANGED <<saved, token, slot, server, conn, quitting, generated>>,
           admin[a].pc \notin {"idle", "take", "keep", "install", "installread"},
           admin[a].pc = "stop" => (admin[a].own # None => ~Alive(admin[a].own))
    PROVE  AInv'
<1>0. /\ configLock' = Nobody
      /\ admin \in [Admins -> Caller] /\ NotAsked \in Caller /\ NotAsked.pc = "idle"
      /\ admin' = [admin EXCEPT ![a] = NotAsked]
      /\ \A b \in Admins : b # a => admin[b].pc = "idle"
  BY ApiFacts DEF Returns, AInv, ApiTypes
<1>1. ApiTypes'
  BY <1>0 DEF AInv, ApiTypes
<1>2. \A b \in Admins : admin'[b].pc = "idle"
  BY <1>0
<1>3. OneCommand' /\ ApplyKnows' /\ TokenIsSaved' /\ ListensAsSaved'
  BY <1>0, <1>2 DEF AInv, OneCommand, ApplyKnows, TokenIsSaved, ListensAsSaved, Applying
<1>4. ServersAreKnown'
  BY <1>0, <1>2, ApiFacts DEF AInv, ServersAreKnown, Alive, Applying
<1> QED BY <1>1, <1>3, <1>4 DEF AInv

\* A command begins, is refused or fails,
LEMMA CommandOK ==
    ASSUME AInv, NEW a \in Admins,
           Command(a) \/ Autostart(a) \/ CommandFails(a) \/ ReadTokenRefused(a) \/ ApplyFails(a)
    PROVE  AInv'
<1>1. CASE Command(a)
  <2>1. ASSUME NEW on \in BOOLEAN, NEW port \in Ports \cup {Kept},
               Enters(a, [NotAsked EXCEPT !.pc = "apply", !.enabled = on, !.port = port])
        PROVE  AInv'
    <3> DEFINE asked == [NotAsked EXCEPT !.pc = "apply", !.enabled = on, !.port = port]
    <3>1. asked \in Caller /\ asked.pc = "apply"
      BY DEF NotAsked, Caller
    <3> HIDE DEF asked
    <3> QED BY <2>1, <3>1, EntersOK DEF asked, Applying
  <2>2. ASSUME NEW pc \in {"regenerate", "create", "rotate", "revoke"},
               Enters(a, [NotAsked EXCEPT !.pc = pc])
        PROVE  AInv'
    <3> DEFINE asked == [NotAsked EXCEPT !.pc = pc]
    <3>1. asked \in Caller /\ asked.pc = pc
      BY DEF NotAsked, Caller
    <3> HIDE DEF asked
    <3> QED BY <2>2, <3>1, EntersOK DEF asked, Applying
  <2> QED BY <1>1, <2>1, <2>2 DEF Command
<1>2. CASE Autostart(a)
  <2>1. CASE Enters(a, [NotAsked EXCEPT !.pc = "apply", !.enabled = TRUE])
    <3> DEFINE asked == [NotAsked EXCEPT !.pc = "apply", !.enabled = TRUE]
    <3>1. asked \in Caller /\ asked.pc = "apply"
      BY DEF NotAsked, Caller
    <3> HIDE DEF asked
    <3> QED BY <2>1, <3>1, EntersOK DEF asked, Applying
  <2>2. CASE UNCHANGED <<saved, token, slot, server, conn, admin, configLock, quitting, generated>>
    BY <2>2 DEF AInv, ApiTypes, OneCommand, ApplyKnows, TokenIsSaved, ListensAsSaved,
                ServersAreKnown, Alive
  <2> QED BY <1>2, <2>1, <2>2 DEF Autostart
<1>3. CASE CommandFails(a) \/ ReadTokenRefused(a) \/ ApplyFails(a)
  <2>1. /\ Returns(a)
        /\ UNCHANGED <<saved, token, slot, server, conn, quitting, generated>>
        /\ admin[a].pc \notin {"idle", "take", "keep", "install", "installread", "stop"}
    BY <1>3 DEF CommandFails, ReadTokenRefused, ApplyFails
  <2> QED BY <2>1, ReturnsOK
<1> QED BY <1>1, <1>2, <1>3

\* saves, takes the old server out and awaits its end,
LEMMA ApplyBeginsOK ==
    ASSUME AInv, NEW a \in Admins, ApplyPersists(a) \/ ApplyTakes(a) \/ ApplyStopped(a)
    PROVE  AInv'
<1>0. /\ admin \in [Admins -> Caller] /\ admin[a] \in Caller
      /\ saved \in [enabled : BOOLEAN, port : Ports, token : Tokens \cup {None},
                    read : Tokens \cup {None}]
      /\ server \in [Servers -> Server] /\ slot \in Servers \cup {None} /\ None \notin Servers
      /\ admin[a].pc # "idle"
      /\ \A b \in Admins : b # a => admin[b].pc = "idle"
      /\ configLock = a
  <2>1. admin[a].pc # "idle"
    BY DEF ApplyPersists, ApplyTakes, ApplyStopped
  <2> QED BY <2>1, ApiFacts DEF AInv, ApiTypes, OneCommand
<1>1. CASE ApplyPersists(a)
  <2>1. PICK port \in Ports :
          /\ saved' = [saved EXCEPT !.enabled = admin[a].enabled, !.port = port]
          /\ admin' = [admin EXCEPT ![a].pc = "take", ![a].port = port,
                                    ![a].read = IF admin[a].enabled THEN saved.read ELSE None]
    BY <1>0, <1>1 DEF ApplyPersists, Ports, Kept, Caller
  <2> DEFINE me == [pc |-> "take", enabled |-> admin[a].enabled, port |-> port,
                    read |-> IF admin[a].enabled THEN saved.read ELSE None, own |-> admin[a].own]
  <2>2. admin'[a] = me /\ \A b \in Admins : b # a => admin'[b] = admin[b]
    BY <1>0, <2>1 DEF Caller
  <2>3. me \in Caller /\ me.pc = "take" /\ me.enabled = admin[a].enabled /\ me.port = port
        /\ (me.enabled => me.read = saved.read)
    BY <1>0 DEF Caller
  <2> HIDE DEF me
  <2>4. admin' \in [Admins -> Caller]
    BY <1>0, <2>1, <2>2, <2>3
  <2>5. /\ saved' \in [enabled : BOOLEAN, port : Ports, token : Tokens \cup {None},
                       read : Tokens \cup {None}]
        /\ saved'.enabled = me.enabled /\ saved'.port = me.port
        /\ saved'.token = saved.token /\ saved'.read = saved.read
    BY <1>0, <2>1, <2>3 DEF Caller
  <2>6. admin[a].pc = "apply"
        /\ UNCHANGED <<token, slot, server, conn, configLock, quitting, generated>>
    BY <1>1 DEF ApplyPersists
  <2>7. ApiTypes'
    BY <2>4, <2>5, <2>6 DEF AInv, ApiTypes
  <2>8. OneCommand' /\ ApplyKnows' /\ TokenIsSaved' /\ ListensAsSaved'
    BY <1>0, <2>2, <2>3, <2>5, <2>6
    DEF AInv, OneCommand, ApplyKnows, TokenIsSaved, ListensAsSaved, Applying
  <2>9. ServersAreKnown'
    BY <1>0, <2>2, <2>3, <2>6 DEF AInv, ServersAreKnown, Alive
  <2> QED BY <2>7, <2>8, <2>9 DEF AInv
<1>2. CASE ApplyTakes(a)
  <2> DEFINE me == [admin[a] EXCEPT !.pc = "stop", !.own = slot]
  <2>1. /\ admin[a].pc = "take" /\ slot' = None
        /\ server' = [s \in Servers |-> IF s = slot THEN [server[s] EXCEPT !.phase = "signalled"]
                                        ELSE server[s]]
        /\ UNCHANGED <<saved, token, conn, configLock, quitting, generated>>
    BY <1>2 DEF ApplyTakes
  <2>2. admin'[a] = me /\ (\A b \in Admins : b # a => admin'[b] = admin[b])
        /\ admin' \in [Admins -> Caller]
    BY <1>0, <1>2 DEF ApplyTakes, Caller
  <2>3. me.pc = "stop" /\ me.enabled = admin[a].enabled /\ me.port = admin[a].port
        /\ me.read = admin[a].read /\ me.own = slot
    BY <1>0 DEF Caller
  <2> HIDE DEF me
  <2>4. /\ server' \in [Servers -> Server]
        /\ \A s \in Servers : s # slot => server'[s] = server[s]
        /\ \A s \in Servers : s = slot => server'[s].phase = "signalled"
    BY <1>0, <2>1 DEF Server
  <2>5. ApiTypes'
    BY <1>0, <2>1, <2>2, <2>4 DEF AInv, ApiTypes
  <2>6. OneCommand' /\ ApplyKnows' /\ TokenIsSaved'
    BY <1>0, <2>1, <2>2, <2>3 DEF AInv, OneCommand, ApplyKnows, TokenIsSaved, Applying
  <2>7. ListensAsSaved'
    BY <1>0, <2>1, <2>2, <2>3, <2>4 DEF AInv, ListensAsSaved
  <2>8. ServersAreKnown'
    BY <1>0, <2>1, <2>2, <2>3, <2>4 DEF AInv, ServersAreKnown, Alive
  <2> QED BY <2>5, <2>6, <2>7, <2>8 DEF AInv
<1>3. CASE ApplyStopped(a)
  <2>1. /\ admin[a].pc = "stop" /\ (admin[a].own # None => ~Alive(admin[a].own))
        /\ UNCHANGED <<saved, token, slot, server, conn, quitting, generated>>
    BY <1>3 DEF ApplyStopped
  <2>2. CASE ~admin[a].enabled
    BY <1>3, <2>1, <2>2, ReturnsOK DEF ApplyStopped
  <2>3. CASE admin[a].enabled
    <3>1. admin' = [admin EXCEPT ![a].pc = "token"] /\ configLock' = configLock
      BY <1>3, <2>3 DEF ApplyStopped, Moves
    <3>2. /\ admin' \in [Admins -> Caller]
          /\ \A b \in Admins : b # a => admin'[b] = admin[b]
          /\ admin'[a].pc = "token" /\ admin'[a].enabled = admin[a].enabled
          /\ admin'[a].port = admin[a].port /\ admin'[a].read = admin[a].read
      BY <1>0, <3>1 DEF Caller
    <3>3. ApiTypes'
      BY <2>1, <3>1, <3>2 DEF AInv, ApiTypes
    <3>4. OneCommand' /\ ApplyKnows' /\ TokenIsSaved' /\ ListensAsSaved'
      BY <1>0, <2>1, <2>3, <3>1, <3>2
      DEF AInv, OneCommand, ApplyKnows, TokenIsSaved, ListensAsSaved, Applying
    <3>5. ServersAreKnown'
      BY <1>0, <2>1, <3>2 DEF AInv, ServersAreKnown, Alive
    <3> QED BY <3>3, <3>4, <3>5 DEF AInv
  <2> QED BY <2>2, <2>3
<1> QED BY <1>1, <1>2, <1>3

\* makes the token there is, binds, and puts the new server in the slot.
LEMMA ApplyEndsOK ==
    ASSUME AInv, NEW a \in Admins, ApplyToken(a) \/ ApplyBinds(a) \/ ApplyKeeps(a)
    PROVE  AInv'
<1>0. /\ admin \in [Admins -> Caller] /\ admin[a] \in Caller
      /\ saved \in [enabled : BOOLEAN, port : Ports, token : Tokens \cup {None},
                    read : Tokens \cup {None}]
      /\ token \in Tokens \cup {None} /\ None \notin Tokens
      /\ server \in [Servers -> Server] /\ slot \in Servers \cup {None} /\ None \notin Servers
      /\ admin[a].pc \in {"token", "bind", "keep"}
      /\ \A b \in Admins : b # a => admin[b].pc = "idle"
      /\ configLock = a /\ slot = None
      /\ saved.enabled /\ saved.port = admin[a].port /\ saved.read = admin[a].read
  <2>1. admin[a].pc \in {"token", "bind", "keep"}
    BY DEF ApplyToken, ApplyBinds, ApplyKeeps
  <2>2. configLock = a /\ slot = None
    BY <2>1 DEF AInv, OneCommand, ApplyKnows
  <2>3. saved.enabled /\ saved.port = admin[a].port /\ saved.read = admin[a].read
    BY <2>1 DEF AInv, ApplyKnows, Applying
  <2> QED BY <2>1, <2>2, <2>3, ApiFacts DEF AInv, ApiTypes
<1>1. CASE ApplyToken(a)
  <2>1. /\ admin[a].pc = "token" /\ admin' = [admin EXCEPT ![a].pc = "bind"]
        /\ UNCHANGED <<slot, server, conn, configLock, quitting>>
    BY <1>1 DEF ApplyToken, Moves
  <2>2. /\ admin' \in [Admins -> Caller]
        /\ \A b \in Admins : b # a => admin'[b] = admin[b]
        /\ admin'[a].pc = "bind" /\ admin'[a].enabled = admin[a].enabled
        /\ admin'[a].port = admin[a].port /\ admin'[a].read = admin[a].read
    BY <1>0, <2>1 DEF Caller
  <2>3. /\ saved' \in [enabled : BOOLEAN, port : Ports, token : Tokens \cup {None},
                       read : Tokens \cup {None}]
        /\ saved'.enabled = saved.enabled /\ saved'.port = saved.port /\ saved'.read = saved.read
        /\ token' \in Tokens /\ token' = saved'.token
        /\ generated' \in 0..MaxTokens
    <3>1. token # None => token = saved.token
      BY <1>0, <2>1 DEF AInv, TokenIsSaved
    <3>2. Fresh \in Tokens => Fresh \in 0..MaxTokens
      BY ApiAssumption DEF Tokens
    <3> QED BY <1>0, <1>1, <3>1, <3>2 DEF ApplyToken, AInv, ApiTypes
  <2>4. ApiTypes'
    BY <2>1, <2>2, <2>3 DEF AInv, ApiTypes
  <2>5. OneCommand' /\ ApplyKnows' /\ TokenIsSaved'
    BY <1>0, <2>1, <2>2, <2>3 DEF AInv, OneCommand, ApplyKnows, TokenIsSaved, Applying
  <2>6. ListensAsSaved'
    BY <1>0, <2>1, <2>2, <2>3 DEF AInv, ListensAsSaved
  <2>7. ServersAreKnown'
    BY <1>0, <2>1, <2>2 DEF AInv, ServersAreKnown, Alive
  <2> QED BY <2>4, <2>5, <2>6, <2>7 DEF AInv
<1>2. CASE ApplyBinds(a)
  <2>1. PICK s \in Servers :
          /\ server[s] = Unused
          /\ server' = [server EXCEPT ![s] = [phase |-> "listening", port |-> admin[a].port,
                                              read |-> admin[a].read]]
          /\ admin' = [admin EXCEPT ![a].pc = "keep", ![a].own = s]
    BY <1>2 DEF ApplyBinds
  <2>2. /\ admin[a].pc = "bind"
        /\ UNCHANGED <<saved, token, slot, conn, configLock, quitting, generated>>
    BY <1>2 DEF ApplyBinds
  <2> DEFINE me == [admin[a] EXCEPT !.pc = "keep", !.own = s]
  <2>3. admin'[a] = me /\ (\A b \in Admins : b # a => admin'[b] = admin[b])
        /\ admin' \in [Admins -> Caller]
    BY <1>0, <2>1 DEF Caller
  <2>4. me.pc = "keep" /\ me.enabled = admin[a].enabled /\ me.port = admin[a].port
        /\ me.read = admin[a].read /\ me.own = s
    BY <1>0 DEF Caller
  <2> HIDE DEF me
  <2>5. /\ server' \in [Servers -> Server]
        /\ \A r \in Servers : r # s => server'[r] = server[r]
        /\ server'[s].phase = "listening" /\ server'[s].port = saved.port
        /\ server'[s].read = saved.read
    BY <1>0, <2>1 DEF Server, Caller
  <2>6. ApiTypes'
    BY <2>2, <2>3, <2>5 DEF AInv, ApiTypes
  <2>7. OneCommand' /\ ApplyKnows' /\ TokenIsSaved'
    BY ZenonT(40), <1>0, <2>2, <2>3, <2>4 DEF AInv, OneCommand, ApplyKnows, TokenIsSaved, Applying
  <2>8. ListensAsSaved'
    <3>1. token # None /\ \A r \in Servers : server[r].phase # "listening"
      BY <1>0, <2>2 DEF AInv, ListensAsSaved, ApplyKnows
    <3> QED BY <1>0, <2>2, <2>3, <2>4, <2>5, <3>1 DEF ListensAsSaved
  <2>9. ServersAreKnown'
    <3>1. \A c \in Sockets : conn[c] # NotConnected => conn[c].server # s
      BY <2>1, ApiFacts DEF AInv, ServersAreKnown, Alive
    <3>2. ~quitting => \A r \in Servers : ~Alive(r)
      BY <1>0, <2>2 DEF AInv, ServersAreKnown
    <3> QED BY <1>0, <2>2, <2>3, <2>4, <2>5, <3>1, <3>2 DEF AInv, ServersAreKnown, Alive
  <2> QED BY <2>6, <2>7, <2>8, <2>9 DEF AInv
<1>3. CASE ApplyKeeps(a)
  <2>1. /\ admin[a].pc = "keep" /\ slot' = admin[a].own
        /\ admin' = [admin EXCEPT ![a] = NotAsked] /\ configLock' = Nobody
        /\ UNCHANGED <<saved, token, server, conn, quitting, generated>>
    BY <1>3 DEF ApplyKeeps, Returns
  <2>2. admin' \in [Admins -> Caller] /\ \A b \in Admins : admin'[b].pc = "idle"
    BY <1>0, <2>1, ApiFacts
  <2>3. ApiTypes'
    BY <1>0, <2>1, <2>2 DEF AInv, ApiTypes, Caller
  <2>4. OneCommand' /\ ApplyKnows' /\ TokenIsSaved'
    BY <1>0, <2>1, <2>2 DEF AInv, OneCommand, ApplyKnows, TokenIsSaved, Applying
  <2>5. ListensAsSaved'
    BY <1>0, <2>1, <2>2 DEF AInv, ListensAsSaved
  <2>6. ServersAreKnown'
    BY <1>0, <2>1, <2>2 DEF AInv, ServersAreKnown, Alive
  <2> QED BY <2>3, <2>4, <2>5, <2>6 DEF AInv
<1> QED BY <1>1, <1>2, <1>3

\* Rotations save first and install then.
LEMMA CredentialOK ==
    ASSUME AInv, NEW a \in Admins,
           \/ RegeneratePersists(a) \/ RegenerateInstalls(a)
           \/ ReadTokenPersists(a) \/ ReadTokenInstalls(a)
    PROVE  AInv'
<1>0. /\ admin \in [Admins -> Caller] /\ admin[a] \in Caller
      /\ saved \in [enabled : BOOLEAN, port : Ports, token : Tokens \cup {None},
                    read : Tokens \cup {None}]
      /\ token \in Tokens \cup {None} /\ None \notin Tokens
      /\ server \in [Servers -> Server] /\ slot \in Servers \cup {None} /\ None \notin Servers
      /\ admin[a].pc # "idle"
      /\ \A b \in Admins : b # a => admin[b].pc = "idle"
      /\ configLock = a
  <2>1. admin[a].pc # "idle"
    BY DEF RegeneratePersists, RegenerateInstalls, ReadTokenPersists, ReadTokenInstalls
  <2> QED BY <2>1, ApiFacts DEF AInv, ApiTypes, OneCommand
<1>1. CASE RegeneratePersists(a) \/ ReadTokenPersists(a)
  <2>1. \/ /\ admin[a].pc = "regenerate" /\ Fresh \in Tokens /\ generated' = Fresh
           /\ saved' = [saved EXCEPT !.token = Fresh]
           /\ admin' = [admin EXCEPT ![a].pc = "install"]
        \/ /\ Fresh \in Tokens /\ generated' = Fresh
           /\ saved' = [saved EXCEPT !.read = Fresh]
           /\ admin' = [admin EXCEPT ![a].pc = "installread"]
        \/ /\ generated' = generated
           /\ saved' = [saved EXCEPT !.read = None]
           /\ admin' = [admin EXCEPT ![a].pc = "installread"]
    BY <1>1 DEF RegeneratePersists, ReadTokenPersists, Moves
  <2>2. /\ admin[a].pc \in {"regenerate", "create", "rotate", "revoke"}
        /\ UNCHANGED <<token, slot, server, conn, configLock, quitting>>
    BY <1>1 DEF RegeneratePersists, ReadTokenPersists, Moves
  <2>3. /\ admin' \in [Admins -> Caller]
        /\ \A b \in Admins : b # a => admin'[b] = admin[b]
        /\ admin'[a].pc = "install" => saved'.read = saved.read /\ saved'.token # None
        /\ admin'[a].pc = "installread" => saved'.token = saved.token
        /\ admin'[a].pc \in {"install", "installread"}
        /\ saved'.enabled = saved.enabled /\ saved'.port = saved.port
        /\ saved' \in [enabled : BOOLEAN, port : Ports, token : Tokens \cup {None},
                       read : Tokens \cup {None}]
    BY <1>0, <2>1 DEF Caller
  <2>4. generated' \in 0..MaxTokens
    BY <2>1, ApiAssumption DEF Tokens, AInv, ApiTypes
  <2>5. ApiTypes'
    BY <2>2, <2>3, <2>4 DEF AInv, ApiTypes
  <2>6. OneCommand' /\ ApplyKnows' /\ TokenIsSaved'
    BY <1>0, <2>2, <2>3 DEF AInv, OneCommand, ApplyKnows, TokenIsSaved, Applying
  <2>7. ListensAsSaved'
    BY <1>0, <2>2, <2>3 DEF AInv, ListensAsSaved
  <2>8. ServersAreKnown'
    BY <1>0, <2>2, <2>3 DEF AInv, ServersAreKnown, Alive
  <2> QED BY <2>5, <2>6, <2>7, <2>8 DEF AInv
<1>2. CASE RegenerateInstalls(a)
  <2>1. /\ admin[a].pc = "install" /\ token' = saved.token
        /\ admin' = [admin EXCEPT ![a] = NotAsked] /\ configLock' = Nobody
        /\ UNCHANGED <<saved, slot, server, conn, quitting, generated>>
    BY <1>2 DEF RegenerateInstalls, Returns
  <2>2. admin' \in [Admins -> Caller] /\ \A b \in Admins : admin'[b].pc = "idle"
    BY <1>0, <2>1, ApiFacts
  <2>3. saved.token # None
    BY <2>1 DEF AInv, ApplyKnows
  <2>4. ApiTypes'
    BY <1>0, <2>1, <2>2 DEF AInv, ApiTypes
  <2>5. OneCommand' /\ ApplyKnows' /\ TokenIsSaved'
    BY <1>0, <2>1, <2>2 DEF AInv, OneCommand, ApplyKnows, TokenIsSaved, Applying
  <2>6. ListensAsSaved'
    BY <1>0, <2>1, <2>2, <2>3 DEF AInv, ListensAsSaved
  <2>7. ServersAreKnown'
    BY <1>0, <2>1, <2>2 DEF AInv, ServersAreKnown, Alive
  <2> QED BY <2>4, <2>5, <2>6, <2>7 DEF AInv
<1>3. CASE ReadTokenInstalls(a)
  <2>1. /\ admin[a].pc = "installread"
        /\ server' = [s \in Servers |-> IF s = slot THEN [server[s] EXCEPT !.read = saved.read]
                                        ELSE server[s]]
        /\ admin' = [admin EXCEPT ![a] = NotAsked] /\ configLock' = Nobody
        /\ UNCHANGED <<saved, token, slot, conn, quitting, generated>>
    BY <1>3 DEF ReadTokenInstalls, Returns
  <2>2. admin' \in [Admins -> Caller] /\ \A b \in Admins : admin'[b].pc = "idle"
    BY <1>0, <2>1, ApiFacts
  <2>3. /\ server' \in [Servers -> Server]
        /\ \A s \in Servers : server'[s].phase = server[s].phase /\ server'[s].port = server[s].port
        /\ \A s \in Servers : s = slot => server'[s].read = saved.read
    BY <1>0, <2>1 DEF Server
  <2>4. ApiTypes'
    BY <1>0, <2>1, <2>2, <2>3 DEF AInv, ApiTypes
  <2>5. OneCommand' /\ ApplyKnows' /\ TokenIsSaved'
    BY <1>0, <2>1, <2>2 DEF AInv, OneCommand, ApplyKnows, TokenIsSaved, Applying
  <2>6. ListensAsSaved'
    BY <1>0, <2>1, <2>2, <2>3 DEF AInv, ListensAsSaved
  <2>7. ServersAreKnown'
    BY <1>0, <2>1, <2>2, <2>3 DEF AInv, ServersAreKnown, Alive
  <2> QED BY <2>4, <2>5, <2>6, <2>7 DEF AInv
<1> QED BY <1>1, <1>2, <1>3

\* Connections come and go, and serve tasks end.
LEMMA ConnectionsOK ==
    ASSUME AInv,
           \/ \E c \in Sockets : Connect(c) \/ Request(c) \/ Replies(c) \/ Disconnect(c)
           \/ \E s \in Servers : ServeBreaks(s) \/ ServeEnds(s)
    PROVE  AInv'
<1>0. /\ server \in [Servers -> Server] /\ conn \in [Sockets -> Connection]
      /\ NotConnected \in Connection
      /\ \A c \in Sockets : conn[c] # NotConnected =>
            conn[c].server \in Servers /\ Alive(conn[c].server)
  BY ApiFacts DEF AInv, ApiTypes, ServersAreKnown
<1>1. ASSUME NEW c \in Sockets, Connect(c) \/ Request(c) \/ Replies(c) \/ Disconnect(c)
      PROVE  AInv'
  <2>1. UNCHANGED <<saved, token, slot, server, admin, configLock, quitting, generated>>
    BY <1>1 DEF Connect, Request, Replies, Disconnect
  <2>2. \E v \in Connection :
            /\ conn' = [conn EXCEPT ![c] = v]
            /\ v # NotConnected => v.server \in Servers /\ Alive(v.server)
    <3>1. CASE Connect(c)
      <4>1. PICK s \in Servers : /\ server[s].phase \in {"listening", "signalled"}
                                 /\ conn' = [conn EXCEPT ![c] = [server |-> s, doing |-> "reading"]]
        BY <3>1 DEF Connect
      <4>2. [server |-> s, doing |-> "reading"] \in Connection /\ Alive(s)
        BY <4>1 DEF Connection, Alive
      <4> QED BY <4>1, <4>2
    <3>2. CASE Request(c)
      <4> DEFINE v == [conn[c] EXCEPT !.doing = "answering"]
      <4>1. conn' = [conn EXCEPT ![c] = v] /\ conn[c] # NotConnected
        BY <3>2 DEF Request, NotConnected
      <4>2. v \in Connection /\ v.server = conn[c].server
        BY <1>0 DEF Connection
      <4> QED BY <1>0, <4>1, <4>2
    <3>3. CASE Replies(c)
      <4> DEFINE v == [conn[c] EXCEPT !.doing = "reading"]
      <4>1. conn[c] # NotConnected
            /\ (conn' = [conn EXCEPT ![c] = v] \/ conn' = [conn EXCEPT ![c] = NotConnected])
        <5>1. conn[c] # NotConnected
          BY <3>3 DEF Replies, NotConnected
        <5>2. CASE server[conn[c].server].phase = "listening"
          BY <3>3, <5>1, <5>2 DEF Replies
        <5>3. CASE server[conn[c].server].phase # "listening"
          BY <3>3, <5>1, <5>3 DEF Replies
        <5> QED BY <5>1, <5>2, <5>3
      <4>2. v \in Connection /\ v.server = conn[c].server
        BY <1>0 DEF Connection
      <4> QED BY <1>0, <4>1, <4>2
    <3>4. CASE Disconnect(c)
      BY <1>0, <3>4 DEF Disconnect
    <3> QED BY <1>1, <3>1, <3>2, <3>3, <3>4
  <2>3. conn' \in [Sockets -> Connection]
    BY <1>0, <2>2
  <2>4. ApiTypes'
    BY <2>1, <2>3 DEF AInv, ApiTypes
  <2>5. OneCommand' /\ ApplyKnows' /\ TokenIsSaved' /\ ListensAsSaved'
    BY <2>1 DEF AInv, OneCommand, ApplyKnows, TokenIsSaved, ListensAsSaved
  <2>6. ServersAreKnown'
    BY <1>0, <2>1, <2>2 DEF AInv, ServersAreKnown, Alive
  <2> QED BY <2>4, <2>5, <2>6 DEF AInv
<1>2. ASSUME NEW s \in Servers, ServeBreaks(s) \/ ServeEnds(s) PROVE AInv'
  <2>1. UNCHANGED <<saved, token, slot, admin, configLock, quitting, generated>>
    BY <1>2 DEF ServeBreaks, ServeEnds
  <2>2. /\ server' \in [Servers -> Server]
        /\ \A r \in Servers : r # s => server'[r] = server[r]
        /\ Alive(s) /\ server'[s].phase # "listening"
    BY <1>0, <1>2 DEF ServeBreaks, ServeEnds, Server, Alive
  <2>3. /\ conn' \in [Sockets -> Connection]
        /\ \A c \in Sockets : conn'[c] # NotConnected =>
              conn'[c] = conn[c] /\ (conn[c].server = s => server'[s].phase = "draining")
    <3>1. CASE ServeBreaks(s)
      BY <1>0, <3>1 DEF ServeBreaks, Server
    <3>2. CASE ServeEnds(s)
      BY <1>0, <3>2 DEF ServeEnds
    <3> QED BY <1>2, <3>1, <3>2
  <2>4. ApiTypes'
    BY <2>1, <2>2, <2>3 DEF AInv, ApiTypes
  <2>5. OneCommand' /\ ApplyKnows' /\ TokenIsSaved' /\ ListensAsSaved'
    BY <2>1, <2>2 DEF AInv, OneCommand, ApplyKnows, TokenIsSaved, ListensAsSaved
  <2>6. ServersAreKnown'
    <3>1. \A c \in Sockets : conn'[c] # NotConnected =>
              conn'[c].server \in Servers /\ Alive(conn[c].server)'
      BY <1>0, <2>2, <2>3 DEF Alive
    <3>2. ~quitting' => \A r \in Servers : Alive(r)' => Alive(r)
      BY <2>2 DEF Alive
    <3> QED BY <2>1, <3>1, <3>2 DEF AInv, ServersAreKnown
  <2> QED BY <2>4, <2>5, <2>6 DEF AInv
<1> QED BY <1>1, <1>2

\* Quitting stops the server in the slot; a restart begins anew.
LEMMA ProcessOK ==
    ASSUME AInv, Quit \/ ApiRestart
    PROVE  AInv'
<1>0. /\ server \in [Servers -> Server] /\ None \notin Servers /\ slot \in Servers \cup {None}
      /\ NotConnected \in Connection /\ NotAsked \in Caller /\ NotAsked.pc = "idle"
  BY ApiFacts DEF AInv, ApiTypes
<1>1. CASE Quit
  <2>1. /\ quitting' = TRUE /\ slot' = None
        /\ UNCHANGED <<saved, token, conn, admin, configLock, generated>>
    BY <1>1 DEF Quit
  <2>2. /\ server' \in [Servers -> Server]
        /\ \A s \in Servers : s # slot => server'[s] = server[s]
        /\ \A s \in Servers : s = slot => server'[s].phase = "signalled"
    BY <1>0, <1>1 DEF Quit, Server
  <2>3. ApiTypes'
    BY <2>1, <2>2 DEF AInv, ApiTypes
  <2>4. OneCommand' /\ ApplyKnows' /\ TokenIsSaved'
    BY <2>1 DEF AInv, OneCommand, ApplyKnows, TokenIsSaved
  <2>5. ListensAsSaved'
    BY <2>1, <2>2 DEF AInv, ListensAsSaved
  <2>6. ServersAreKnown'
    BY <2>1, <2>2 DEF AInv, ServersAreKnown, Alive
  <2> QED BY <2>3, <2>4, <2>5, <2>6 DEF AInv
<1>2. CASE ApiRestart
  <2>1. /\ token' = None /\ slot' = None /\ configLock' = Nobody /\ quitting' = FALSE
        /\ UNCHANGED <<saved, generated>>
        /\ conn' = [c \in Sockets |-> NotConnected]
        /\ admin' = [a \in Admins |-> NotAsked]
    BY <1>2 DEF ApiRestart
  <2>2. /\ server' \in [Servers -> Server]
        /\ \A s \in Servers : server'[s].phase \in {"unused", "gone"}
    BY <1>0, <1>2 DEF ApiRestart, Server, Alive
  <2>3. ApiTypes'
    BY <1>0, <2>1, <2>2 DEF AInv, ApiTypes
  <2>4. OneCommand' /\ ApplyKnows' /\ TokenIsSaved'
    BY <1>0, <2>1 DEF OneCommand, ApplyKnows, TokenIsSaved, Applying
  <2>5. ListensAsSaved'
    BY <2>2 DEF ListensAsSaved
  <2>6. ServersAreKnown'
    BY <2>1, <2>2 DEF ServersAreKnown, Alive
  <2> QED BY <2>3, <2>4, <2>5, <2>6 DEF AInv
<1> QED BY <1>1, <1>2

\* AInv is inductive.
LEMMA ApiStep == AInv /\ [ApiNext]_apiVars => AInv'
<1> SUFFICES ASSUME AInv, [ApiNext]_apiVars PROVE AInv'
  OBVIOUS
<1>1. CASE UNCHANGED apiVars
  BY <1>1 DEF apiVars, AInv, ApiTypes, OneCommand, ApplyKnows, TokenIsSaved, ListensAsSaved,
              ServersAreKnown, Alive
<1>2. ASSUME NEW a \in Admins,
             \/ Command(a) \/ Autostart(a) \/ CommandFails(a)
             \/ ApplyPersists(a) \/ ApplyTakes(a) \/ ApplyStopped(a) \/ ApplyToken(a)
             \/ ApplyFails(a) \/ ApplyBinds(a) \/ ApplyKeeps(a)
             \/ RegeneratePersists(a) \/ RegenerateInstalls(a)
             \/ ReadTokenRefused(a) \/ ReadTokenPersists(a) \/ ReadTokenInstalls(a)
      PROVE  AInv'
  BY <1>2, CommandOK, ApplyBeginsOK, ApplyEndsOK, CredentialOK
<1> QED BY <1>1, <1>2, ConnectionsOK, ProcessOK DEF ApiNext

\* local_api.rs, the commands over config_lock: whatever commands overlap, fail
\* half way or are cut off by a restart, the server that listens once they have
\* returned is the one in the slot, and it serves the port and the credentials
\* that were saved.
THEOREM ServesWhatWasSaved == ApiSpec => []ServerIsAsSaved
<1>1. AInv => ServerIsAsSaved
  BY ApiFacts DEF AInv, ServerIsAsSaved, ListensAsSaved, TokenIsSaved
<1> QED BY <1>1, ApiInitInv, ApiStep, PTL DEF ApiSpec

\* ApiServer::stop: no connection outlives the command that disabled or replaced
\* its server, for any number of sockets and whatever was being answered.
THEOREM NobodyIsLeftConnected == ApiSpec => []DisabledServesNobody
<1>1. AInv => DisabledServesNobody
  BY ApiFacts DEF AInv, DisabledServesNobody, ServersAreKnown
<1> QED BY <1>1, ApiInitInv, ApiStep, PTL DEF ApiSpec

\* The server, its connections and the saved configuration keep their types.
LEMMA ApiTypesOK == ApiSpec => []ApiTypeOK
<1>1. AInv => ApiTypeOK
  <2> SUFFICES ASSUME AInv PROVE ApiTypeOK
    OBVIOUS
  <2>1. /\ \A s \in Servers : server[s].phase \in {"unused", "listening", "signalled", "draining", "gone"}
        /\ \A c \in Sockets : conn[c].doing \in {"closed", "reading", "answering"}
    BY DEF AInv, ApiTypes, Server, Connection
  <2> QED BY <2>1 DEF AInv, ApiTypes, ApiTypeOK
<1> QED BY <1>1, ApiInitInv, ApiStep, PTL DEF ApiSpec

-----------------------------------------------------------------------------
(* Numbers and sets: the n-th of a set of numbers, for n up to its size, are *)
(* the whole of it.                                                          *)

\* Nth enumerates a finite set of numbers: the receipts to redirect, in their order.
LEMMA NthOf ==
    ASSUME NEW m \in Nat, NEW S \in SUBSET (1..m)
    PROVE  /\ Cardinality(S) \in Nat
           /\ \A n \in 1..Cardinality(S) : Nth(S, n) \in S
           /\ \A i \in S : \E n \in 1..Cardinality(S) : Nth(S, n) = i
<1> DEFINE UpTo(i) == {y \in S : y <= i}
           c == Cardinality(S)
           rank == [i \in S |-> Cardinality(UpTo(i))]
<1>1. IsFiniteSet(S) /\ c \in Nat
  <2>1. IsFiniteSet(1..m)
    BY FS_Interval
  <2> QED BY <2>1, FS_Subset, FS_CardinalityType
<1>2. ASSUME NEW i \in S
      PROVE  IsFiniteSet(UpTo(i)) /\ Cardinality(UpTo(i)) \in 1..c
  <2>1. UpTo(i) \in SUBSET S /\ UpTo(i) # {}
    BY <1>2
  <2> HIDE DEF UpTo
  <2>2. IsFiniteSet(UpTo(i)) /\ Cardinality(UpTo(i)) <= c /\ Cardinality(UpTo(i)) \in Nat
    BY <1>1, <2>1, FS_Subset, FS_CardinalityType
  <2>3. Cardinality(UpTo(i)) # 0
    BY <2>1, <2>2, FS_EmptySet
  <2> QED BY <1>1, <2>2, <2>3
<1>3. ASSUME NEW i \in S, NEW j \in S, i < j, Cardinality(UpTo(i)) = Cardinality(UpTo(j))
      PROVE  FALSE
  <2>0. i \in Int /\ j \in Int /\ \A y \in S : y \in Int
    OBVIOUS
  <2>1. UpTo(i) \in SUBSET UpTo(j) /\ j \in UpTo(j) /\ j \notin UpTo(i)
    <3>1. \A y \in S : y <= i => y <= j
      BY <1>3, <2>0
    <3>2. j <= j /\ ~(j <= i)
      BY <1>3, <2>0
    <3> QED BY <3>1, <3>2
  <2>2. IsFiniteSet(UpTo(j))
    BY <1>2
  <2> HIDE DEF UpTo
  <2> QED BY <1>3, <2>1, <2>2, FS_Subset
<1>4. \A i, j \in S : Cardinality(UpTo(i)) = Cardinality(UpTo(j)) => i = j
  <2> SUFFICES ASSUME NEW i \in S, NEW j \in S,
                      Cardinality(UpTo(i)) = Cardinality(UpTo(j)), i # j
               PROVE FALSE
    OBVIOUS
  <2>1. i \in Int /\ j \in Int
    OBVIOUS
  <2>2. i < j \/ j < i
    BY <2>1
  <2> HIDE DEF UpTo
  <2> QED BY <1>3, <2>2
<1>5. rank \in [S -> 1..c]
  <2> HIDE DEF UpTo, c
  <2> QED BY <1>2
<1>6. rank \in Injection(S, 1..c)
  <2> HIDE DEF UpTo, c
  <2> QED BY <1>4, <1>5 DEF Injection, IsInjective
<1>7. rank \in Surjection(S, 1..c)
  <2> HIDE DEF rank
  <2>1. IsFiniteSet(1..c) /\ Cardinality(1..c) = c
    BY <1>1, FS_Interval
  <2> QED BY <1>6, <2>1, FS_Injection
<1>8. ASSUME NEW n \in 1..c PROVE Nth(S, n) \in S
  <2>1. \E i \in S : Cardinality(UpTo(i)) = n
    <3> HIDE DEF UpTo, c
    <3> QED BY <1>7, <1>8 DEF Surjection
  <2> QED BY <2>1 DEF Nth
<1>9. ASSUME NEW i \in S PROVE Nth(S, Cardinality(UpTo(i))) = i
  <2> DEFINE n == Cardinality(UpTo(i))
  <2>1. /\ Nth(S, n) \in S /\ Cardinality(UpTo(Nth(S, n))) = n
    <3>1. \E x \in S : Cardinality({y \in S : y <= x}) = n
      BY <1>9
    <3> HIDE DEF n
    <3> QED BY <3>1 DEF Nth
  <2> HIDE DEF UpTo
  <2> QED BY <1>4, <1>9, <2>1
<1> QED BY <1>1, <1>2, <1>8, <1>9

-----------------------------------------------------------------------------
(* The reports.  The worker lists a run's receipts once and finds none of    *)
(* them unknown; from then on the run has no others, and those it is through *)
(* with are confirmed or reviewed.  A receipt is Sending while the worker    *)
(* has it, or since a store call left its run half way.                      *)

Run == [phase : {"absent", "queued", "running", "blocked", "finished"},
        outcome : {"none", "deliver", "nodata", "blocked", "failed"},
        skipped : BOOLEAN, of : 0..MaxRuns, enabled : BOOLEAN, chat : Chats \cup {"none"}]
Receipt == [run : Runs, chunk : Chunks, chat : Chats, of : 0..MaxDeliveries,
            state : {"Pending", "Sending", "Succeeded", "Failed", "Reviewed", "UnknownDelivery"},
            attempt : Nat, due : BOOLEAN]
Reporter == [pc : {"idle", "generate", "open", "check", "next", "lock", "sent", "accepted"},
             run : 0..MaxRuns, todo : SUBSET Deliveries, item : 0..MaxDeliveries]

ReportTypes ==
    /\ telegram \in [enabled : BOOLEAN, chat : Chats]
    /\ run \in [Runs -> Run]
    /\ \A r \in Runs : run[r].enabled => run[r].chat \in Chats
    /\ delivery \in Seq(Receipt) /\ Len(delivery) <= MaxDeliveries
    /\ reporter \in Reporter
    /\ reporter.pc = "idle" => reporter = NoWork
    /\ reporter.pc # "idle" => reporter.run \in Runs
    /\ accepted \in [Deliveries -> Nat] /\ lost \subseteq Deliveries /\ halfway \subseteq Runs

Over == {"Succeeded", "Reviewed"}

WorkerKnows ==
    /\ reporter.pc \in {"check", "next", "lock", "sent", "accepted"} =>
          /\ reporter.todo \subseteq Receipts(reporter.run)
          /\ \A i \in Receipts(reporter.run) :
                /\ delivery[i].state # "UnknownDelivery"
                /\ i \notin reporter.todo =>
                      \/ delivery[i].state \in Over
                      \/ reporter.pc \in {"lock", "sent", "accepted"} /\ i = reporter.item
    /\ reporter.pc \in {"lock", "sent", "accepted"} => reporter.item \in Receipts(reporter.run)
    /\ reporter.pc = "lock" =>
          /\ delivery[reporter.item].state \notin Over
          /\ \A j \in Receipts(reporter.run) :
                delivery[j].chunk < delivery[reporter.item].chunk => delivery[j].state \in Over
    /\ reporter.pc \in {"sent", "accepted"} => delivery[reporter.item].state = "Sending"

SendingIsKnown ==
    \A i \in DOMAIN delivery : delivery[i].state = "Sending" =>
        \/ delivery[i].run \in halfway
        \/ reporter.pc \in {"sent", "accepted"} /\ reporter.item = i

\* What Telegram accepted has a receipt that says so, or may.
AcceptedIsKnown ==
    /\ \A i \in Deliveries \ DOMAIN delivery : accepted[i] = 0
    /\ \A i \in DOMAIN delivery : i \notin lost =>
          \/ accepted[i] = 0
          \/ /\ accepted[i] = 1
             /\ \/ delivery[i].state \in Over \cup {"UnknownDelivery"}
                \/ reporter.pc = "accepted" /\ reporter.item = i

FamilyIsFree ==
    reporter.pc = "lock" /\ delivery[reporter.item].of = 0 =>
        \A j \in DOMAIN delivery : delivery[j].run # delivery[reporter.item].run =>
            delivery[j].state \notin {"Succeeded", "UnknownDelivery"}

\* A digest is created whole, and a successor after what it succeeds.
DigestsAreWhole ==
    /\ \A i \in DOMAIN delivery : \A c \in Chunks :
          \E j \in Receipts(delivery[i].run) : delivery[j].chunk = c
    /\ \A i \in DOMAIN delivery : delivery[i].of # 0 =>
          /\ delivery[i].of < i
          /\ delivery[delivery[i].of].run = delivery[i].run
          /\ delivery[delivery[i].of].chunk = delivery[i].chunk

\* The earlier chunks of one that is to be sent are addressed to the same chat,
\* or are the user's to decide about.
EarlierAddressed ==
    \A i \in DOMAIN delivery : delivery[i].run \notin halfway /\ delivery[i].state \notin Over =>
        \A c \in 1..(delivery[i].chunk - 1) : \E j \in Receipts(delivery[i].run) :
            /\ delivery[j].chunk = c
            /\ delivery[j].chat = delivery[i].chat
                 \/ delivery[j].state \in {"Reviewed", "UnknownDelivery"}

RInv ==
    /\ ReportTypes /\ WorkerKnows /\ SendingIsKnown /\ AcceptedIsKnown /\ FamilyIsFree
    /\ DigestsAreWhole /\ EarlierAddressed

\* What the invariant says of the receipts' fields and numbers.
LEMMA ReportFacts ==
    ASSUME RInv
    PROVE  /\ Len(delivery) \in Nat /\ DOMAIN delivery = 1..Len(delivery)
           /\ DOMAIN delivery \subseteq Deliveries /\ Deliveries \subseteq Nat
           /\ \A i \in DOMAIN delivery :
                 /\ delivery[i] \in Receipt /\ delivery[i].run \in Runs
                 /\ delivery[i].chunk \in Chunks /\ delivery[i].chunk \in Int /\ i \in Int
                 /\ delivery[i].of \in 0..MaxDeliveries /\ delivery[i].of \in Int
           /\ \A r : Receipts(r) \subseteq DOMAIN delivery
           /\ NoWork \in Reporter /\ NoWork.pc = "idle"
           /\ MaxDeliveries \in Nat /\ NumChunks \in Nat \ {0} /\ MaxRuns \in Nat \ {0}
           /\ 0 \notin Runs
<1>1. /\ MaxDeliveries \in Nat /\ NumChunks \in Nat \ {0} /\ MaxRuns \in Nat \ {0} /\ 0 \notin Runs
      /\ Deliveries \subseteq Nat
  BY ReportAssumption DEF Runs, Deliveries
<1>2. NoWork \in Reporter /\ NoWork.pc = "idle"
  BY <1>1 DEF NoWork, Reporter
<1>3. delivery \in Seq(Receipt) /\ Len(delivery) <= MaxDeliveries
  BY DEF RInv, ReportTypes
<1>4. Len(delivery) \in Nat /\ DOMAIN delivery = 1..Len(delivery)
  BY <1>3
<1>5. DOMAIN delivery \subseteq Deliveries
  BY <1>1, <1>3, <1>4 DEF Deliveries
<1>6. \A i \in DOMAIN delivery : delivery[i] \in Receipt
  BY <1>3, <1>4
<1>7. \A i \in DOMAIN delivery :
         /\ delivery[i].run \in Runs /\ delivery[i].chunk \in Chunks /\ delivery[i].chunk \in Int
         /\ i \in Int /\ delivery[i].of \in 0..MaxDeliveries /\ delivery[i].of \in Int
  BY <1>1, <1>4, <1>6 DEF Receipt, Chunks
<1>8. \A r : Receipts(r) \subseteq DOMAIN delivery
  BY DEF Receipts
<1> QED BY <1>1, <1>2, <1>4, <1>5, <1>6, <1>7, <1>8

\* At the start there is no receipt.
LEMMA ReportInitInv == ReportInit => RInv
<1> SUFFICES ASSUME ReportInit PROVE RInv
  OBVIOUS
<1>0. MaxDeliveries \in Nat /\ MaxRuns \in Nat \ {0}
  BY ReportAssumption
<1>1. NoWork \in Reporter /\ NoWork.pc = "idle"
  BY <1>0 DEF NoWork, Reporter
<1>2. /\ telegram \in [enabled : BOOLEAN, chat : Chats] /\ telegram.chat \in Chats
      /\ Absent \in Run /\ Absent.enabled = FALSE
  <2>1. telegram \in [enabled : BOOLEAN, chat : Chats] /\ telegram.chat \in Chats
    BY DEF ReportInit
  <2>2. Absent \in Run /\ Absent.enabled = FALSE
    <3>1. 0 \in 0..MaxRuns
      BY <1>0
    <3> QED BY <3>1 DEF Absent, Run
  <2> QED BY <2>1, <2>2
<1>3. run \in [Runs -> Run] /\ \A r \in Runs : run[r].enabled => run[r].chat \in Chats
  <2> DEFINE first == [Absent EXCEPT !.phase = "queued", !.enabled = TRUE, !.chat = telegram.chat]
  <2>1. first \in Run /\ first.chat \in Chats
    BY <1>2 DEF Absent, Run
  <2>2. run = [r \in Runs |-> IF r = 1 THEN first ELSE Absent]
    BY DEF ReportInit
  <2> HIDE DEF first
  <2> QED BY <1>2, <2>1, <2>2
<1>4. delivery = <<>> /\ delivery \in Seq(Receipt) /\ Len(delivery) = 0 /\ DOMAIN delivery = {}
  BY DEF ReportInit
<1>5. reporter = NoWork /\ accepted = [i \in Deliveries |-> 0] /\ lost = {} /\ halfway = {}
  BY DEF ReportInit
<1>6. ReportTypes
  BY <1>0, <1>1, <1>2, <1>3, <1>4, <1>5 DEF ReportTypes
<1> QED BY <1>1, <1>4, <1>5, <1>6
        DEF RInv, WorkerKnows, SendingIsKnown, AcceptedIsKnown, FamilyIsFree, DigestsAreWhole,
            EarlierAddressed

\* The receipts stay; the worker claims, rests, or looks.
LEMMA ReceiptsStay ==
    ASSUME RInv, delivery' = delivery, halfway \subseteq halfway'
    PROVE  DigestsAreWhole' /\ EarlierAddressed' /\ \A r : Receipts(r)' = Receipts(r)
BY DEF RInv, DigestsAreWhole, EarlierAddressed, Receipts

\* The worker begins, or gives up.
LEMMA WorkerMovesOK ==
    ASSUME RInv, delivery' = delivery, UNCHANGED <<telegram, accepted, halfway, lost>>,
           reporter.pc \notin {"sent", "accepted"},
           reporter' \in Reporter, reporter'.pc \in {"idle", "generate", "open"},
           reporter'.pc = "idle" => reporter' = NoWork,
           reporter'.pc # "idle" => reporter'.run \in Runs,
           run' \in [Runs -> Run], \A r \in Runs : run'[r].enabled => run'[r].chat \in Chats
    PROVE  RInv'
<1>1. ReportTypes'
  BY DEF RInv, ReportTypes
<1>2. WorkerKnows' /\ FamilyIsFree'
  BY DEF WorkerKnows, FamilyIsFree
<1>3. SendingIsKnown' /\ AcceptedIsKnown'
  BY DEF RInv, SendingIsKnown, AcceptedIsKnown
<1> QED BY <1>1, <1>2, <1>3, ReceiptsStay DEF RInv

\* One step at a time: a run is claimed or taken up again,
LEMMA ClaimOK ==
    ASSUME RInv, NEW r \in Runs, Claim(r) \/ Resume(r)
    PROVE  RInv'
<1>0. /\ run \in [Runs -> Run] /\ \A q \in Runs : run[q].enabled => run[q].chat \in Chats
      /\ reporter.pc = "idle" /\ r \in 0..MaxRuns
      /\ UNCHANGED <<telegram, delivery, accepted, lost, halfway>>
  BY ReportFacts DEF RInv, ReportTypes, Claim, Resume, Active, Runs
<1>1. reporter' \in Reporter /\ reporter'.pc \in {"generate", "open"} /\ reporter'.run = r
  BY <1>0, ReportFacts DEF Claim, Resume, NoWork, Reporter
<1>2. run' \in [Runs -> Run] /\ \A q \in Runs : run'[q].enabled => run'[q].chat \in Chats
  <2>1. CASE run' = [run EXCEPT ![r].phase = "running"]
    BY <1>0, <2>1 DEF Run
  <2>2. CASE run' = run
    BY <1>0, <2>2
  <2> QED BY <2>1, <2>2 DEF Claim, Resume
<1> QED BY <1>0, <1>1, <1>2, WorkerMovesOK

\* its digest is written,
LEMMA GenerateOK ==
    ASSUME RInv, Generate
    PROVE  RInv'
<1> DEFINE r == reporter.run
<1>0. /\ run \in [Runs -> Run] /\ \A q \in Runs : run[q].enabled => run[q].chat \in Chats
      /\ reporter \in Reporter /\ reporter.pc = "generate" /\ r \in Runs /\ run[r] \in Run
      /\ UNCHANGED <<telegram, delivery, accepted, lost, halfway>>
  BY DEF RInv, ReportTypes, Generate
<1>1. reporter' \in Reporter /\ reporter'.pc = "open" /\ reporter'.run = r
  BY <1>0 DEF Generate, Reporter
<1>2. PICK outcome \in {"none", "deliver", "nodata", "blocked", "failed"} :
        run' = [run EXCEPT ![r].outcome = outcome,
                           ![r].phase = IF outcome = "blocked" THEN "blocked" ELSE "finished"]
  <2>1. run[r].outcome \in {"none", "deliver", "nodata", "blocked", "failed"}
    BY <1>0 DEF Run
  <2> QED BY <2>1 DEF Generate
<1>3. run' \in [Runs -> Run] /\ \A q \in Runs : run'[q].enabled => run'[q].chat \in Chats
  BY <1>0, <1>2 DEF Run
<1> QED BY <1>0, <1>1, <1>3, WorkerMovesOK

\* One receipt changes what it says, and not what it is.
LEMMA ReceiptMoves ==
    ASSUME RInv, NEW i \in DOMAIN delivery, NEW v \in Receipt,
           delivery' = [delivery EXCEPT ![i] = v], halfway' = halfway,
           v.run = delivery[i].run, v.chunk = delivery[i].chunk, v.chat = delivery[i].chat,
           v.of = delivery[i].of,
           delivery[i].state \in Over => v.state \in Over,
           delivery[i].state \in {"Reviewed", "UnknownDelivery"} =>
               v.state \in {"Reviewed", "UnknownDelivery"}
    PROVE  /\ delivery' \in Seq(Receipt) /\ Len(delivery') = Len(delivery)
           /\ DOMAIN delivery' = DOMAIN delivery
           /\ \A r : Receipts(r)' = Receipts(r)
           /\ delivery'[i] = v /\ \A j \in DOMAIN delivery : j # i => delivery'[j] = delivery[j]
           /\ DigestsAreWhole' /\ EarlierAddressed'
<1>1. delivery' \in Seq(Receipt) /\ Len(delivery') = Len(delivery)
  BY DEF RInv, ReportTypes
<1>2. /\ DOMAIN delivery' = DOMAIN delivery
      /\ delivery'[i] = v /\ \A j \in DOMAIN delivery : j # i => delivery'[j] = delivery[j]
  OBVIOUS
<1>3. \A j \in DOMAIN delivery :
         /\ delivery'[j].run = delivery[j].run /\ delivery'[j].chunk = delivery[j].chunk
         /\ delivery'[j].chat = delivery[j].chat /\ delivery'[j].of = delivery[j].of
         /\ delivery[j].state \in Over => delivery'[j].state \in Over
         /\ delivery[j].state \in {"Reviewed", "UnknownDelivery"} =>
               delivery'[j].state \in {"Reviewed", "UnknownDelivery"}
  BY <1>2
<1>4. \A r : Receipts(r)' = Receipts(r)
  BY <1>2, <1>3 DEF Receipts
<1>5. DigestsAreWhole'
  <2>1. \A j \in DOMAIN delivery : delivery[j].of # 0 => delivery[j].of \in DOMAIN delivery
    BY SMTT(30), ReportFacts DEF RInv, DigestsAreWhole
  <2>2. \A j \in DOMAIN delivery' : \A c \in Chunks :
          \E k \in Receipts(delivery[j].run) : delivery'[k].chunk = c
    BY <1>2, <1>3, ReportFacts DEF RInv, DigestsAreWhole
  <2>3. \A j \in DOMAIN delivery' : delivery'[j].of # 0 =>
          /\ delivery'[j].of < j
          /\ delivery'[delivery'[j].of].run = delivery'[j].run
          /\ delivery'[delivery'[j].of].chunk = delivery'[j].chunk
    BY <1>2, <1>3, <2>1 DEF RInv, DigestsAreWhole
  <2> QED BY <1>2, <1>3, <1>4, <2>2, <2>3 DEF DigestsAreWhole
<1>6. EarlierAddressed'
  <2> SUFFICES ASSUME NEW j \in DOMAIN delivery, delivery[j].run \notin halfway,
                      delivery[j].state \notin Over, NEW c \in 1..(delivery[j].chunk - 1)
               PROVE  \E k \in Receipts(delivery[j].run) :
                         /\ delivery'[k].chunk = c
                         /\ \/ delivery'[k].chat = delivery[j].chat
                            \/ delivery'[k].state \in {"Reviewed", "UnknownDelivery"}
    BY <1>2, <1>3, <1>4 DEF EarlierAddressed
  <2>1. PICK k \in Receipts(delivery[j].run) :
          /\ delivery[k].chunk = c
          /\ delivery[k].chat = delivery[j].chat
               \/ delivery[k].state \in {"Reviewed", "UnknownDelivery"}
    BY DEF RInv, EarlierAddressed
  <2> QED BY <1>3, <2>1, ReportFacts
<1> QED BY <1>1, <1>2, <1>4, <1>5, <1>6

\* Receipts are added to the list.
LEMMA ReceiptsAdded ==
    ASSUME RInv, NEW added \in Seq(Receipt), delivery' = delivery \o added
    PROVE  /\ delivery' \in Seq(Receipt) /\ Len(delivery') = Len(delivery) + Len(added)
           /\ DOMAIN delivery' = 1..(Len(delivery) + Len(added))
           /\ \A j \in DOMAIN delivery : delivery'[j] = delivery[j] /\ j \in DOMAIN delivery'
           /\ \A k \in 1..Len(added) : /\ delivery'[Len(delivery) + k] = added[k]
                                       /\ Len(delivery) + k \in DOMAIN delivery' \ DOMAIN delivery
           /\ \A j \in DOMAIN delivery' \ DOMAIN delivery :
                 \E k \in 1..Len(added) : j = Len(delivery) + k
<1>1. delivery \in Seq(Receipt) /\ Len(delivery) \in Nat /\ Len(added) \in Nat
      /\ DOMAIN delivery = 1..Len(delivery)
  BY ReportFacts DEF RInv, ReportTypes
<1>2. delivery' \in Seq(Receipt) /\ Len(delivery') = Len(delivery) + Len(added)
  BY <1>1
<1>3. DOMAIN delivery' = 1..(Len(delivery) + Len(added))
  BY <1>1, <1>2
<1>4. \A j \in DOMAIN delivery : delivery'[j] = delivery[j] /\ j \in DOMAIN delivery'
  BY <1>1, <1>2, <1>3
<1>5. \A k \in 1..Len(added) : /\ delivery'[Len(delivery) + k] = added[k]
                               /\ Len(delivery) + k \in DOMAIN delivery' \ DOMAIN delivery
  BY <1>1, <1>2, <1>3
<1>6. ASSUME NEW j \in DOMAIN delivery' \ DOMAIN delivery
      PROVE  \E k \in 1..Len(added) : j = Len(delivery) + k
  <2>1. j - Len(delivery) \in 1..Len(added) /\ j = Len(delivery) + (j - Len(delivery))
    BY <1>1, <1>3, <1>6
  <2> QED BY <2>1
<1> QED BY <1>2, <1>3, <1>4, <1>5, <1>6

\* its receipts are made, all chunks in one transaction,
LEMMA DeliverOpenOK ==
    ASSUME RInv, DeliverOpen
    PROVE  RInv'
<1> DEFINE r == reporter.run
           added == [c \in Chunks |-> Intent(r, c, run[r].chat, 0)]
           new == (Len(delivery) + 1)..(Len(delivery) + NumChunks)
<1>0. /\ run \in [Runs -> Run] /\ \A q \in Runs : run[q].enabled => run[q].chat \in Chats
      /\ reporter \in Reporter /\ reporter.pc = "open" /\ r \in Runs /\ run[r] \in Run
      /\ UNCHANGED <<telegram, accepted, lost, halfway>>
  BY DEF RInv, ReportTypes, DeliverOpen
<1>1. CASE Rests /\ UNCHANGED delivery /\ (run' = [run EXCEPT ![r].skipped = TRUE] \/ run' = run)
  <2>1. run' \in [Runs -> Run] /\ \A q \in Runs : run'[q].enabled => run'[q].chat \in Chats
    <3>1. CASE run' = run
      BY <1>0, <3>1
    <3>2. CASE run' = [run EXCEPT ![r].skipped = TRUE]
      <4> DEFINE mine == [run[r] EXCEPT !.skipped = TRUE]
      <4>1. mine \in Run /\ mine.enabled = run[r].enabled /\ mine.chat = run[r].chat
        BY <1>0 DEF Run
      <4>2. run' = [run EXCEPT ![r] = mine]
        BY <3>2
      <4> HIDE DEF mine
      <4> QED BY <1>0, <4>1, <4>2
    <3> QED BY <1>1, <3>1, <3>2
  <2> QED BY <1>0, <1>1, <2>1, WorkerMovesOK, ReportFacts DEF Rests
<1>2. CASE /\ reporter' = [reporter EXCEPT !.pc = "check", !.todo = Receipts(r)]
           /\ \A i \in Receipts(r) : delivery[i].state # "UnknownDelivery"
           /\ UNCHANGED <<run, delivery>>
  <2>1. /\ reporter' \in Reporter /\ reporter'.pc = "check" /\ reporter'.run = r
        /\ reporter'.todo = Receipts(r)
    BY <1>0, <1>2, ReportFacts DEF Reporter
  <2>2. ReportTypes'
    BY <1>0, <1>2, <2>1 DEF RInv, ReportTypes
  <2>3. DigestsAreWhole' /\ EarlierAddressed' /\ \A q : Receipts(q)' = Receipts(q)
    BY <1>0, <1>2, ReceiptsStay
  <2>4. WorkerKnows' /\ FamilyIsFree'
    BY <1>2, <2>1, <2>3 DEF WorkerKnows, FamilyIsFree
  <2>5. SendingIsKnown' /\ AcceptedIsKnown'
    BY <1>0, <1>2 DEF RInv, SendingIsKnown, AcceptedIsKnown
  <2> QED BY <2>2, <2>3, <2>4, <2>5 DEF RInv
<1>3. CASE /\ Receipts(r) = {} /\ run[r].enabled
           /\ Len(delivery) + NumChunks <= MaxDeliveries
           /\ delivery' = delivery \o added
           /\ reporter' = [reporter EXCEPT !.pc = "check", !.todo = new]
           /\ UNCHANGED run
  <2>1. /\ added \in Seq(Receipt) /\ Len(added) = NumChunks
        /\ \A c \in 1..NumChunks :
              /\ added[c].run = r /\ added[c].chunk = c /\ added[c].chat = run[r].chat
              /\ added[c].of = 0 /\ added[c].state = "Pending"
    <3>1. \A c \in Chunks : Intent(r, c, run[r].chat, 0) \in Receipt
      BY <1>0, <1>3, ReportFacts DEF Intent, Receipt
    <3>2. added \in [1..NumChunks -> Receipt] /\ NumChunks \in Nat
      BY <3>1, ReportFacts DEF Chunks
    <3>3. \A c \in 1..NumChunks : added[c] = Intent(r, c, run[r].chat, 0)
      BY DEF Chunks
    <3> HIDE DEF added
    <3>4. added \in Seq(Receipt) /\ Len(added) = NumChunks
      BY <3>2
    <3> QED BY <3>3, <3>4 DEF Intent
  <2> HIDE DEF added
  <2>2. /\ delivery' \in Seq(Receipt) /\ Len(delivery') = Len(delivery) + NumChunks
        /\ DOMAIN delivery' = 1..(Len(delivery) + NumChunks)
        /\ \A j \in DOMAIN delivery : delivery'[j] = delivery[j] /\ j \in DOMAIN delivery'
        /\ \A k \in 1..NumChunks : /\ delivery'[Len(delivery) + k] = added[k]
                                   /\ Len(delivery) + k \in DOMAIN delivery' \ DOMAIN delivery
        /\ \A j \in DOMAIN delivery' \ DOMAIN delivery :
              \E k \in 1..NumChunks : j = Len(delivery) + k
    BY <1>3, <2>1, ReceiptsAdded
  <2>3. /\ new = DOMAIN delivery' \ DOMAIN delivery
        /\ new \in SUBSET Deliveries
    BY <1>3, <2>2, ReportFacts DEF Deliveries
  <2>4. \A j \in new : /\ delivery'[j].run = r /\ delivery'[j].chunk \in 1..NumChunks
                       /\ delivery'[j].chat = run[r].chat
                       /\ delivery'[j].of = 0 /\ delivery'[j].state = "Pending"
    <3>1. ASSUME NEW j \in new
          PROVE  \E k \in 1..NumChunks : delivery'[j] = added[k]
      BY <2>2, <2>3
    <3> QED BY <2>1, <3>1
  <2>5. \A c \in 1..NumChunks : Len(delivery) + c \in new /\ delivery'[Len(delivery) + c].chunk = c
    BY <2>1, <2>2, <2>3
  <2>6. /\ Receipts(r)' = new
        /\ \A q : q # r => Receipts(q)' = Receipts(q)
    <3> HIDE DEF new
    <3> QED BY <1>3, <2>2, <2>3, <2>4 DEF Receipts
  <2>7. /\ reporter' \in Reporter /\ reporter'.pc = "check" /\ reporter'.run = r
        /\ reporter'.todo = new
    BY <1>0, <1>3, <2>3 DEF Reporter
  <2> HIDE DEF new
  <2>8. ReportTypes'
    BY <1>0, <1>3, <2>2, <2>7 DEF RInv, ReportTypes
  <2>9. WorkerKnows' /\ FamilyIsFree'
    BY <2>4, <2>6, <2>7 DEF WorkerKnows, FamilyIsFree
  <2>10. SendingIsKnown'
    BY <1>0, <2>2, <2>3, <2>4, <2>7 DEF RInv, SendingIsKnown
  <2>11. AcceptedIsKnown'
    BY <1>0, <2>2, <2>3, <2>7 DEF RInv, AcceptedIsKnown
  <2>12. DigestsAreWhole'
    <3>1. ASSUME NEW i \in DOMAIN delivery', NEW c \in Chunks
          PROVE  \E j \in DOMAIN delivery' :
                    delivery'[j].run = delivery'[i].run /\ delivery'[j].chunk = c
      <4>1. CASE i \in new
        BY <2>3, <2>4, <2>5, <4>1 DEF Chunks
      <4>2. CASE i \in DOMAIN delivery
        <5>1. PICK j \in DOMAIN delivery : delivery[j].run = delivery[i].run /\ delivery[j].chunk = c
          BY <4>2 DEF RInv, DigestsAreWhole, Receipts
        <5> QED BY <2>2, <4>2, <5>1
      <4> QED BY <2>3, <4>1, <4>2
    <3>2. ASSUME NEW i \in DOMAIN delivery', delivery'[i].of # 0
          PROVE  /\ delivery'[i].of < i
                 /\ delivery'[delivery'[i].of].run = delivery'[i].run
                 /\ delivery'[delivery'[i].of].chunk = delivery'[i].chunk
      <4>1. i \in DOMAIN delivery /\ delivery'[i] = delivery[i]
        BY <2>2, <2>3, <2>4, <3>2
      <4>2. /\ delivery[i].of < i
            /\ delivery[delivery[i].of].run = delivery[i].run
            /\ delivery[delivery[i].of].chunk = delivery[i].chunk
        BY <3>2, <4>1 DEF RInv, DigestsAreWhole
      <4>3. delivery[i].of \in DOMAIN delivery
        BY <3>2, <4>1, <4>2, ReportFacts
      <4> QED BY <2>2, <4>1, <4>2, <4>3
    <3> QED BY <3>1, <3>2 DEF DigestsAreWhole, Receipts
  <2>13. EarlierAddressed'
    <3>1. ASSUME NEW i \in DOMAIN delivery', delivery'[i].run \notin halfway,
                 delivery'[i].state \notin Over, NEW c \in 1..(delivery'[i].chunk - 1)
          PROVE  \E j \in DOMAIN delivery' :
                    /\ delivery'[j].run = delivery'[i].run /\ delivery'[j].chunk = c
                    /\ delivery'[j].chat = delivery'[i].chat
                         \/ delivery'[j].state \in {"Reviewed", "UnknownDelivery"}
      <4>1. CASE i \in new
        <5>1. c \in 1..NumChunks
          BY <2>4, <3>1, <4>1, ReportFacts
        <5> QED BY <2>3, <2>4, <2>5, <4>1, <5>1
      <4>2. CASE i \in DOMAIN delivery
        <5>1. PICK j \in DOMAIN delivery :
                /\ delivery[j].run = delivery[i].run /\ delivery[j].chunk = c
                /\ delivery[j].chat = delivery[i].chat
                     \/ delivery[j].state \in {"Reviewed", "UnknownDelivery"}
          BY <2>2, <3>1, <4>2 DEF RInv, EarlierAddressed, Receipts
        <5> QED BY <2>2, <4>2, <5>1
      <4> QED BY <2>3, <4>1, <4>2
    <3> QED BY <1>0, <3>1 DEF EarlierAddressed, Receipts
  <2> QED BY <2>8, <2>9, <2>10, <2>11, <2>12, <2>13 DEF RInv
<1> QED BY <1>1, <1>2, <1>3 DEF DeliverOpen

\* the settings are looked at,
LEMMA DeliverCheckOK ==
    ASSUME RInv, DeliverCheck
    PROVE  RInv'
<1>0. /\ reporter \in Reporter /\ reporter.pc = "check"
      /\ UNCHANGED <<telegram, run, delivery, accepted, lost, halfway>>
  BY DEF RInv, ReportTypes, DeliverCheck
<1>1. CASE Rests
  BY <1>0, <1>1, WorkerMovesOK, ReportFacts DEF Rests, RInv, ReportTypes
<1>2. CASE reporter' = [reporter EXCEPT !.pc = "next"]
  <2>1. /\ reporter' \in Reporter /\ reporter'.pc = "next" /\ reporter'.run = reporter.run
        /\ reporter'.todo = reporter.todo
    BY <1>0, <1>2 DEF Reporter
  <2>2. ReportTypes'
    BY <1>0, <2>1 DEF RInv, ReportTypes
  <2>3. WorkerKnows' /\ FamilyIsFree'
    BY <1>0, <2>1 DEF RInv, WorkerKnows, FamilyIsFree, Receipts
  <2>4. SendingIsKnown' /\ AcceptedIsKnown'
    BY <1>0, <2>1 DEF RInv, SendingIsKnown, AcceptedIsKnown
  <2> QED BY <1>0, <2>2, <2>3, <2>4, ReceiptsStay DEF RInv
<1> QED BY <1>1, <1>2 DEF DeliverCheck

\* There is a first receipt to send.
LEMMA FirstOfOK ==
    ASSUME RInv, NEW todo \in SUBSET (DOMAIN delivery), todo # {}
    PROVE  /\ FirstOf(todo) \in todo
           /\ \A j \in todo : delivery[FirstOf(todo)].chunk <= delivery[j].chunk
<1> DEFINE chunks == {delivery[i].chunk : i \in todo}
<1>0. \A i \in todo : delivery[i].chunk \in Nat /\ i \in Nat
  BY ReportFacts DEF Chunks
<1>1. PICK c \in chunks : \A k \in chunks : c <= k
  <2>1. chunks \in SUBSET Nat /\ chunks # {}
    BY <1>0
  <2> QED BY <2>1, LeastNatural
<1> DEFINE firsts == {i \in todo : delivery[i].chunk = c}
<1>2. PICK i \in firsts : \A k \in firsts : i <= k
  <2>1. firsts \in SUBSET Nat
    BY <1>0
  <2>2. firsts # {}
    BY <1>1
  <2> QED BY <2>1, <2>2, LeastNatural
<1>3. \A j \in todo : \/ delivery[i].chunk < delivery[j].chunk
                      \/ delivery[i].chunk = delivery[j].chunk /\ i <= j
  <2> SUFFICES ASSUME NEW j \in todo
               PROVE  \/ delivery[i].chunk < delivery[j].chunk
                      \/ delivery[i].chunk = delivery[j].chunk /\ i <= j
    OBVIOUS
  <2>1. delivery[i].chunk = c /\ c \in Int /\ delivery[j].chunk \in Int
    BY <1>0, <1>2
  <2>2. c <= delivery[j].chunk
    BY <1>1
  <2>3. delivery[j].chunk = c => i <= j
    BY <1>2
  <2> QED BY <2>1, <2>2, <2>3
<1>4. LET f == FirstOf(todo) IN
      f \in todo /\ \A j \in todo : \/ delivery[f].chunk < delivery[j].chunk
                                    \/ delivery[f].chunk = delivery[j].chunk /\ f <= j
  BY <1>2, <1>3 DEF FirstOf
<1> QED BY <1>0, <1>4

\* the next chunk is taken up, if its family and earlier chunks allow,
LEMMA DeliverNextOK ==
    ASSUME RInv, DeliverNext
    PROVE  RInv'
<1> DEFINE i == FirstOf(reporter.todo)
           r == reporter.run
           go == [reporter EXCEPT !.todo = reporter.todo \ {i}]
<1>0. /\ reporter \in Reporter /\ reporter.pc = "next" /\ r \in Runs
      /\ reporter.todo \subseteq Receipts(r)
      /\ \A j \in Receipts(r) : /\ delivery[j].state # "UnknownDelivery"
                                /\ j \notin reporter.todo => delivery[j].state \in Over
      /\ UNCHANGED <<telegram, run, accepted, lost, halfway>>
  BY DEF RInv, ReportTypes, DeliverNext, WorkerKnows
<1>1. ASSUME reporter.todo # {}
      PROVE  /\ i \in reporter.todo /\ i \in Receipts(r) /\ i \in DOMAIN delivery
             /\ delivery[i].run = r /\ delivery[i] \in Receipt
             /\ \A j \in reporter.todo : delivery[i].chunk <= delivery[j].chunk
  BY <1>0, <1>1, FirstOfOK, ReportFacts DEF Receipts
<1> HIDE DEF i
<1>2. CASE Rests /\ UNCHANGED delivery
  BY <1>0, <1>2, WorkerMovesOK, ReportFacts DEF Rests, RInv, ReportTypes
<1>3. CASE /\ reporter.todo # {} /\ delivery[i].state \in {"Succeeded", "Skipped", "Reviewed"}
           /\ reporter' = go /\ UNCHANGED delivery
  <2>1. /\ reporter' \in Reporter /\ reporter'.pc = "next" /\ reporter'.run = r
        /\ reporter'.todo = reporter.todo \ {i}
    BY <1>0, <1>3 DEF Reporter
  <2>2. ReportTypes'
    BY <1>0, <1>3, <2>1 DEF RInv, ReportTypes
  <2>3. delivery[i].state \in Over
    BY <1>1, <1>3 DEF Receipt, Over
  <2>4. WorkerKnows' /\ FamilyIsFree'
    BY <1>0, <1>3, <2>1, <2>3 DEF WorkerKnows, FamilyIsFree, Receipts
  <2>5. SendingIsKnown' /\ AcceptedIsKnown'
    BY <1>0, <1>3, <2>1 DEF RInv, SendingIsKnown, AcceptedIsKnown
  <2> QED BY <1>0, <1>3, <2>2, <2>4, <2>5, ReceiptsStay DEF RInv
<1>4. CASE /\ reporter.todo # {} /\ delivery[i].state \notin {"Succeeded", "Skipped", "Reviewed"}
           /\ MayDispatch(i) /\ reporter' = [go EXCEPT !.pc = "lock", !.item = i] /\ UNCHANGED delivery
  <2>1. /\ reporter' \in Reporter /\ reporter'.pc = "lock" /\ reporter'.run = r
        /\ reporter'.todo = reporter.todo \ {i} /\ reporter'.item = i
    <3>1. i \in 0..MaxDeliveries
      BY <1>1, <1>4, ReportFacts DEF Deliveries
    <3> QED BY <1>0, <1>4, <3>1 DEF Reporter
  <2>2. ReportTypes'
    BY <1>0, <1>4, <2>1 DEF RInv, ReportTypes
  <2>3. \A j \in Receipts(r) : delivery[j].chunk < delivery[i].chunk => delivery[j].state \in Over
    BY <1>0, <1>1, <1>4, ReportFacts
  <2>4. WorkerKnows'
    BY <1>0, <1>1, <1>4, <2>1, <2>3 DEF WorkerKnows, Receipts, Over
  <2>5. FamilyIsFree'
    BY <1>4, <2>1 DEF FamilyIsFree, MayDispatch, FamilyBlocks
  <2>6. SendingIsKnown' /\ AcceptedIsKnown'
    BY <1>0, <1>4, <2>1 DEF RInv, SendingIsKnown, AcceptedIsKnown
  <2> QED BY <1>0, <1>4, <2>2, <2>4, <2>5, <2>6, ReceiptsStay DEF RInv
<1>5. CASE /\ reporter.todo # {} /\ delivery[i].state \notin {"Succeeded", "Skipped", "Reviewed"}
           /\ Rests
           /\ delivery' = [delivery EXCEPT ![i].state = "Failed", ![i].due = FALSE]
  <2> DEFINE v == [delivery[i] EXCEPT !.state = "Failed", !.due = FALSE]
  <2>1. /\ v \in Receipt /\ v.run = delivery[i].run /\ v.chunk = delivery[i].chunk
        /\ v.chat = delivery[i].chat /\ v.of = delivery[i].of /\ v.state = "Failed"
    BY <1>1, <1>5 DEF Receipt
  <2>2. delivery' = [delivery EXCEPT ![i] = v]
    BY <1>5
  <2> HIDE DEF v
  <2>3. /\ delivery' \in Seq(Receipt) /\ Len(delivery') = Len(delivery)
        /\ DOMAIN delivery' = DOMAIN delivery
        /\ delivery'[i] = v /\ \A j \in DOMAIN delivery : j # i => delivery'[j] = delivery[j]
        /\ DigestsAreWhole' /\ EarlierAddressed'
    BY <1>0, <1>1, <1>5, <2>1, <2>2, ReceiptMoves DEF Over
  <2>4. reporter' = NoWork /\ NoWork \in Reporter /\ reporter'.pc = "idle"
    BY <1>5, ReportFacts DEF Rests
  <2>5. ReportTypes'
    BY <1>0, <2>3, <2>4 DEF RInv, ReportTypes
  <2>6. WorkerKnows' /\ FamilyIsFree'
    BY <2>4 DEF WorkerKnows, FamilyIsFree
  <2>7. SendingIsKnown' /\ AcceptedIsKnown'
    BY <1>0, <1>1, <1>5, <2>1, <2>3, <2>4 DEF RInv, SendingIsKnown, AcceptedIsKnown, Over
  <2> QED BY <2>3, <2>5, <2>6, <2>7 DEF RInv
<1> QED BY <1>2, <1>3, <1>4, <1>5 DEF DeliverNext, i

\* While the worker has a receipt.
LEMMA HasReceipt ==
    ASSUME RInv, reporter.pc \in {"lock", "sent", "accepted"}
    PROVE  /\ reporter \in Reporter /\ reporter.run \in Runs
           /\ reporter.item \in DOMAIN delivery /\ reporter.item \in Deliveries
           /\ delivery[reporter.item].run = reporter.run /\ delivery[reporter.item] \in Receipt
           /\ reporter.todo \subseteq Receipts(reporter.run)
           /\ \A i \in Receipts(reporter.run) :
                 /\ delivery[i].state # "UnknownDelivery"
                 /\ i \notin reporter.todo => delivery[i].state \in Over \/ i = reporter.item
<1>1. reporter.item \in Receipts(reporter.run)
  BY DEF RInv, WorkerKnows
<1>2. reporter.item \in DOMAIN delivery /\ delivery[reporter.item].run = reporter.run
  BY <1>1 DEF Receipts
<1> QED BY <1>2, ReportFacts DEF RInv, ReportTypes, WorkerKnows

\* marked Sending under the control lock,
LEMMA DispatchOK ==
    ASSUME RInv, Dispatch
    PROVE  RInv'
<1> DEFINE i == reporter.item
           r == reporter.run
           v == [delivery[i] EXCEPT !.state = "Sending", !.attempt = delivery[i].attempt + 1, !.due = FALSE]
<1>0. /\ reporter.pc = "lock" /\ reporter \in Reporter /\ r \in Runs
      /\ i \in DOMAIN delivery /\ delivery[i] \in Receipt /\ delivery[i].run = r
      /\ reporter.todo \subseteq Receipts(r)
      /\ \A j \in Receipts(r) :
            /\ delivery[j].state # "UnknownDelivery"
            /\ j \notin reporter.todo => delivery[j].state \in Over \/ j = i
      /\ delivery[i].state \notin Over /\ delivery[i].state # "UnknownDelivery"
      /\ UNCHANGED <<telegram, run, accepted, lost, halfway>>
  <2>1. reporter.pc = "lock"
    BY DEF Dispatch
  <2> QED BY <2>1, HasReceipt DEF RInv, WorkerKnows, Dispatch, Receipts
<1>1. CASE Rests /\ UNCHANGED delivery
  BY <1>0, <1>1, WorkerMovesOK, ReportFacts DEF Rests, RInv, ReportTypes
<1>2. CASE /\ delivery' = [delivery EXCEPT ![i].state = "Sending", ![i].attempt = @ + 1, ![i].due = FALSE]
           /\ reporter' = [reporter EXCEPT !.pc = "sent"]
  <2>1. /\ v \in Receipt /\ v.run = delivery[i].run /\ v.chunk = delivery[i].chunk
        /\ v.chat = delivery[i].chat /\ v.of = delivery[i].of /\ v.state = "Sending"
    <3>1. delivery[i].attempt + 1 \in Nat
      BY <1>0 DEF Receipt
    <3> DEFINE n == delivery[i].attempt + 1
    <3> HIDE DEF n
    <3>2. n \in Nat
      BY <3>1 DEF n
    <3>3. [delivery[i] EXCEPT !.state = "Sending", !.attempt = n, !.due = FALSE] \in Receipt
      BY <1>0, <3>2 DEF Receipt
    <3>4. v = [delivery[i] EXCEPT !.state = "Sending", !.attempt = n, !.due = FALSE]
      BY DEF n
    <3> QED BY <1>0, <3>3, <3>4 DEF Receipt
  <2>2. delivery' = [delivery EXCEPT ![i] = v]
    BY <1>2
  <2> HIDE DEF v
  <2>3. /\ delivery' \in Seq(Receipt) /\ Len(delivery') = Len(delivery)
        /\ DOMAIN delivery' = DOMAIN delivery
        /\ delivery'[i] = v /\ \A j \in DOMAIN delivery : j # i => delivery'[j] = delivery[j]
        /\ DigestsAreWhole' /\ EarlierAddressed'
        /\ \A q : Receipts(q)' = Receipts(q)
    BY <1>0, <2>1, <2>2, ReceiptMoves DEF Over
  <2>4. /\ reporter' \in Reporter /\ reporter'.pc = "sent" /\ reporter'.run = r
        /\ reporter'.todo = reporter.todo /\ reporter'.item = i
    BY <1>0, <1>2 DEF Reporter
  <2>5. ReportTypes'
    BY <1>0, <2>3, <2>4 DEF RInv, ReportTypes
  <2>6. WorkerKnows' /\ FamilyIsFree'
    <3>1. \A j \in Receipts(r) : /\ delivery'[j].state # "UnknownDelivery"
                                 /\ j # i => delivery'[j] = delivery[j]
      BY <1>0, <2>1, <2>3, ReportFacts
    <3>2. i \in Receipts(r)
      BY <1>0 DEF Receipts
    <3> QED BY <1>0, <2>1, <2>3, <2>4, <3>1, <3>2 DEF WorkerKnows, FamilyIsFree
  <2>7. SendingIsKnown'
    BY <1>0, <2>3, <2>4 DEF RInv, SendingIsKnown
  <2>8. AcceptedIsKnown'
    BY <1>0, <2>1, <2>3, <2>4 DEF RInv, AcceptedIsKnown, Over
  <2> QED BY <2>3, <2>5, <2>6, <2>7, <2>8 DEF RInv
<1> QED BY <1>1, <1>2 DEF Dispatch

\* accepted by Telegram,
LEMMA AcceptsOK ==
    ASSUME RInv, Accepts
    PROVE  RInv'
<1> DEFINE i == reporter.item
<1>0. /\ reporter.pc = "sent" /\ reporter \in Reporter
      /\ i \in DOMAIN delivery /\ i \in Deliveries
      /\ delivery[i].state = "Sending"
      /\ accepted \in [Deliveries -> Nat]
      /\ accepted' = [accepted EXCEPT ![i] = accepted[i] + 1]
      /\ UNCHANGED <<telegram, run, delivery, lost, halfway>>
  <2>1. reporter.pc = "sent"
    BY DEF Accepts
  <2> QED BY <2>1, HasReceipt DEF RInv, ReportTypes, WorkerKnows, Accepts
<1>1. /\ reporter' \in Reporter /\ reporter'.pc = "accepted" /\ reporter'.run = reporter.run
      /\ reporter'.todo = reporter.todo /\ reporter'.item = i
  BY <1>0 DEF Accepts, Reporter
<1>2. accepted' \in [Deliveries -> Nat] /\ accepted'[i] = accepted[i] + 1
      /\ \A j \in Deliveries : j # i => accepted'[j] = accepted[j]
  BY <1>0
<1>3. ReportTypes'
  BY <1>0, <1>1, <1>2 DEF RInv, ReportTypes
<1>4. WorkerKnows' /\ FamilyIsFree'
  BY <1>0, <1>1 DEF RInv, WorkerKnows, FamilyIsFree, Receipts
<1>5. SendingIsKnown'
  BY <1>0, <1>1 DEF RInv, SendingIsKnown
<1>6. AcceptedIsKnown'
  <2>1. i \notin lost => accepted[i] = 0
    BY <1>0 DEF RInv, AcceptedIsKnown, Over
  <2> QED BY <1>0, <1>1, <1>2, <2>1, ReportFacts DEF RInv, AcceptedIsKnown
<1> QED BY <1>0, <1>3, <1>4, <1>5, <1>6, ReceiptsStay DEF RInv

\* and answered for, in whichever way.
LEMMA AnsweredOK ==
    ASSUME RInv, NEW outcome \in {"Confirmed", "Unknown", "Permanent", "Retryable"}, Answered(outcome)
    PROVE  RInv'
<1> DEFINE i == reporter.item
           r == reporter.run
           s == CASE outcome = "Confirmed" -> "Succeeded"
                  [] outcome = "Unknown" -> "UnknownDelivery"
                  [] OTHER -> "Failed"
           v == [delivery[i] EXCEPT !.state = s,
                     !.due = outcome = "Retryable" /\ delivery[i].attempt <= Retries]
<1>0. /\ reporter.pc \in {"sent", "accepted"} /\ reporter \in Reporter /\ r \in Runs
      /\ (outcome = "Confirmed" => reporter.pc = "accepted")
      /\ (s = "Failed" => reporter.pc = "sent")
      /\ i \in DOMAIN delivery /\ delivery[i] \in Receipt /\ delivery[i].run = r
      /\ reporter.todo \subseteq Receipts(r)
      /\ \A j \in Receipts(r) :
            /\ delivery[j].state # "UnknownDelivery"
            /\ j \notin reporter.todo => delivery[j].state \in Over \/ j = i
      /\ delivery[i].state = "Sending"
      /\ UNCHANGED <<telegram, run, accepted, lost, halfway>>
  <2>1. /\ reporter.pc \in {"sent", "accepted"}
        /\ (outcome = "Confirmed" => reporter.pc = "accepted")
        /\ (s = "Failed" => reporter.pc = "sent")
    BY DEF Answered
  <2> QED BY <2>1, HasReceipt DEF RInv, WorkerKnows, Answered
<1>1. s \in {"Succeeded", "UnknownDelivery", "Failed"} /\ (s = "Succeeded" <=> outcome = "Confirmed")
  OBVIOUS
<1>2. delivery' = [delivery EXCEPT ![i] = v]
  BY DEF Answered
<1> HIDE DEF s
<1>3. /\ v \in Receipt /\ v.run = delivery[i].run /\ v.chunk = delivery[i].chunk
      /\ v.chat = delivery[i].chat /\ v.of = delivery[i].of /\ v.state = s
  BY <1>0, <1>1 DEF Receipt
<1> HIDE DEF v
<1>4. /\ delivery' \in Seq(Receipt) /\ Len(delivery') = Len(delivery)
      /\ DOMAIN delivery' = DOMAIN delivery
      /\ delivery'[i] = v /\ \A j \in DOMAIN delivery : j # i => delivery'[j] = delivery[j]
      /\ DigestsAreWhole' /\ EarlierAddressed'
      /\ \A q : Receipts(q)' = Receipts(q)
  BY <1>0, <1>2, <1>3, ReceiptMoves DEF Over
<1>5. /\ reporter' \in Reporter
      /\ \/ reporter' = NoWork /\ reporter'.pc = "idle" /\ s # "Succeeded"
         \/ /\ reporter'.pc = "next" /\ reporter'.run = r /\ reporter'.todo = reporter.todo
            /\ s = "Succeeded"
  <2>1. CASE outcome = "Confirmed"
    <3>1. reporter' = [reporter EXCEPT !.pc = "next", !.item = 0] /\ 0 \in 0..MaxDeliveries
      BY <2>1, ReportFacts DEF Answered
    <3> QED BY <1>0, <1>1, <2>1, <3>1 DEF Reporter
  <2>2. CASE outcome # "Confirmed"
    BY <1>1, <2>2, ReportFacts DEF Answered
  <2> QED BY <2>1, <2>2
<1>6. ReportTypes'
  BY <1>0, <1>4, <1>5 DEF RInv, ReportTypes
<1>7. WorkerKnows' /\ FamilyIsFree'
  <2>1. CASE reporter'.pc = "idle"
    BY <2>1 DEF WorkerKnows, FamilyIsFree
  <2>2. CASE reporter'.pc = "next" /\ reporter'.run = r /\ reporter'.todo = reporter.todo /\ s = "Succeeded"
    <3>1. \A j \in Receipts(r) : /\ delivery'[j].state # "UnknownDelivery"
                                 /\ j \notin reporter.todo => delivery'[j].state \in Over
      BY <1>0, <1>3, <1>4, <2>2, ReportFacts DEF Over
    <3> QED BY <1>0, <1>4, <2>2, <3>1 DEF WorkerKnows, FamilyIsFree
  <2> QED BY <1>5, <2>1, <2>2
<1>8. SendingIsKnown'
  BY <1>0, <1>1, <1>3, <1>4 DEF RInv, SendingIsKnown
<1>9. AcceptedIsKnown'
  BY <1>0, <1>1, <1>3, <1>4 DEF RInv, AcceptedIsKnown, Over
<1> QED BY <1>4, <1>6, <1>7, <1>8, <1>9 DEF RInv

\* A store call fails on the way;
LEMMA StoreFaultOK ==
    ASSUME RInv, StoreFault
    PROVE  RInv'
<1>0. /\ reporter' = NoWork /\ NoWork \in Reporter /\ NoWork.pc = "idle"
      /\ lost' = IF reporter.pc = "accepted" THEN lost \cup {reporter.item} ELSE lost
      /\ halfway' = IF reporter.pc \in {"sent", "accepted"} THEN halfway \cup {reporter.run} ELSE halfway
      /\ UNCHANGED <<telegram, run, delivery, accepted>>
  BY ReportFacts DEF StoreFault, Rests
<1>1. lost' \subseteq Deliveries /\ halfway' \subseteq Runs
  BY <1>0, HasReceipt DEF RInv, ReportTypes
<1>2. ReportTypes'
  BY <1>0, <1>1 DEF RInv, ReportTypes
<1>3. WorkerKnows' /\ FamilyIsFree'
  BY <1>0 DEF WorkerKnows, FamilyIsFree
<1>4. SendingIsKnown'
  BY <1>0, HasReceipt DEF RInv, SendingIsKnown
<1>5. AcceptedIsKnown'
  BY <1>0 DEF RInv, AcceptedIsKnown
<1>6. DigestsAreWhole' /\ EarlierAddressed'
  BY <1>0, ReceiptsStay
<1> QED BY <1>2, <1>3, <1>4, <1>5, <1>6 DEF RInv

\* The settings, a new revision, and inference settling touch no receipt.
LEMMA SettingsOK ==
    ASSUME RInv, SetMemorySettings \/ MarkInferenceSettled \/ \E r \in Runs : RegenerateMemoryReport(r)
    PROVE  RInv'
<1>0. UNCHANGED <<delivery, reporter, accepted, lost, halfway>>
  BY DEF SetMemorySettings, MarkInferenceSettled, RegenerateMemoryReport
<1>1. telegram' \in [enabled : BOOLEAN, chat : Chats]
  BY DEF SetMemorySettings, MarkInferenceSettled, RegenerateMemoryReport, RInv, ReportTypes
<1>2. run' \in [Runs -> Run] /\ \A r \in Runs : run'[r].enabled => run'[r].chat \in Chats
  <2>1. run \in [Runs -> Run] /\ \A r \in Runs : run[r].enabled => run[r].chat \in Chats
    BY DEF RInv, ReportTypes
  <2>2. ASSUME NEW r \in Runs, RegenerateMemoryReport(r)
        PROVE  run' \in [Runs -> Run] /\ \A q \in Runs : run'[q].enabled => run'[q].chat \in Chats
    <3> DEFINE fresh == [Absent EXCEPT !.phase = "queued", !.of = r,
                             !.enabled = telegram.enabled, !.chat = telegram.chat]
    <3>1. PICK n \in Runs : run' = [run EXCEPT ![n] = fresh]
      BY <2>2 DEF RegenerateMemoryReport
    <3>2. fresh \in Run /\ fresh.chat \in Chats
      <4>1. r \in 0..MaxRuns /\ telegram.enabled \in BOOLEAN /\ telegram.chat \in Chats
        BY DEF RInv, ReportTypes, Runs
      <4> QED BY <4>1 DEF Absent, Run
    <3> HIDE DEF fresh
    <3> QED BY <2>1, <3>1, <3>2
  <2>3. CASE SetMemorySettings \/ MarkInferenceSettled
    BY <2>1, <2>3 DEF SetMemorySettings, MarkInferenceSettled
  <2> QED BY <2>2, <2>3
<1>3. ReportTypes'
  BY <1>0, <1>1, <1>2 DEF RInv, ReportTypes
<1>4. WorkerKnows' /\ FamilyIsFree'
  BY <1>0 DEF RInv, WorkerKnows, FamilyIsFree, Receipts
<1>5. SendingIsKnown' /\ AcceptedIsKnown'
  BY <1>0 DEF RInv, SendingIsKnown, AcceptedIsKnown
<1> QED BY <1>0, <1>3, <1>4, <1>5, ReceiptsStay DEF RInv

\* the process ends, and recovery settles what was Sending;
LEMMA CrashOK ==
    ASSUME RInv, Crash
    PROVE  RInv'
<1>0. /\ run \in [Runs -> Run] /\ \A r \in Runs : run[r].enabled => run[r].chat \in Chats
      /\ reporter' = NoWork /\ NoWork \in Reporter /\ NoWork.pc = "idle"
      /\ UNCHANGED <<telegram, accepted, lost, halfway>>
  BY ReportFacts DEF Crash, Rests, RInv, ReportTypes
<1>1. run' \in [Runs -> Run] /\ \A r \in Runs : run'[r].enabled => run'[r].chat \in Chats
  <2>1. \A r \in Runs : /\ [run[r] EXCEPT !.phase = "queued"] \in Run
                        /\ [run[r] EXCEPT !.phase = "queued"].enabled = run[r].enabled
                        /\ [run[r] EXCEPT !.phase = "queued"].chat = run[r].chat
    BY <1>0 DEF Run
  <2> QED BY <1>0, <2>1 DEF Crash
<1>2. /\ delivery' \in Seq(Receipt) /\ Len(delivery') = Len(delivery)
      /\ DOMAIN delivery' = DOMAIN delivery
      /\ \A j \in DOMAIN delivery :
            /\ delivery'[j].run = delivery[j].run /\ delivery'[j].chunk = delivery[j].chunk
            /\ delivery'[j].chat = delivery[j].chat /\ delivery'[j].of = delivery[j].of
            /\ IF delivery[j].state = "Sending" THEN delivery'[j].state = "UnknownDelivery"
               ELSE delivery'[j].state = delivery[j].state
  <2> DEFINE after(j) == [delivery[j] EXCEPT !.state = Recovered(j)]
  <2>1. \A j \in DOMAIN delivery :
          /\ after(j) \in Receipt
          /\ after(j).run = delivery[j].run /\ after(j).chunk = delivery[j].chunk
          /\ after(j).chat = delivery[j].chat /\ after(j).of = delivery[j].of
          /\ after(j).state = Recovered(j)
    BY ReportFacts DEF Receipt, Recovered
  <2>2. delivery' = [j \in DOMAIN delivery |-> after(j)]
    BY DEF Crash
  <2> HIDE DEF after
  <2>3. delivery' \in [1..Len(delivery) -> Receipt] /\ Len(delivery) \in Nat
    BY <2>1, <2>2, ReportFacts
  <2>4. delivery' \in Seq(Receipt) /\ Len(delivery') = Len(delivery)
    BY <2>3
  <2> QED BY <2>1, <2>2, <2>4 DEF Recovered
<1>3. ReportTypes'
  BY <1>0, <1>1, <1>2 DEF RInv, ReportTypes
<1>4. WorkerKnows' /\ FamilyIsFree'
  BY <1>0 DEF WorkerKnows, FamilyIsFree
<1>5. SendingIsKnown'
  BY <1>2 DEF RInv, SendingIsKnown
<1>6. AcceptedIsKnown'
  <2> SUFFICES ASSUME NEW i \in DOMAIN delivery, i \notin lost, accepted[i] # 0
               PROVE  accepted[i] = 1 /\ delivery'[i].state \in Over \cup {"UnknownDelivery"}
    BY <1>0, <1>2 DEF RInv, AcceptedIsKnown
  <2>1. CASE delivery[i].state \in Over \cup {"UnknownDelivery"}
    BY <1>2, <2>1 DEF RInv, AcceptedIsKnown, Over
  <2>2. CASE delivery[i].state \notin Over \cup {"UnknownDelivery"}
    BY <1>2, <2>2 DEF RInv, AcceptedIsKnown, WorkerKnows
  <2> QED BY <2>1, <2>2
<1>7. DigestsAreWhole'
  <2>1. \A j \in DOMAIN delivery : delivery[j].of # 0 => delivery[j].of \in DOMAIN delivery
    BY ReportFacts DEF RInv, DigestsAreWhole
  <2>2. \A j \in DOMAIN delivery : \A c \in Chunks : \E k \in DOMAIN delivery :
          delivery[k].run = delivery[j].run /\ delivery[k].chunk = c
    BY DEF RInv, DigestsAreWhole, Receipts
  <2>3. \A j \in DOMAIN delivery' : \A c \in Chunks : \E k \in DOMAIN delivery' :
          delivery'[k].run = delivery'[j].run /\ delivery'[k].chunk = c
    BY <1>2, <2>2
  <2>4. \A j \in DOMAIN delivery' : delivery'[j].of # 0 =>
          /\ delivery'[j].of < j
          /\ delivery'[delivery'[j].of].run = delivery'[j].run
          /\ delivery'[delivery'[j].of].chunk = delivery'[j].chunk
    BY <1>2, <2>1 DEF RInv, DigestsAreWhole
  <2> QED BY <2>3, <2>4 DEF DigestsAreWhole, Receipts
<1>8. EarlierAddressed'
  <2>1. ASSUME NEW j \in DOMAIN delivery, delivery[j].run \notin halfway,
               delivery'[j].state \notin Over, NEW c \in 1..(delivery[j].chunk - 1)
        PROVE  \E k \in DOMAIN delivery :
                  /\ delivery'[k].run = delivery[j].run /\ delivery'[k].chunk = c
                  /\ \/ delivery'[k].chat = delivery[j].chat
                     \/ delivery'[k].state \in {"Reviewed", "UnknownDelivery"}
    <3>1. delivery[j].state \notin Over
      BY <1>2, <2>1 DEF Over
    <3>2. PICK k \in DOMAIN delivery :
            /\ delivery[k].run = delivery[j].run /\ delivery[k].chunk = c
            /\ delivery[k].chat = delivery[j].chat
                 \/ delivery[k].state \in {"Reviewed", "UnknownDelivery"}
      BY <2>1, <3>1 DEF RInv, EarlierAddressed, Receipts
    <3> QED BY <1>2, <3>2
  <2> QED BY <1>0, <1>2, <2>1 DEF EarlierAddressed, Receipts
<1> QED BY <1>3, <1>4, <1>5, <1>6, <1>7, <1>8 DEF RInv

\* The user decides about an unknown receipt, whatever the worker does.
LEMMA ResolveOK ==
    ASSUME RInv, NEW i \in DOMAIN delivery, NEW resend \in BOOLEAN, ResolveTelegramDelivery(i, resend)
    PROVE  RInv'
<1> DEFINE v == [delivery[i] EXCEPT !.state = "Reviewed"]
           moved == [delivery EXCEPT ![i] = v]
           again == Intent(delivery[i].run, delivery[i].chunk, delivery[i].chat, i)
<1>0. /\ delivery[i].state = "UnknownDelivery" /\ (resend => Len(delivery) < MaxDeliveries)
      /\ delivery' = moved \o (IF resend THEN <<again>> ELSE <<>>)
      /\ UNCHANGED <<telegram, run, reporter, accepted, lost, halfway>>
  BY DEF ResolveTelegramDelivery, SetState
<1>1. /\ v \in Receipt /\ v.run = delivery[i].run /\ v.chunk = delivery[i].chunk
      /\ v.chat = delivery[i].chat /\ v.of = delivery[i].of /\ v.state = "Reviewed"
  BY ReportFacts DEF Receipt
<1>2. /\ again \in Receipt /\ again.run = delivery[i].run /\ again.chunk = delivery[i].chunk
      /\ again.chat = delivery[i].chat /\ again.of = i /\ again.state = "Pending"
  <2>1. i \in 0..MaxDeliveries /\ 0 \in Nat
    BY ReportFacts DEF Deliveries
  <2>2. delivery[i].run \in Runs /\ delivery[i].chunk \in Chunks /\ delivery[i].chat \in Chats
    BY ReportFacts DEF Receipt
  <2> QED BY <2>1, <2>2 DEF Intent, Receipt
<1> HIDE DEF v, again
<1>3. /\ moved \in Seq(Receipt) /\ Len(moved) = Len(delivery) /\ DOMAIN moved = 1..Len(delivery)
      /\ moved[i] = v /\ \A j \in DOMAIN delivery : j # i => moved[j] = delivery[j]
  BY <1>1, ReportFacts DEF RInv, ReportTypes
<1> HIDE DEF moved
<1>4. /\ delivery' \in Seq(Receipt) /\ Len(delivery') <= MaxDeliveries
      /\ \A j \in DOMAIN delivery : j \in DOMAIN delivery' /\ delivery'[j] = moved[j]
      /\ \A j \in DOMAIN delivery' \ DOMAIN delivery :
            delivery'[j] = again /\ j = Len(delivery) + 1 /\ j \in Deliveries
  <2>1. CASE resend
    <3>1. delivery' = Append(moved, again)
      BY <1>0, <1>2, <1>3, <2>1
    <3>2. /\ delivery' \in Seq(Receipt) /\ Len(delivery') = Len(delivery) + 1
          /\ \A j \in 1..Len(delivery) : delivery'[j] = moved[j]
          /\ delivery'[Len(delivery) + 1] = again
      <4>1. Len(moved) \in Nat /\ moved \in Seq(Receipt) /\ again \in Receipt
        BY <1>2, <1>3
      <4>2. /\ delivery' \in Seq(Receipt) /\ Len(delivery') = Len(moved) + 1
            /\ \A j \in 1..Len(moved) : delivery'[j] = moved[j]
            /\ delivery'[Len(moved) + 1] = again
        BY <3>1, <4>1
      <4> QED BY <1>3, <4>2
    <3>3. DOMAIN delivery' = 1..(Len(delivery) + 1)
      BY <3>2
    <3> QED BY <1>0, <2>1, <3>2, <3>3, ReportFacts DEF Deliveries
  <2>2. CASE ~resend
    <3>1. delivery' = moved
      BY <1>0, <1>3, <2>2
    <3> QED BY <1>3, <3>1, ReportFacts DEF RInv, ReportTypes
  <2> QED BY <2>1, <2>2
<1>5. \A j \in DOMAIN delivery :
         /\ delivery'[j].run = delivery[j].run /\ delivery'[j].chunk = delivery[j].chunk
         /\ delivery'[j].chat = delivery[j].chat /\ delivery'[j].of = delivery[j].of
         /\ delivery'[j].state = IF j = i THEN "Reviewed" ELSE delivery[j].state
         /\ j # i => delivery'[j] = delivery[j]
  BY <1>1, <1>3, <1>4
<1>6. ReportTypes'
  BY <1>0, <1>4 DEF RInv, ReportTypes
<1>7. WorkerKnows' /\ FamilyIsFree'
  <2>1. CASE reporter.pc \in {"check", "next", "lock", "sent", "accepted"}
    <3>1. i \notin Receipts(reporter.run)
      BY <1>0, <2>1 DEF RInv, WorkerKnows
    <3>2. delivery[i].run # reporter.run
      BY <3>1 DEF Receipts
    <3>3. \A j \in DOMAIN delivery' :
             /\ delivery'[j].run = reporter.run <=> j \in Receipts(reporter.run)
             /\ j \in Receipts(reporter.run) => delivery'[j] = delivery[j]
      BY <1>2, <1>4, <1>5, <3>2 DEF Receipts
    <3>4. Receipts(reporter.run)' = Receipts(reporter.run)
      BY <1>0, <1>4, <3>3 DEF Receipts
    <3>5. \A j \in Receipts(reporter.run) : delivery'[j] = delivery[j]
      BY <1>4, <3>3, ReportFacts
    <3>6. WorkerKnows'
      BY <1>0, <3>4, <3>5 DEF RInv, WorkerKnows
    <3>7. FamilyIsFree'
      <4> SUFFICES ASSUME reporter.pc = "lock", delivery[reporter.item].of = 0,
                          NEW j \in DOMAIN delivery', delivery'[j].run # delivery[reporter.item].run
                   PROVE  delivery'[j].state \notin {"Succeeded", "UnknownDelivery"}
        BY <1>0, <3>5, HasReceipt DEF FamilyIsFree, Receipts
      <4>1. CASE j \in DOMAIN delivery
        BY <1>5, <4>1 DEF RInv, FamilyIsFree
      <4>2. CASE j \notin DOMAIN delivery
        BY <1>2, <1>4, <4>2
      <4> QED BY <4>1, <4>2
    <3> QED BY <3>6, <3>7
  <2>2. CASE reporter.pc \notin {"check", "next", "lock", "sent", "accepted"}
    BY <1>0, <2>2 DEF WorkerKnows, FamilyIsFree
  <2> QED BY <2>1, <2>2
<1>8. SendingIsKnown'
  BY <1>0, <1>2, <1>4, <1>5 DEF RInv, SendingIsKnown
<1>9. AcceptedIsKnown'
  <2>1. \A j \in Deliveries \ DOMAIN delivery' : accepted[j] = 0
    BY <1>4 DEF RInv, AcceptedIsKnown
  <2>2. \A j \in DOMAIN delivery' \ DOMAIN delivery : accepted[j] = 0
    BY <1>4 DEF RInv, AcceptedIsKnown
  <2>3. ASSUME NEW j \in DOMAIN delivery, j \notin lost, accepted[j] # 0
        PROVE  /\ accepted[j] = 1
               /\ \/ delivery'[j].state \in Over \cup {"UnknownDelivery"}
                  \/ reporter.pc = "accepted" /\ reporter.item = j
    BY <1>5, <2>3 DEF RInv, AcceptedIsKnown, Over
  <2> QED BY <1>0, <2>1, <2>2, <2>3 DEF AcceptedIsKnown
<1>10. DigestsAreWhole'
  <2>1. \A j \in DOMAIN delivery : delivery[j].of # 0 => delivery[j].of \in DOMAIN delivery
    BY ReportFacts DEF RInv, DigestsAreWhole
  <2>2. \A j \in DOMAIN delivery : \A c \in Chunks : \E k \in DOMAIN delivery :
          delivery'[k].run = delivery[j].run /\ delivery'[k].chunk = c
    BY <1>5 DEF RInv, DigestsAreWhole, Receipts
  <2>3. \A j \in DOMAIN delivery' : \E k \in DOMAIN delivery : delivery'[j].run = delivery[k].run
    BY <1>2, <1>4, <1>5
  <2>4. \A j \in DOMAIN delivery' : \A c \in Chunks : \E k \in DOMAIN delivery' :
          delivery'[k].run = delivery'[j].run /\ delivery'[k].chunk = c
    BY <1>4, <2>2, <2>3
  <2>5. \A j \in DOMAIN delivery' : delivery'[j].of # 0 =>
          /\ delivery'[j].of < j
          /\ delivery'[delivery'[j].of].run = delivery'[j].run
          /\ delivery'[delivery'[j].of].chunk = delivery'[j].chunk
    <3>1. \A j \in DOMAIN delivery : delivery'[j].of # 0 =>
            /\ delivery'[j].of < j
            /\ delivery'[delivery'[j].of].run = delivery'[j].run
            /\ delivery'[delivery'[j].of].chunk = delivery'[j].chunk
      BY <1>5, <2>1 DEF RInv, DigestsAreWhole
    <3>2. \A j \in DOMAIN delivery' \ DOMAIN delivery : delivery'[j].of = i /\ i < j
      BY <1>2, <1>4, ReportFacts
    <3> QED BY <1>2, <1>4, <1>5, <3>1, <3>2
  <2> QED BY <2>4, <2>5 DEF DigestsAreWhole, Receipts
<1>11. EarlierAddressed'
  <2>1. ASSUME NEW j \in DOMAIN delivery, delivery[j].run \notin halfway,
               delivery[j].state \notin Over, NEW c \in 1..(delivery[j].chunk - 1)
        PROVE  \E k \in DOMAIN delivery :
                  /\ delivery'[k].run = delivery[j].run /\ delivery'[k].chunk = c
                  /\ \/ delivery'[k].chat = delivery[j].chat
                     \/ delivery'[k].state \in {"Reviewed", "UnknownDelivery"}
    <3>1. PICK k \in DOMAIN delivery :
            /\ delivery[k].run = delivery[j].run /\ delivery[k].chunk = c
            /\ delivery[k].chat = delivery[j].chat
                 \/ delivery[k].state \in {"Reviewed", "UnknownDelivery"}
      BY <2>1 DEF RInv, EarlierAddressed, Receipts
    <3> QED BY <1>5, <3>1
  <2>2. ASSUME NEW j \in DOMAIN delivery', delivery'[j].state \notin Over
        PROVE  \E k \in DOMAIN delivery :
                  /\ delivery[k].run = delivery'[j].run /\ delivery[k].chunk = delivery'[j].chunk
                  /\ delivery[k].chat = delivery'[j].chat /\ delivery[k].state \notin Over
    <3>1. CASE j \in DOMAIN delivery
      BY <1>5, <2>2, <3>1 DEF Over
    <3>2. CASE j \notin DOMAIN delivery
      BY SMTT(30), <1>0, <1>2, <1>4, <3>2 DEF Over
    <3> QED BY <3>1, <3>2
  <2>3. halfway' = halfway
    BY <1>0
  <2>4. SUFFICES ASSUME NEW j \in DOMAIN delivery', delivery'[j].run \notin halfway,
                        delivery'[j].state \notin Over, NEW c \in 1..(delivery'[j].chunk - 1)
                 PROVE  \E k \in DOMAIN delivery' :
                          /\ delivery'[k].run = delivery'[j].run /\ delivery'[k].chunk = c
                          /\ \/ delivery'[k].chat = delivery'[j].chat
                             \/ delivery'[k].state \in {"Reviewed", "UnknownDelivery"}
    BY <2>3 DEF EarlierAddressed, Receipts
  <2>5. PICK k \in DOMAIN delivery :
          /\ delivery[k].run = delivery'[j].run /\ delivery[k].chunk = delivery'[j].chunk
          /\ delivery[k].chat = delivery'[j].chat /\ delivery[k].state \notin Over
    BY <2>2, <2>4
  <2>6. c \in 1..(delivery[k].chunk - 1) /\ delivery[k].run \notin halfway
    BY <2>4, <2>5
  <2> QED BY <1>4, <2>1, <2>5, <2>6
<1> QED BY <1>6, <1>7, <1>8, <1>9, <1>10, <1>11 DEF RInv

\* The receipts of a run redirected: those reviewed are retired, those made and
\* in need of one have their successor, and nothing else is there.
LEMMA RedirectedIs ==
    ASSUME RInv, NEW r \in Runs, NEW made \in SUBSET Stale(r), NEW reviewed \in SUBSET made
    PROVE  /\ Redirected(made, reviewed) \in Seq(Receipt)
           /\ \A j \in DOMAIN delivery :
                 /\ j \in DOMAIN Redirected(made, reviewed)
                 /\ Redirected(made, reviewed)[j] =
                       IF j \in reviewed /\ delivery[j].state # "Succeeded"
                       THEN [delivery[j] EXCEPT !.state = "Reviewed"] ELSE delivery[j]
           /\ \A j \in DOMAIN Redirected(made, reviewed) \ DOMAIN delivery :
                 /\ j > Len(delivery)
                 /\ \E i \in made : Redirected(made, reviewed)[j] =
                                       Intent(r, delivery[i].chunk, telegram.chat, i)
           /\ \A i \in made : NeedsSuccessor(i) =>
                 \E j \in DOMAIN Redirected(made, reviewed) :
                    Redirected(made, reviewed)[j] = Intent(r, delivery[i].chunk, telegram.chat, i)
<1> DEFINE needs == {i \in made : NeedsSuccessor(i)}
           successor(i) == Intent(r, delivery[i].chunk, telegram.chat, i)
           size == Cardinality(needs)
           len == Len(delivery) + size
           row(k) == IF k > Len(delivery) THEN successor(Nth(needs, k - Len(delivery)))
                     ELSE IF k \in reviewed /\ delivery[k].state # "Succeeded"
                     THEN [delivery[k] EXCEPT !.state = "Reviewed"] ELSE delivery[k]
           list == Redirected(made, reviewed)
<1>1. made \subseteq DOMAIN delivery /\ \A i \in made : delivery[i].run = r
  BY DEF Stale, Receipts
<1>2. needs \in SUBSET (1..Len(delivery)) /\ Len(delivery) \in Nat
  BY <1>1, ReportFacts
<1>3. /\ size \in Nat
      /\ \A n \in 1..size : Nth(needs, n) \in needs
      /\ \A i \in needs : \E n \in 1..size : Nth(needs, n) = i
  <2> HIDE DEF needs
  <2> QED BY <1>2, NthOf
<1>4. /\ needs \subseteq made /\ \A i \in made : NeedsSuccessor(i) => i \in needs
  OBVIOUS
<1>5. \A i \in DOMAIN delivery : successor(i) \in Receipt
  <2>1. telegram.chat \in Chats /\ 0 \in Nat
    BY DEF RInv, ReportTypes
  <2>2. \A i \in DOMAIN delivery : i \in 0..MaxDeliveries /\ delivery[i].chunk \in Chunks
    BY ReportFacts DEF Deliveries
  <2> QED BY <2>1, <2>2 DEF Intent, Receipt
<1>6. list = [k \in 1..len |-> row(k)]
  <2>1. \A k \in 1..len : k > Len(delivery) => k - Len(delivery) \in 1..size
    BY <1>2, <1>3
  <2>2. \A k \in 1..len : k > Len(delivery) =>
            delivery[Nth(needs, k - Len(delivery))].run = r
    <3> HIDE DEF needs, size, len
    <3> QED BY <1>1, <1>3, <1>4, <2>1
  <2>3. list = [k \in 1..(Len(delivery) + Cardinality(needs)) |->
          IF k > Len(delivery)
          THEN Intent(delivery[Nth(needs, k - Len(delivery))].run,
                      delivery[Nth(needs, k - Len(delivery))].chunk, telegram.chat,
                      Nth(needs, k - Len(delivery)))
          ELSE IF k \in reviewed /\ delivery[k].state # "Succeeded"
          THEN [delivery[k] EXCEPT !.state = "Reviewed"] ELSE delivery[k]]
    BY DEF Redirected
  <2> HIDE DEF needs, list
  <2> QED BY <2>2, <2>3
<1> HIDE DEF needs, size, list
<1>7. \A k \in 1..len : row(k) \in Receipt
  <2> SUFFICES ASSUME NEW k \in 1..len PROVE row(k) \in Receipt
    OBVIOUS
  <2>1. CASE k > Len(delivery)
    <3>1. k - Len(delivery) \in 1..size
      BY <1>2, <1>3, <2>1
    <3>2. Nth(needs, k - Len(delivery)) \in DOMAIN delivery
      BY <1>1, <1>3, <1>4, <3>1
    <3> HIDE DEF successor
    <3> QED BY <1>5, <2>1, <3>2
  <2>2. CASE ~(k > Len(delivery))
    <3>1. k \in DOMAIN delivery
      BY <1>2, <1>3, <2>2, ReportFacts
    <3>2. delivery[k] \in Receipt /\ [delivery[k] EXCEPT !.state = "Reviewed"] \in Receipt
      BY <3>1, ReportFacts DEF Receipt
    <3> HIDE DEF successor
    <3> QED BY <2>2, <3>2
  <2> QED BY <2>1, <2>2
<1>8. list \in Seq(Receipt) /\ DOMAIN list = 1..len /\ \A k \in 1..len : list[k] = row(k)
  <2> HIDE DEF row
  <2>1. list \in [1..len -> Receipt] /\ len \in Nat
    BY <1>2, <1>3, <1>6, <1>7
  <2> QED BY <1>6, <2>1
<1>9. \A j \in DOMAIN delivery : j \in 1..len /\ ~(j > Len(delivery))
  BY <1>2, <1>3, ReportFacts
<1>10. ASSUME NEW j \in 1..len, j \notin DOMAIN delivery
       PROVE  j > Len(delivery) /\ \E i \in made : list[j] = successor(i)
  <2>1. j > Len(delivery) /\ j - Len(delivery) \in 1..size
    BY <1>2, <1>3, <1>10, ReportFacts
  <2>2. list[j] = successor(Nth(needs, j - Len(delivery)))
    <3> HIDE DEF successor
    <3> QED BY <1>8, <2>1
  <2> HIDE DEF successor
  <2> QED BY <1>3, <1>4, <2>1, <2>2
<1>11. ASSUME NEW i \in made, NeedsSuccessor(i)
       PROVE  \E j \in DOMAIN list : list[j] = successor(i)
  <2>1. PICK n \in 1..size : Nth(needs, n) = i
    BY <1>3, <1>4, <1>11
  <2> DEFINE j == Len(delivery) + n
  <2>2. j \in 1..len /\ j > Len(delivery) /\ j - Len(delivery) = n
    BY <1>2, <1>3
  <2> HIDE DEF j
  <2>3. list[j] = successor(Nth(needs, j - Len(delivery)))
    <3> HIDE DEF successor
    <3> QED BY <1>8, <2>2
  <2> HIDE DEF successor
  <2> QED BY <1>8, <2>1, <2>2, <2>3
<1> HIDE DEF successor
<1>12. \A j \in DOMAIN delivery :
          /\ j \in DOMAIN list
          /\ list[j] = IF j \in reviewed /\ delivery[j].state # "Succeeded"
                       THEN [delivery[j] EXCEPT !.state = "Reviewed"] ELSE delivery[j]
  BY <1>8, <1>9
<1>13. /\ list \in Seq(Receipt)
       /\ \A j \in DOMAIN list \ DOMAIN delivery :
             j > Len(delivery) /\ \E i \in made : list[j] = successor(i)
  BY <1>8, <1>10
<1> USE DEF list, successor
<1> QED BY <1>11, <1>12, <1>13

\* A run's receipts are retried or redirected while the worker rests.
LEMMA RetriedOK ==
    ASSUME RInv, NEW r \in Runs, reporter = NoWork,
           UNCHANGED <<telegram, reporter, accepted, lost>>,
           run' \in [Runs -> Run], \A q \in Runs : run'[q].enabled => run'[q].chat \in Chats,
           delivery' \in Seq(Receipt), Len(delivery') <= MaxDeliveries,
           \A j \in DOMAIN delivery :
              /\ j \in DOMAIN delivery'
              /\ delivery'[j].run = delivery[j].run /\ delivery'[j].chunk = delivery[j].chunk
              /\ delivery'[j].chat = delivery[j].chat /\ delivery'[j].of = delivery[j].of
              /\ \/ delivery'[j].state = delivery[j].state
                 \/ /\ delivery[j].run = r /\ delivery[j].state \in {"Pending", "Failed"}
                    /\ delivery'[j].state \in {"Pending", "Reviewed"},
           \A j \in DOMAIN delivery' \ DOMAIN delivery :
              /\ j > Len(delivery) /\ delivery'[j].state = "Pending" /\ delivery'[j].run = r
              /\ \E i \in DOMAIN delivery : /\ delivery[i].run = r /\ delivery'[j].of = i
                                            /\ delivery'[j].chunk = delivery[i].chunk,
           halfway' \subseteq Runs, halfway \subseteq halfway' \cup {r},
           \A j \in DOMAIN delivery :
              delivery[j].run = r /\ delivery[j].state = "Sending" => r \in halfway',
           r \notin halfway' =>
              \A j \in DOMAIN delivery' : delivery'[j].run = r /\ delivery'[j].state \notin Over =>
                \A c \in 1..(delivery'[j].chunk - 1) : \E k \in DOMAIN delivery' :
                    /\ delivery'[k].run = r /\ delivery'[k].chunk = c
                    /\ \/ delivery'[k].chat = delivery'[j].chat
                       \/ delivery'[k].state \in {"Reviewed", "UnknownDelivery"}
    PROVE  RInv'
<1>0. DOMAIN delivery' \subseteq Deliveries
  <2>1. Len(delivery') \in Nat /\ DOMAIN delivery' = 1..Len(delivery')
    OBVIOUS
  <2> QED BY <2>1, ReportFacts DEF Deliveries
<1>1. ReportTypes'
  BY DEF RInv, ReportTypes
<1>2. WorkerKnows' /\ FamilyIsFree' /\ reporter'.pc = "idle"
  BY ReportFacts DEF WorkerKnows, FamilyIsFree
<1>3. SendingIsKnown'
  <2> SUFFICES ASSUME NEW j \in DOMAIN delivery', delivery'[j].state = "Sending"
               PROVE  delivery'[j].run \in halfway'
    BY DEF SendingIsKnown
  <2>1. j \in DOMAIN delivery /\ delivery[j].state = "Sending" /\ delivery'[j].run = delivery[j].run
    OBVIOUS
  <2>2. delivery[j].run \in halfway
    BY <1>2, <2>1 DEF RInv, SendingIsKnown
  <2> QED BY <2>1, <2>2
<1>4. AcceptedIsKnown'
  <2>1. \A j \in Deliveries : j \notin DOMAIN delivery => accepted[j] = 0
    BY DEF RInv, AcceptedIsKnown
  <2>2. ASSUME NEW j \in DOMAIN delivery, j \notin lost, accepted[j] # 0
        PROVE  accepted[j] = 1 /\ delivery'[j].state \in Over \cup {"UnknownDelivery"}
    <3>1. accepted[j] = 1 /\ delivery[j].state \in Over \cup {"UnknownDelivery"}
      BY <1>2, <2>2 DEF RInv, AcceptedIsKnown
    <3> QED BY <3>1 DEF Over
  <2>3. \A j \in Deliveries \ DOMAIN delivery' : accepted'[j] = 0
    BY <2>1
  <2>4. \A j \in DOMAIN delivery' : j \notin lost' =>
            accepted'[j] = 0 \/ (accepted'[j] = 1 /\ delivery'[j].state \in Over \cup {"UnknownDelivery"})
    BY <1>0, <2>1, <2>2
  <2> QED BY <2>3, <2>4 DEF AcceptedIsKnown
<1>5. DigestsAreWhole'
  <2>1. \A j \in DOMAIN delivery : delivery[j].of # 0 => delivery[j].of \in DOMAIN delivery
    BY ReportFacts DEF RInv, DigestsAreWhole
  <2>2. \A j \in DOMAIN delivery' : \E k \in DOMAIN delivery : delivery'[j].run = delivery[k].run
    OBVIOUS
  <2>3. \A k \in DOMAIN delivery : \A c \in Chunks : \E m \in DOMAIN delivery :
          delivery'[m].run = delivery[k].run /\ delivery'[m].chunk = c
    BY DEF RInv, DigestsAreWhole, Receipts
  <2>4. \A j \in DOMAIN delivery' : \A c \in Chunks : \E m \in DOMAIN delivery' :
          delivery'[m].run = delivery'[j].run /\ delivery'[m].chunk = c
    BY <2>2, <2>3
  <2>5. ASSUME NEW j \in DOMAIN delivery, delivery'[j].of # 0
        PROVE  /\ delivery'[j].of < j
               /\ delivery'[delivery'[j].of].run = delivery'[j].run
               /\ delivery'[delivery'[j].of].chunk = delivery'[j].chunk
    BY <2>1, <2>5 DEF RInv, DigestsAreWhole
  <2>6. ASSUME NEW j \in DOMAIN delivery', j \notin DOMAIN delivery
        PROVE  /\ delivery'[j].of < j
               /\ delivery'[delivery'[j].of].run = delivery'[j].run
               /\ delivery'[delivery'[j].of].chunk = delivery'[j].chunk
    <3>1. PICK i \in DOMAIN delivery : /\ delivery[i].run = r /\ delivery'[j].of = i
                                       /\ delivery'[j].chunk = delivery[i].chunk
      BY <2>6
    <3>2. i < j
      <4>1. i \in 1..Len(delivery) /\ Len(delivery) \in Nat /\ j > Len(delivery) /\ j \in Nat
        BY <1>0, <2>6, ReportFacts
      <4> QED BY <4>1
    <3> QED BY <2>6, <3>1, <3>2
  <2> QED BY <2>4, <2>5, <2>6 DEF DigestsAreWhole, Receipts
<1>6. EarlierAddressed'
  <2>1. SUFFICES ASSUME NEW j \in DOMAIN delivery', delivery'[j].run \notin halfway',
                        delivery'[j].state \notin Over, NEW c \in 1..(delivery'[j].chunk - 1)
                 PROVE  \E k \in DOMAIN delivery' :
                          /\ delivery'[k].run = delivery'[j].run /\ delivery'[k].chunk = c
                          /\ \/ delivery'[k].chat = delivery'[j].chat
                             \/ delivery'[k].state \in {"Reviewed", "UnknownDelivery"}
    BY DEF EarlierAddressed, Receipts
  <2>2. CASE delivery'[j].run = r
    BY <2>1, <2>2
  <2>3. CASE delivery'[j].run # r
    <3>1. /\ j \in DOMAIN delivery /\ delivery[j].run # r /\ delivery[j].run \notin halfway
          /\ delivery'[j].state = delivery[j].state /\ delivery[j].chunk = delivery'[j].chunk
          /\ delivery'[j].run = delivery[j].run /\ delivery'[j].chat = delivery[j].chat
      BY <2>1, <2>3
    <3>2. PICK k \in DOMAIN delivery :
            /\ delivery[k].run = delivery[j].run /\ delivery[k].chunk = c
            /\ delivery[k].chat = delivery[j].chat
                 \/ delivery[k].state \in {"Reviewed", "UnknownDelivery"}
      BY <2>1, <3>1 DEF RInv, EarlierAddressed, Receipts
    <3> QED BY <3>1, <3>2
  <2> QED BY <2>2, <2>3
<1> QED BY <1>1, <1>2, <1>3, <1>4, <1>5, <1>6 DEF RInv

\* a retry that redirects fails half way.
LEMMA RetryFailsOK ==
    ASSUME RInv, NEW r \in Runs, RetryFails(r)
    PROVE  RInv'
<1>1. PICK made \in SUBSET Stale(r) : \E reviewed \in {made} \cup {made \ {i} : i \in made} :
        Len(Redirected(made, reviewed)) <= MaxDeliveries /\ delivery' = Redirected(made, reviewed)
  BY DEF RetryFails
<1>2. PICK reviewed \in SUBSET made :
        Len(Redirected(made, reviewed)) <= MaxDeliveries /\ delivery' = Redirected(made, reviewed)
  BY <1>1
<1>3. /\ reporter = NoWork /\ halfway' = halfway \cup {r}
      /\ UNCHANGED <<telegram, run, reporter, accepted, lost>>
  BY DEF RetryFails, Idling, Active
<1> DEFINE successor(i) == Intent(r, delivery[i].chunk, telegram.chat, i)
<1>4. /\ delivery' \in Seq(Receipt) /\ Len(delivery') <= MaxDeliveries
      /\ \A j \in DOMAIN delivery :
            /\ j \in DOMAIN delivery'
            /\ delivery'[j] = IF j \in reviewed /\ delivery[j].state # "Succeeded"
                              THEN [delivery[j] EXCEPT !.state = "Reviewed"] ELSE delivery[j]
      /\ \A j \in DOMAIN delivery' \ DOMAIN delivery :
            j > Len(delivery) /\ \E i \in made : delivery'[j] = successor(i)
  <2> DEFINE list == Redirected(made, reviewed)
  <2>1. /\ list \in Seq(Receipt)
        /\ \A j \in DOMAIN delivery :
              /\ j \in DOMAIN list
              /\ list[j] = IF j \in reviewed /\ delivery[j].state # "Succeeded"
                           THEN [delivery[j] EXCEPT !.state = "Reviewed"] ELSE delivery[j]
        /\ \A j \in DOMAIN list \ DOMAIN delivery :
              j > Len(delivery) /\ \E i \in made : list[j] = successor(i)
    BY RedirectedIs
  <2> HIDE DEF list, successor
  <2>2. delivery' = list /\ Len(list) <= MaxDeliveries
    BY <1>2 DEF list
  <2> QED BY <2>1, <2>2
<1>5. \A i \in made : /\ i \in DOMAIN delivery /\ delivery[i].run = r
                      /\ delivery[i].state \in {"Pending", "Failed", "Succeeded"}
  BY DEF Stale, Receipts
<1>6. \A i : /\ successor(i).run = r /\ successor(i).chunk = delivery[i].chunk
             /\ successor(i).of = i /\ successor(i).state = "Pending"
  BY DEF Intent
<1> HIDE DEF successor
<1>7. \A j \in DOMAIN delivery :
         /\ j \in DOMAIN delivery'
         /\ delivery'[j].run = delivery[j].run /\ delivery'[j].chunk = delivery[j].chunk
         /\ delivery'[j].chat = delivery[j].chat /\ delivery'[j].of = delivery[j].of
         /\ \/ delivery'[j].state = delivery[j].state
            \/ /\ delivery[j].run = r /\ delivery[j].state \in {"Pending", "Failed"}
               /\ delivery'[j].state \in {"Pending", "Reviewed"}
  <2>1. \A j \in DOMAIN delivery :
           LET v == [delivery[j] EXCEPT !.state = "Reviewed"]
           IN /\ v.run = delivery[j].run /\ v.chunk = delivery[j].chunk
              /\ v.chat = delivery[j].chat /\ v.of = delivery[j].of /\ v.state = "Reviewed"
    BY ReportFacts DEF Receipt
  <2> QED BY <1>4, <1>5, <2>1
<1>8. \A j \in DOMAIN delivery' \ DOMAIN delivery :
         /\ j > Len(delivery) /\ delivery'[j].state = "Pending" /\ delivery'[j].run = r
         /\ \E i \in DOMAIN delivery : /\ delivery[i].run = r /\ delivery'[j].of = i
                                       /\ delivery'[j].chunk = delivery[i].chunk
  BY <1>4, <1>5, <1>6
<1>9. /\ run' \in [Runs -> Run] /\ \A q \in Runs : run'[q].enabled => run'[q].chat \in Chats
      /\ halfway' \subseteq Runs /\ halfway \subseteq halfway' \cup {r} /\ r \in halfway'
  BY <1>3 DEF RInv, ReportTypes
<1> QED BY <1>3, <1>4, <1>7, <1>8, <1>9, RetriedOK

\* A retry addresses all that is to be sent to the selected chat, and of every
\* chunk leaves a receipt that is addressed to it or is the user's: of those that
\* are confirmed in other chats only, the newest has a successor.
LEMMA RetryOK ==
    ASSUME RInv, NEW r \in Runs, RetryMemoryReport(r)
    PROVE  RInv'
<1> DEFINE list == Redirected(Stale(r), Stale(r))
           successor(i) == Intent(r, delivery[i].chunk, telegram.chat, i)
           again(i) == [list[i] EXCEPT !.state = "Pending", !.due = FALSE]
           chat == telegram.chat
<1>1. /\ reporter = NoWork /\ Len(list) <= MaxDeliveries
      /\ delivery' = [i \in DOMAIN list |->
            IF list[i].run = r /\ list[i].state = "Failed" THEN again(i) ELSE list[i]]
      /\ halfway' = IF \E i \in Receipts(r) : delivery[i].state \in {"Sending", "UnknownDelivery"}
                    THEN halfway ELSE halfway \ {r}
      /\ UNCHANGED <<telegram, reporter, accepted, lost>>
  BY DEF RetryMemoryReport, Idling, Active
<1>2. /\ list \in Seq(Receipt)
      /\ \A j \in DOMAIN delivery :
            /\ j \in DOMAIN list
            /\ list[j] = IF j \in Stale(r) /\ delivery[j].state # "Succeeded"
                         THEN [delivery[j] EXCEPT !.state = "Reviewed"] ELSE delivery[j]
      /\ \A j \in DOMAIN list \ DOMAIN delivery :
            j > Len(delivery) /\ \E i \in Stale(r) : list[j] = successor(i)
      /\ \A i \in Stale(r) : NeedsSuccessor(i) => \E j \in DOMAIN list : list[j] = successor(i)
  <2>1. Stale(r) \in SUBSET Stale(r)
    OBVIOUS
  <2> QED BY <2>1, RedirectedIs
<1> HIDE DEF list
<1>3. /\ DOMAIN list = 1..Len(list) /\ Len(list) \in Nat
      /\ \A j \in DOMAIN list :
            /\ list[j] \in Receipt /\ again(j) \in Receipt
            /\ again(j).run = list[j].run /\ again(j).chunk = list[j].chunk
            /\ again(j).chat = list[j].chat /\ again(j).of = list[j].of /\ again(j).state = "Pending"
  <2>1. /\ DOMAIN list = 1..Len(list) /\ Len(list) \in Nat
        /\ \A j \in DOMAIN list : list[j] \in Receipt
    BY <1>2
  <2> QED BY <2>1 DEF Receipt
<1>4. \A j \in DOMAIN list :
         /\ j \in DOMAIN delivery' /\ delivery'[j] \in Receipt
         /\ delivery'[j].run = list[j].run /\ delivery'[j].chunk = list[j].chunk
         /\ delivery'[j].chat = list[j].chat /\ delivery'[j].of = list[j].of
         /\ delivery'[j].state = IF list[j].run = r /\ list[j].state = "Failed" THEN "Pending"
                                 ELSE list[j].state
  <2> HIDE DEF again
  <2> QED BY <1>1, <1>3
<1>5. delivery' \in Seq(Receipt) /\ DOMAIN delivery' = DOMAIN list /\ Len(delivery') = Len(list)
  <2> DEFINE n == Len(list)
  <2>1. n \in Nat /\ DOMAIN list = 1..n
    BY <1>3
  <2>2. delivery' \in [1..n -> Receipt] /\ DOMAIN delivery' = DOMAIN list
    <3> HIDE DEF again
    <3> QED BY <1>1, <1>3
  <2> HIDE DEF n
  <2>3. delivery' \in Seq(Receipt) /\ Len(delivery') = n
    BY <2>1, <2>2
  <2> QED BY <2>2, <2>3 DEF n
<1> HIDE DEF again
<1>6. \A i \in Stale(r) : /\ i \in DOMAIN delivery /\ delivery[i].run = r
                          /\ delivery[i].state \in {"Pending", "Failed", "Succeeded"}
                          /\ delivery[i].chat # chat
  BY DEF Stale, Receipts
<1>7. \A i : /\ successor(i).run = r /\ successor(i).chunk = delivery[i].chunk
             /\ successor(i).of = i /\ successor(i).state = "Pending" /\ successor(i).chat = chat
  BY DEF Intent
<1> HIDE DEF successor
<1>8. \A j \in DOMAIN delivery :
         /\ j \in DOMAIN delivery'
         /\ delivery'[j].run = delivery[j].run /\ delivery'[j].chunk = delivery[j].chunk
         /\ delivery'[j].chat = delivery[j].chat /\ delivery'[j].of = delivery[j].of
         /\ delivery'[j].state =
               IF j \in Stale(r) /\ delivery[j].state # "Succeeded" THEN "Reviewed"
               ELSE IF delivery[j].run = r /\ delivery[j].state = "Failed" THEN "Pending"
               ELSE delivery[j].state
  <2> SUFFICES ASSUME NEW j \in DOMAIN delivery
               PROVE  /\ j \in DOMAIN delivery'
                      /\ delivery'[j].run = delivery[j].run /\ delivery'[j].chunk = delivery[j].chunk
                      /\ delivery'[j].chat = delivery[j].chat /\ delivery'[j].of = delivery[j].of
                      /\ delivery'[j].state =
                            IF j \in Stale(r) /\ delivery[j].state # "Succeeded" THEN "Reviewed"
                            ELSE IF delivery[j].run = r /\ delivery[j].state = "Failed" THEN "Pending"
                            ELSE delivery[j].state
    OBVIOUS
  <2> DEFINE v == [delivery[j] EXCEPT !.state = "Reviewed"]
  <2>1. /\ v.run = delivery[j].run /\ v.chunk = delivery[j].chunk
        /\ v.chat = delivery[j].chat /\ v.of = delivery[j].of /\ v.state = "Reviewed"
    BY ReportFacts DEF Receipt
  <2>2. /\ j \in DOMAIN list
        /\ list[j] = IF j \in Stale(r) /\ delivery[j].state # "Succeeded" THEN v ELSE delivery[j]
    BY <1>2
  <2> HIDE DEF v
  <2>3. /\ j \in DOMAIN delivery'
        /\ delivery'[j].run = list[j].run /\ delivery'[j].chunk = list[j].chunk
        /\ delivery'[j].chat = list[j].chat /\ delivery'[j].of = list[j].of
        /\ delivery'[j].state = IF list[j].run = r /\ list[j].state = "Failed" THEN "Pending"
                                ELSE list[j].state
    BY <1>4, <2>2
  <2> QED BY <2>1, <2>2, <2>3
<1>9. \A j \in DOMAIN delivery' \ DOMAIN delivery :
         /\ j > Len(delivery) /\ delivery'[j].state = "Pending" /\ delivery'[j].run = r
         /\ delivery'[j].chat = chat
         /\ \E i \in DOMAIN delivery : /\ delivery[i].run = r /\ delivery'[j].of = i
                                       /\ delivery'[j].chunk = delivery[i].chunk
  <2> SUFFICES ASSUME NEW j \in DOMAIN list, j \notin DOMAIN delivery
               PROVE  /\ j > Len(delivery) /\ delivery'[j].state = "Pending" /\ delivery'[j].run = r
                      /\ delivery'[j].chat = chat
                      /\ \E i \in DOMAIN delivery : /\ delivery[i].run = r /\ delivery'[j].of = i
                                                    /\ delivery'[j].chunk = delivery[i].chunk
    BY <1>5
  <2>1. PICK i \in Stale(r) : j > Len(delivery) /\ list[j] = successor(i)
    BY <1>2
  <2> QED BY <1>4, <1>6, <1>7, <2>1
<1>10. \A i \in Stale(r) : NeedsSuccessor(i) =>
          \E j \in DOMAIN delivery' : /\ delivery'[j].run = r /\ delivery'[j].chat = chat
                                      /\ delivery'[j].chunk = delivery[i].chunk
  BY <1>2, <1>4, <1>7
<1>11. run' \in [Runs -> Run] /\ \A q \in Runs : run'[q].enabled => run'[q].chat \in Chats
  <2> DEFINE o == IF HasResult(r) THEN run[r].outcome ELSE "none"
             mine == [run[r] EXCEPT !.phase = "queued", !.outcome = o]
  <2>1. /\ run \in [Runs -> Run] /\ run[r] \in Run
        /\ \A q \in Runs : run[q].enabled => run[q].chat \in Chats
    BY DEF RInv, ReportTypes
  <2>2. o \in {"none", "deliver", "nodata", "blocked", "failed"}
    BY <2>1 DEF Run
  <2>3. run' = [run EXCEPT ![r] = mine]
    BY <2>1 DEF RetryMemoryReport
  <2> HIDE DEF o
  <2>4. mine \in Run /\ mine.enabled = run[r].enabled /\ mine.chat = run[r].chat
    BY <2>1, <2>2 DEF Run
  <2> HIDE DEF mine
  <2> QED BY <2>1, <2>3, <2>4
<1>12. /\ halfway' \subseteq Runs /\ halfway \subseteq halfway' \cup {r}
       /\ \A j \in DOMAIN delivery : delivery[j].run = r /\ delivery[j].state = "Sending" => r \in halfway'
  <2>1. \A j \in DOMAIN delivery : delivery[j].run = r /\ delivery[j].state = "Sending" =>
            r \in halfway /\ j \in Receipts(r)
    BY <1>1, ReportFacts DEF RInv, SendingIsKnown, Receipts
  <2> QED BY <1>1, <2>1 DEF RInv, ReportTypes
<1>13. ASSUME r \notin halfway',
              NEW j \in DOMAIN delivery', delivery'[j].run = r, delivery'[j].state \notin Over,
              NEW c \in 1..(delivery'[j].chunk - 1)
       PROVE  \E k \in DOMAIN delivery' :
                 /\ delivery'[k].run = r /\ delivery'[k].chunk = c
                 /\ \/ delivery'[k].chat = delivery'[j].chat
                    \/ delivery'[k].state \in {"Reviewed", "UnknownDelivery"}
  <2>1. CASE j \in DOMAIN delivery /\ delivery[j].state = "UnknownDelivery"
    <3>1. r \notin halfway /\ delivery[j].run = r /\ delivery[j].state \notin Over
      <4>1. delivery[j].run = r /\ delivery[j].state \notin Over /\ j \in Receipts(r)
        BY <1>8, <1>13, <2>1 DEF Receipts, Over
      <4> QED BY <1>1, <1>13, <2>1, <4>1
    <3>2. c \in 1..(delivery[j].chunk - 1)
      BY <1>8, <1>13, <2>1
    <3>3. PICK k \in DOMAIN delivery :
            /\ delivery[k].run = r /\ delivery[k].chunk = c
            /\ delivery[k].chat = delivery[j].chat
                 \/ delivery[k].state \in {"Reviewed", "UnknownDelivery"}
      BY <2>1, <3>1, <3>2 DEF RInv, EarlierAddressed, Receipts
    <3> QED BY <1>6, <1>8, <2>1, <3>3
  <2>2. CASE ~(j \in DOMAIN delivery /\ delivery[j].state = "UnknownDelivery")
    <3>1. delivery'[j].chat = chat
      <4>1. CASE j \notin DOMAIN delivery
        BY <1>9, <1>13, <4>1
      <4>2. CASE j \in DOMAIN delivery
        <5>1. /\ delivery[j].run = r /\ delivery[j].state \in {"Pending", "Failed"}
              /\ j \notin Stale(r)
          <6>1. delivery[j].run = r /\ delivery[j].state # "Sending"
            BY <1>8, <1>12, <1>13, <4>2
          <6>2. delivery[j].state \notin Over /\ j \notin Stale(r)
            BY <1>8, <1>13, <4>2 DEF Over
          <6>3. delivery[j] \in Receipt
            BY <4>2, ReportFacts
          <6> QED BY <2>2, <4>2, <6>1, <6>2, <6>3 DEF Receipt, Over
        <5> QED BY <1>8, <4>2, <5>1 DEF Stale, Receipts
      <4> QED BY <4>1, <4>2
    <3> DEFINE K == {k \in DOMAIN delivery : delivery[k].run = r /\ delivery[k].chunk = c}
    <3>2. K # {}
      <4>1. PICK m \in DOMAIN delivery : delivery[m].run = r /\ delivery[m].chunk = delivery'[j].chunk
        BY <1>8, <1>9, <1>13
      <4>2. c \in Chunks
        BY <1>13, <4>1, ReportFacts DEF Chunks
      <4> QED BY <4>1, <4>2 DEF RInv, DigestsAreWhole, Receipts
    <3>3. PICK k \in K : \A m \in K : m <= k
      <4>1. K \in SUBSET (0..Len(delivery)) /\ Len(delivery) \in Nat
        <5>1. DOMAIN delivery = 1..Len(delivery) /\ Len(delivery) \in Nat
          BY ReportFacts
        <5>2. 1..Len(delivery) \subseteq 0..Len(delivery)
          BY <5>1
        <5> QED BY <5>1, <5>2
      <4> HIDE DEF K
      <4> QED BY <3>2, <4>1, GreatestNatural
    <3>4. k \in DOMAIN delivery /\ delivery[k].run = r /\ delivery[k].chunk = c
          /\ delivery[k] \in Receipt
      BY ReportFacts
    <3>5. CASE delivery[k].chat = chat \/ delivery[k].state \in {"Reviewed", "UnknownDelivery"}
      BY <1>6, <1>8, <3>1, <3>4, <3>5
    <3>6. CASE /\ delivery[k].chat # chat /\ delivery[k].state \notin {"Reviewed", "UnknownDelivery"}
               /\ \A m \in K : delivery[m].chat # chat
      <4>1. delivery[k].state \in {"Pending", "Failed", "Succeeded"}
        BY <1>12, <1>13, <3>4, <3>6 DEF Receipt
      <4>2. k \in Stale(r)
        BY <3>4, <3>6, <4>1 DEF Stale, Receipts
      <4>3. CASE delivery[k].state # "Succeeded"
        BY <1>8, <3>4, <4>2, <4>3
      <4>4. NeedsSuccessor(k)
        <5>1. ~\E m \in Receipts(r) : delivery[m].chunk = c /\ delivery[m].chat = chat
          BY <3>6 DEF Receipts
        <5>2. ASSUME NEW m \in Receipts(r), delivery[m].of = k PROVE FALSE
          <6>1. m \in DOMAIN delivery /\ delivery[m].run = r /\ k # 0 /\ m \in Int /\ k \in Int
            BY <3>4, ReportFacts DEF Receipts
          <6>2. k < m /\ delivery[m].chunk = c
            BY <3>4, <5>2, <6>1 DEF RInv, DigestsAreWhole
          <6>3. m \in K
            BY <6>1, <6>2
          <6>4. m <= k
            <7> HIDE DEF K
            <7> QED BY <3>3, <6>3
          <6> QED BY <6>1, <6>2, <6>4
        <5> QED BY <3>4, <5>1, <5>2 DEF NeedsSuccessor
      <4> QED BY <1>10, <3>1, <3>4, <4>2, <4>4
    <3>7. CASE \E m \in K : delivery[m].chat = chat
      BY <1>8, <3>1, <3>7
    <3> QED BY <3>5, <3>6, <3>7
  <2> QED BY <2>1, <2>2
<1>14. \A j \in DOMAIN delivery :
          /\ j \in DOMAIN delivery'
          /\ delivery'[j].run = delivery[j].run /\ delivery'[j].chunk = delivery[j].chunk
          /\ delivery'[j].chat = delivery[j].chat /\ delivery'[j].of = delivery[j].of
          /\ \/ delivery'[j].state = delivery[j].state
             \/ /\ delivery[j].run = r /\ delivery[j].state \in {"Pending", "Failed"}
                /\ delivery'[j].state \in {"Pending", "Reviewed"}
  BY <1>6, <1>8
<1>15. /\ reporter = NoWork /\ UNCHANGED <<telegram, reporter, accepted, lost>>
       /\ Len(delivery') <= MaxDeliveries
  BY <1>1, <1>5
<1> HIDE DEF chat
<1> QED BY <1>5, <1>9, <1>11, <1>12, <1>13, <1>14, <1>15, RetriedOK

\* RInv is inductive.
LEMMA ReportStep == RInv /\ [ReportNext]_reportVars => RInv'
<1> SUFFICES ASSUME RInv, [ReportNext]_reportVars PROVE RInv'
  OBVIOUS
<1>1. CASE UNCHANGED reportVars
  <2>1. ReportTypes' /\ WorkerKnows' /\ FamilyIsFree' /\ SendingIsKnown' /\ AcceptedIsKnown'
    BY <1>1 DEF reportVars, RInv, ReportTypes, WorkerKnows, FamilyIsFree, SendingIsKnown,
                AcceptedIsKnown, Receipts
  <2> QED BY <1>1, <2>1, ReceiptsStay DEF reportVars, RInv
<1>2. ASSUME NEW r \in Runs,
             \/ Claim(r) \/ Resume(r) \/ RetryMemoryReport(r) \/ RetryFails(r)
             \/ RegenerateMemoryReport(r)
      PROVE  RInv'
  BY <1>2, ClaimOK, RetryOK, RetryFailsOK, SettingsOK
<1>3. CASE Generate \/ DeliverOpen \/ DeliverCheck \/ DeliverNext \/ Dispatch \/ Accepts \/ StoreFault
  BY <1>3, GenerateOK, DeliverOpenOK, DeliverCheckOK, DeliverNextOK, DispatchOK, AcceptsOK, StoreFaultOK
<1>4. ASSUME NEW outcome \in {"Confirmed", "Unknown", "Permanent", "Retryable"}, Answered(outcome)
      PROVE  RInv'
  BY <1>4, AnsweredOK
<1>5. CASE SetMemorySettings \/ MarkInferenceSettled \/ Crash
  BY <1>5, SettingsOK, CrashOK
<1>6. ASSUME NEW i \in DOMAIN delivery, NEW resend \in BOOLEAN, ResolveTelegramDelivery(i, resend)
      PROVE  RInv'
  BY <1>6, ResolveOK
<1> QED BY <1>1, <1>2, <1>3, <1>4, <1>5, <1>6 DEF ReportNext

\* Whatever the worker, the commands, failing store calls and crashes do, in any
\* number: no message that Telegram accepted goes out again under its receipt
\* unless the store refused to save that receipt's confirmation (memory.rs:1611).
THEOREM NotSentAgain == ReportSpec => []AcceptedOnce
<1>1. RInv => AcceptedOnce
  <2> SUFFICES ASSUME RInv, NEW i \in Deliveries, i \notin lost PROVE accepted[i] <= 1
    BY DEF AcceptedOnce
  <2>1. accepted[i] = 0 \/ accepted[i] = 1
    BY DEF RInv, AcceptedIsKnown
  <2> QED BY <2>1
<1> QED BY <1>1, ReportInitInv, ReportStep, PTL DEF ReportSpec

\* A chunk goes out in one place only.
LEMMA OnlyDispatchSends ==
    ASSUME RInv, ReportNext, NEW i \in DOMAIN delivery, Dispatches(i)
    PROVE  reporter.pc = "lock" /\ reporter.item = i
           /\ telegram = [enabled |-> TRUE, chat |-> delivery[i].chat]
<1>0. delivery[i].state # "Sending" /\ delivery'[i].state = "Sending"
  BY DEF Dispatches
<1>1. delivery # delivery'
  BY <1>0
<1>2. CASE Dispatch
  <2>1. PICK v : delivery' = [delivery EXCEPT ![reporter.item] = v]
    BY <1>1, <1>2 DEF Dispatch
  <2>2. reporter.item = i
    BY <1>0, <2>1
  <2> QED BY <1>1, <1>2, <2>2 DEF Dispatch
<1>3. CASE DeliverOpen
  BY <1>0, <1>1, <1>3, ReportFacts DEF DeliverOpen
<1>4. CASE DeliverNext
  <2>1. PICK k : delivery' = [delivery EXCEPT ![k].state = "Failed", ![k].due = FALSE]
    BY <1>1, <1>4 DEF DeliverNext
  <2> QED BY <1>0, <2>1, ReportFacts DEF Receipt
<1>5. ASSUME NEW outcome \in {"Confirmed", "Unknown", "Permanent", "Retryable"}, Answered(outcome)
      PROVE  FALSE
  <2> DEFINE s == CASE outcome = "Confirmed" -> "Succeeded"
                    [] outcome = "Unknown" -> "UnknownDelivery"
                    [] OTHER -> "Failed"
             k == reporter.item
             d == outcome = "Retryable" /\ delivery[k].attempt <= Retries
  <2>1. s # "Sending"
    BY <1>5
  <2>2. delivery' = [delivery EXCEPT ![k].state = s, ![k].due = d]
    BY <1>5 DEF Answered
  <2> HIDE DEF s, k, d
  <2> QED BY <1>0, <2>1, <2>2, ReportFacts DEF Receipt
<1>6. ASSUME NEW r \in Runs, NEW made \in SUBSET Stale(r), NEW reviewed \in SUBSET made,
             delivery'[i] = Redirected(made, reviewed)[i]
             \/ delivery'[i] = [Redirected(made, reviewed)[i] EXCEPT !.state = "Pending", !.due = FALSE]
      PROVE  FALSE
  <2> DEFINE list == Redirected(made, reviewed)
  <2>1. /\ list \in Seq(Receipt) /\ i \in DOMAIN list
        /\ list[i] = IF i \in reviewed /\ delivery[i].state # "Succeeded"
                     THEN [delivery[i] EXCEPT !.state = "Reviewed"] ELSE delivery[i]
    BY RedirectedIs
  <2>2. delivery'[i] = list[i] \/ delivery'[i] = [list[i] EXCEPT !.state = "Pending", !.due = FALSE]
    BY <1>6
  <2> HIDE DEF list
  <2>3. list[i].state # "Sending" /\ list[i] \in Receipt
    BY <1>0, <2>1, ReportFacts DEF Receipt
  <2> QED BY <1>0, <2>2, <2>3 DEF Receipt
<1>7. ASSUME NEW r \in Runs, RetryMemoryReport(r) PROVE FALSE
  <2> DEFINE list == Redirected(Stale(r), Stale(r))
  <2>1. Stale(r) \in SUBSET Stale(r)
    OBVIOUS
  <2>2. i \in DOMAIN list
    BY <2>1, RedirectedIs
  <2>3. delivery' = [j \in DOMAIN list |->
              IF list[j].run = r /\ list[j].state = "Failed"
              THEN [list[j] EXCEPT !.state = "Pending", !.due = FALSE] ELSE list[j]]
    BY <1>7 DEF RetryMemoryReport
  <2> HIDE DEF list
  <2>4. delivery'[i] = list[i] \/ delivery'[i] = [list[i] EXCEPT !.state = "Pending", !.due = FALSE]
    BY <2>2, <2>3
  <2> QED BY <1>6, <2>1, <2>4 DEF list
<1>8. ASSUME NEW r \in Runs, RetryFails(r) PROVE FALSE
  <2>1. PICK made \in SUBSET Stale(r) : \E reviewed \in {made} \cup {made \ {k} : k \in made} :
          delivery' = Redirected(made, reviewed)
    BY <1>8 DEF RetryFails
  <2>2. PICK reviewed \in SUBSET made : delivery' = Redirected(made, reviewed)
    BY <2>1
  <2> QED BY <1>6, <2>2
<1>9. ASSUME NEW k \in DOMAIN delivery, NEW resend \in BOOLEAN, ResolveTelegramDelivery(k, resend)
      PROVE  FALSE
  <2> DEFINE moved == [delivery EXCEPT ![k].state = "Reviewed"]
             tail == IF resend THEN <<Intent(delivery[k].run, delivery[k].chunk, delivery[k].chat, k)>>
                     ELSE <<>>
  <2>1. delivery' = moved \o tail
    BY <1>9 DEF ResolveTelegramDelivery, SetState
  <2>2. moved \in Seq(Receipt) /\ Len(moved) = Len(delivery) /\ moved[i].state # "Sending"
    <3> DEFINE v == [delivery[k] EXCEPT !.state = "Reviewed"]
    <3>1. v \in Receipt /\ v.state = "Reviewed" /\ moved = [delivery EXCEPT ![k] = v]
      BY ReportFacts DEF Receipt
    <3> HIDE DEF v, moved
    <3> QED BY <1>0, <3>1, ReportFacts DEF RInv, ReportTypes
  <2>3. \E S : tail \in Seq(S)
    <3>1. CASE resend
      <4>1. tail \in Seq({Intent(delivery[k].run, delivery[k].chunk, delivery[k].chat, k)})
        BY <3>1
      <4> QED BY <4>1
    <3>2. CASE ~resend
      <4>1. tail \in Seq({})
        BY <3>2
      <4> QED BY <4>1
    <3> QED BY <3>1, <3>2
  <2> HIDE DEF moved, tail
  <2>4. PICK S : moved \in Seq(S) /\ tail \in Seq(S)
    <3>1. PICK T : tail \in Seq(T)
      BY <2>3
    <3>2. moved \in Seq(Receipt \cup T) /\ tail \in Seq(Receipt \cup T)
      BY <2>2, <3>1
    <3> QED BY <3>2
  <2>5. delivery'[i] = moved[i]
    BY <2>1, <2>2, <2>4, ReportFacts
  <2> QED BY <1>0, <2>2, <2>5
<1>10. CASE Crash
  BY <1>0, <1>10, ReportFacts DEF Crash, Recovered, Receipt
<1>11. ASSUME NEW r \in Runs, Claim(r) \/ Resume(r) \/ RegenerateMemoryReport(r) PROVE FALSE
  BY <1>1, <1>11 DEF Claim, Resume, RegenerateMemoryReport
<1>12. ~(Generate \/ DeliverCheck \/ Accepts \/ StoreFault \/ SetMemorySettings \/ MarkInferenceSettled)
  BY <1>1 DEF Generate, DeliverCheck, Accepts, StoreFault, SetMemorySettings, MarkInferenceSettled
<1> QED BY <1>2, <1>3, <1>4, <1>5, <1>7, <1>8, <1>9, <1>10, <1>11, <1>12 DEF ReportNext

\* What goes out of a digest, in however many revisions, redirections and
\* crashes, goes to a chat that has every earlier chunk, or to one whose earlier
\* chunks the user decided about (memory.rs:474).
THEOREM DigestsArriveInOrder == ReportSpec => DigestInOrder
<1>1. ASSUME RInv, [ReportNext]_reportVars
      PROVE  [ \A i \in DOMAIN delivery : Dispatches(i) /\ delivery[i].run \notin halfway =>
                 \A c \in 1..(delivery[i].chunk - 1) : \E j \in Receipts(delivery[i].run) :
                    /\ delivery[j].chunk = c
                    /\ \/ delivery[j].state = "Succeeded" /\ delivery[j].chat = delivery[i].chat
                       \/ delivery[j].state = "Reviewed" ]_reportVars
  <2> SUFFICES ASSUME ReportNext, NEW i \in DOMAIN delivery, Dispatches(i),
                      delivery[i].run \notin halfway, NEW c \in 1..(delivery[i].chunk - 1)
               PROVE  \E j \in Receipts(delivery[i].run) :
                        /\ delivery[j].chunk = c
                        /\ \/ delivery[j].state = "Succeeded" /\ delivery[j].chat = delivery[i].chat
                           \/ delivery[j].state = "Reviewed"
    BY <1>1
  <2>1. reporter.pc = "lock" /\ reporter.item = i
    BY <1>1, OnlyDispatchSends
  <2>2. /\ delivery[i].state \notin Over /\ delivery[i].run = reporter.run
        /\ \A j \in Receipts(delivery[i].run) : /\ delivery[j].state # "UnknownDelivery"
                                                /\ delivery[j].chunk < delivery[i].chunk =>
                                                      delivery[j].state \in Over
    BY <1>1, <2>1, HasReceipt DEF RInv, WorkerKnows
  <2>3. PICK j \in Receipts(delivery[i].run) :
          /\ delivery[j].chunk = c
          /\ delivery[j].chat = delivery[i].chat
               \/ delivery[j].state \in {"Reviewed", "UnknownDelivery"}
    BY <1>1, <2>2 DEF RInv, EarlierAddressed
  <2>4. c < delivery[i].chunk
    BY <1>1, ReportFacts
  <2> QED BY <2>2, <2>3, <2>4 DEF Over
<1> QED BY <1>1, ReportInitInv, ReportStep, PTL DEF ReportSpec, DigestInOrder

\* One digest of a revision family is confirmed: the family is looked at when
\* the worker takes a chunk, and nothing another revision does until the chunk
\* goes out can confirm one of its own (memory.rs:1636).
THEOREM OneDigestOfAFamily == ReportSpec => FamilyDeliversOnce
<1>1. ASSUME RInv, [ReportNext]_reportVars
      PROVE  [ \A i \in DOMAIN delivery : Dispatches(i) /\ delivery[i].of = 0 =>
                 ~\E j \in DOMAIN delivery : /\ delivery[j].run # delivery[i].run
                                             /\ delivery[j].state \in {"Succeeded", "UnknownDelivery"}
             ]_reportVars
  <2> SUFFICES ASSUME ReportNext, NEW i \in DOMAIN delivery, Dispatches(i), delivery[i].of = 0,
                      NEW j \in DOMAIN delivery, delivery[j].run # delivery[i].run,
                      delivery[j].state \in {"Succeeded", "UnknownDelivery"}
               PROVE  FALSE
    BY <1>1
  <2>1. reporter.pc = "lock" /\ reporter.item = i
    BY <1>1, OnlyDispatchSends
  <2> QED BY <1>1, <2>1 DEF RInv, FamilyIsFree
<1> QED BY <1>1, ReportInitInv, ReportStep, PTL DEF ReportSpec, FamilyDeliversOnce

-----------------------------------------------------------------------------
(* What a receipt's attempts have cost.  An automatic retry is one of Retries; *)
(* whatever else sends a chunk once more was paid for by an event: the user's  *)
(* retry, or a store call that failed while the chunk was being sent.          *)

OnItsWay(i) == reporter.pc \in {"sent", "accepted"} /\ reporter.item = i
Resendable(i) ==
    \/ delivery[i].state = "Pending"
    \/ delivery[i].state = "Failed" /\ delivery[i].due
    \/ delivery[i].state = "Sending" /\ ~OnItsWay(i)

AttemptsPaid ==
    /\ events \in 0..MaxEvents /\ settled \in BOOLEAN
    /\ \A i \in DOMAIN delivery :
          /\ delivery[i].attempt <= Retries + events + 1
          /\ Resendable(i) => delivery[i].attempt <= Retries + events
    /\ reporter.pc = "lock" => delivery[reporter.item].attempt <= Retries + events

\* Attempts are numbers.
LEMMA AttemptNumbers ==
    ASSUME RInv
    PROVE  /\ \A i \in DOMAIN delivery : delivery[i].attempt \in Nat
           /\ Retries \in Nat /\ MaxEvents \in Nat
<1>1. \A i \in DOMAIN delivery : delivery[i] \in Receipt BY ReportFacts
<1> QED BY <1>1, ReportAssumption DEF Receipt

\* A step that is an event: whatever it makes sendable has been paid for.
LEMMA PaidByEvent ==
    ASSUME RInv, RInv', AttemptsPaid, Act, settled' \in BOOLEAN,
           \A j \in DOMAIN delivery' :
              \/ delivery'[j].attempt = 0
              \/ j \in DOMAIN delivery /\ delivery'[j].attempt = delivery[j].attempt
    PROVE  AttemptsPaid'
<1>1. /\ events \in Nat /\ Retries \in Nat /\ MaxEvents \in Nat
      /\ events' = events + 1 /\ events' \in 0..MaxEvents
  BY AttemptNumbers DEF AttemptsPaid, Act
<1>2. \A j \in DOMAIN delivery : delivery[j].attempt <= Retries + events + 1
  BY DEF AttemptsPaid
<1>3. \A j \in DOMAIN delivery' : delivery'[j].attempt <= Retries + events'
  <2> SUFFICES ASSUME NEW j \in DOMAIN delivery' PROVE delivery'[j].attempt <= Retries + events'
    OBVIOUS
  <2>1. CASE delivery'[j].attempt = 0 BY <1>1, <2>1
  <2>2. CASE j \in DOMAIN delivery /\ delivery'[j].attempt = delivery[j].attempt
    BY <1>1, <1>2, <2>2, AttemptNumbers
  <2> QED BY <2>1, <2>2
<1>4. \A j \in DOMAIN delivery' : delivery'[j].attempt <= Retries + events' + 1
  <2>1. \A j \in DOMAIN delivery' : delivery'[j] \in Receipt BY DEF RInv, ReportTypes
  <2> QED BY <1>1, <1>3, <2>1 DEF Receipt
<1>5. reporter'.pc = "lock" => reporter'.item \in DOMAIN delivery'
  BY DEF RInv, WorkerKnows, Receipts
<1> QED BY <1>1, <1>3, <1>4, <1>5 DEF AttemptsPaid

\* A step that is none makes nothing sendable but within the automatic retries.
LEMMA PaidAlready ==
    ASSUME RInv, RInv', AttemptsPaid, events' = events, settled' \in BOOLEAN,
           \A j \in DOMAIN delivery' :
              \/ delivery'[j].attempt = 0
              \/ /\ j \in DOMAIN delivery /\ delivery'[j].attempt = delivery[j].attempt
                 /\ Resendable(j)' => Resendable(j) \/ delivery[j].attempt <= Retries,
           reporter'.pc = "lock" => delivery'[reporter'.item].attempt <= Retries + events
    PROVE  AttemptsPaid'
<1>1. events \in Nat /\ Retries \in Nat /\ MaxEvents \in Nat
  BY AttemptNumbers DEF AttemptsPaid
<1>2. ASSUME NEW j \in DOMAIN delivery'
      PROVE  /\ delivery'[j].attempt <= Retries + events + 1
             /\ Resendable(j)' => delivery'[j].attempt <= Retries + events
  <2>1. CASE delivery'[j].attempt = 0 BY <1>1, <2>1
  <2>2. CASE /\ j \in DOMAIN delivery /\ delivery'[j].attempt = delivery[j].attempt
             /\ Resendable(j)' => Resendable(j) \/ delivery[j].attempt <= Retries
    <3>1. delivery[j].attempt \in Nat BY <2>2, AttemptNumbers
    <3>2. /\ delivery[j].attempt <= Retries + events + 1
          /\ Resendable(j) => delivery[j].attempt <= Retries + events
      BY <2>2 DEF AttemptsPaid
    <3> HIDE DEF Resendable
    <3> QED BY <1>1, <2>2, <3>1, <3>2
  <2> QED BY <1>2, <2>1, <2>2
<1> QED BY <1>2 DEF AttemptsPaid

\* The receipts stay, and none is let go of.
LEMMA ReceiptsPaid ==
    ASSUME RInv, RInv', AttemptsPaid, UNCHANGED <<delivery, events>>, settled' \in BOOLEAN,
           reporter'.pc # "lock", \A j \in DOMAIN delivery : OnItsWay(j) => OnItsWay(j)'
    PROVE  AttemptsPaid'
<1>1. \A j \in DOMAIN delivery : Resendable(j)' => Resendable(j)
  BY DEF Resendable
<1> HIDE DEF Resendable
<1> QED BY <1>1, PaidAlready

\* Claiming, writing and opening a digest send nothing once more.
LEMMA WorkerPaid ==
    ASSUME RInv, RInv', AttemptsPaid,
           \/ \E r \in Runs : Claim(r) \/ Resume(r)
           \/ Generate \/ DeliverOpen \/ DeliverCheck \/ Accepts \/ MarkInferenceSettled
    PROVE  AttemptsPaid'
<1>0. reporter \in Reporter /\ NoWork \in Reporter /\ NoWork.pc = "idle"
  BY ReportFacts DEF RInv, ReportTypes
<1>1. ASSUME NEW r \in Runs, Claim(r) \/ Resume(r) PROVE AttemptsPaid'
  <2>1. /\ reporter = NoWork /\ UNCHANGED <<delivery, events, settled>>
        /\ reporter'.pc \in {"generate", "open"}
    BY <1>1 DEF Claim, Resume, Active, NoWork
  <2> QED BY <1>0, <2>1, ReceiptsPaid DEF AttemptsPaid, OnItsWay
<1>2. CASE Generate \/ DeliverCheck
  <2>1. /\ reporter.pc \in {"generate", "check"} /\ UNCHANGED <<delivery, events, settled>>
        /\ reporter'.pc \in {"open", "next", "idle"}
    BY <1>0, <1>2 DEF Generate, DeliverCheck, Rests, Reporter
  <2> QED BY <2>1, ReceiptsPaid DEF AttemptsPaid, OnItsWay
<1>3. CASE Accepts
  <2>1. /\ UNCHANGED <<delivery, events, settled>>
        /\ reporter'.pc = "accepted" /\ reporter'.item = reporter.item
    BY <1>0, <1>3 DEF Accepts, Reporter
  <2> QED BY <2>1, ReceiptsPaid DEF AttemptsPaid, OnItsWay
<1>4. CASE MarkInferenceSettled
  <2>1. UNCHANGED <<delivery, events, reporter>> /\ settled' \in BOOLEAN
    BY <1>4 DEF MarkInferenceSettled
  <2>2. \A j \in DOMAIN delivery : Resendable(j)' => Resendable(j)
    BY <2>1 DEF Resendable, OnItsWay
  <2> HIDE DEF Resendable
  <2> QED BY <2>1, <2>2, PaidAlready DEF AttemptsPaid
<1>5. CASE DeliverOpen
  <2> DEFINE r == reporter.run
             fresh == [c \in Chunks |-> Intent(r, c, run[r].chat, 0)]
  <2>1. /\ reporter.pc = "open" /\ UNCHANGED <<events, settled>>
        /\ reporter'.pc \in {"check", "idle"}
        /\ delivery' = delivery \/ (delivery' = delivery \o fresh /\ run[r].enabled)
    BY <1>0, <1>5 DEF DeliverOpen, Rests, Reporter
  <2>2. CASE delivery' = delivery
    BY <2>1, <2>2, ReceiptsPaid DEF AttemptsPaid, OnItsWay
  <2>3. CASE delivery' = delivery \o fresh /\ run[r].enabled
    <3>1. \A c \in 1..NumChunks : fresh[c].attempt = 0 BY DEF Intent, Chunks
    <3>2. fresh \in Seq(Receipt) /\ Len(fresh) = NumChunks
      <4>1. r \in Runs /\ run[r].chat \in Chats
        BY <2>1, <2>3 DEF RInv, ReportTypes
      <4>2. \A c \in Chunks : Intent(r, c, run[r].chat, 0) \in Receipt
        BY <4>1, ReportFacts DEF Intent, Receipt
      <4>3. fresh \in [1..NumChunks -> Receipt] /\ NumChunks \in Nat
        BY <4>2, ReportFacts DEF Chunks
      <4> HIDE DEF fresh
      <4> QED BY <4>3
    <3> HIDE DEF fresh
    <3>3. /\ DOMAIN delivery' = 1..(Len(delivery) + NumChunks)
          /\ \A j \in DOMAIN delivery : delivery'[j] = delivery[j]
          /\ \A j \in DOMAIN delivery' \ DOMAIN delivery :
                \E k \in 1..NumChunks : j = Len(delivery) + k /\ delivery'[j] = fresh[k]
      <4>1. delivery' = delivery \o fresh BY <2>3
      <4>2. /\ DOMAIN delivery' = 1..(Len(delivery) + Len(fresh))
            /\ \A j \in DOMAIN delivery : delivery'[j] = delivery[j]
            /\ \A k \in 1..Len(fresh) : delivery'[Len(delivery) + k] = fresh[k]
            /\ \A j \in DOMAIN delivery' \ DOMAIN delivery :
                  \E k \in 1..Len(fresh) : j = Len(delivery) + k
        BY <3>2, <4>1, ReceiptsAdded
      <4> QED BY <3>2, <4>2
    <3>4. \A j \in DOMAIN delivery' :
             \/ j \in DOMAIN delivery /\ delivery'[j] = delivery[j]
             \/ delivery'[j].attempt = 0
      BY <3>1, <3>3
    <3>5. \A j \in DOMAIN delivery : delivery'[j] = delivery[j] => (Resendable(j)' => Resendable(j))
      BY <2>1 DEF Resendable, OnItsWay
    <3> HIDE DEF Resendable
    <3> QED BY <2>1, <3>4, <3>5, PaidAlready DEF AttemptsPaid
  <2> QED BY <2>1, <2>2, <2>3
<1> QED BY <1>1, <1>2, <1>3, <1>4, <1>5

\* The loop over the chunks: what it takes up next has been paid for, and each
\* dispatch is one attempt.
LEMMA ChunkPaid ==
    ASSUME RInv, RInv', AttemptsPaid, DeliverNext \/ Dispatch
    PROVE  AttemptsPaid'
<1>0. /\ reporter \in Reporter /\ NoWork \in Reporter /\ NoWork.pc = "idle"
      /\ events \in Nat /\ Retries \in Nat
      /\ \A j \in DOMAIN delivery : delivery[j].attempt \in Nat /\ delivery[j] \in Receipt
  BY ReportFacts, AttemptNumbers DEF RInv, ReportTypes, AttemptsPaid
<1>1. CASE DeliverNext
  <2> DEFINE i == FirstOf(reporter.todo)
  <2>1. /\ reporter.pc = "next" /\ UNCHANGED <<events, settled>>
        /\ \A j \in reporter.todo : j \in DOMAIN delivery /\ delivery[j].state # "UnknownDelivery"
    BY <1>1 DEF DeliverNext, RInv, WorkerKnows, Receipts
  <2>2. reporter.todo # {} => i \in DOMAIN delivery /\ delivery[i].state # "UnknownDelivery"
    BY <2>1, FirstOfOK
  <2> HIDE DEF i
  <2>3. CASE UNCHANGED delivery /\ reporter'.pc \in {"next", "idle"}
    BY <2>1, <2>3, ReceiptsPaid DEF AttemptsPaid, OnItsWay
  <2>4. CASE /\ UNCHANGED delivery /\ reporter.todo # {}
             /\ delivery[i].state \notin {"Succeeded", "Skipped", "Reviewed"}
             /\ delivery[i].state = "Failed" => delivery[i].due
             /\ reporter'.pc = "lock" /\ reporter'.item = i
    <3>1. delivery[i].state \in {"Pending", "Sending"} \/ delivery[i].state = "Failed"
      BY <1>0, <2>2, <2>4 DEF Receipt
    <3>2. Resendable(i) BY <2>1, <2>4, <3>1 DEF Resendable, OnItsWay
    <3>3. delivery[i].attempt <= Retries + events BY <2>2, <2>4, <3>2 DEF AttemptsPaid
    <3>4. \A j \in DOMAIN delivery : Resendable(j)' => Resendable(j)
      BY <2>1, <2>4 DEF Resendable, OnItsWay
    <3> HIDE DEF Resendable
    <3> QED BY <2>1, <2>4, <3>3, <3>4, PaidAlready DEF AttemptsPaid
  <2>5. CASE /\ reporter.todo # {} /\ reporter' = NoWork
             /\ delivery' = [delivery EXCEPT ![i].state = "Failed", ![i].due = FALSE]
    <3>1. /\ DOMAIN delivery' = DOMAIN delivery
          /\ \A j \in DOMAIN delivery : j # i => delivery'[j] = delivery[j]
          /\ delivery'[i].attempt = delivery[i].attempt
          /\ delivery'[i].state = "Failed" /\ ~delivery'[i].due
      BY <1>0, <2>2, <2>5 DEF Receipt
    <3>2. \A j \in DOMAIN delivery : Resendable(j)' => Resendable(j)
      BY <2>1, <3>1 DEF Resendable, OnItsWay
    <3> HIDE DEF Resendable
    <3> QED BY <1>0, <2>1, <2>5, <3>1, <3>2, PaidAlready DEF AttemptsPaid
  <2> QED BY <1>0, <1>1, <2>3, <2>4, <2>5 DEF DeliverNext, Rests, Reporter, i
<1>2. CASE Dispatch
  <2> DEFINE i == reporter.item
             n == delivery[i].attempt + 1
  <2>1. /\ reporter.pc = "lock" /\ UNCHANGED <<events, settled>> /\ i \in DOMAIN delivery
        /\ delivery[i].attempt <= Retries + events
    BY <1>2, HasReceipt DEF Dispatch, AttemptsPaid
  <2>2. CASE reporter' = NoWork /\ UNCHANGED delivery
    BY <1>0, <2>1, <2>2, ReceiptsPaid DEF AttemptsPaid, OnItsWay
  <2>3. CASE /\ delivery' = [delivery EXCEPT ![i].state = "Sending", ![i].attempt = @ + 1, ![i].due = FALSE]
             /\ reporter' = [reporter EXCEPT !.pc = "sent"]
    <3>1. reporter'.pc = "sent" /\ reporter'.item = i BY <1>0, <2>3 DEF Reporter
    <3>2. /\ DOMAIN delivery' = DOMAIN delivery
          /\ \A j \in DOMAIN delivery : j # i => delivery'[j] = delivery[j]
          /\ delivery'[i].attempt = delivery[i].attempt + 1 /\ delivery'[i].state = "Sending"
      <4> DEFINE v == [delivery[i] EXCEPT !.state = "Sending", !.attempt = @ + 1, !.due = FALSE]
      <4>1. v.attempt = delivery[i].attempt + 1 /\ v.state = "Sending"
        BY <1>0, <2>1 DEF Receipt
      <4>2. delivery' = [delivery EXCEPT ![i] = v]
        BY <2>3
      <4> HIDE DEF v, i
      <4> QED BY <2>1, <4>1, <4>2
    <3>3. delivery'[i].attempt <= Retries + events + 1
      BY <1>0, <2>1, <3>2
    <3>4. \A j \in DOMAIN delivery : IF j = i THEN ~Resendable(j)' ELSE Resendable(j)' => Resendable(j)
      BY <2>1, <3>1, <3>2 DEF Resendable, OnItsWay
    <3> HIDE DEF Resendable, i
    <3>5. \A j \in DOMAIN delivery :
             /\ delivery'[j].attempt <= Retries + events + 1
             /\ Resendable(j)' => delivery'[j].attempt <= Retries + events
      BY <3>2, <3>3, <3>4 DEF AttemptsPaid
    <3> QED BY <2>1, <3>1, <3>2, <3>5 DEF AttemptsPaid
  <2> QED BY <1>2, <2>2, <2>3 DEF Dispatch, Rests
<1> QED BY <1>1, <1>2

\* Only a receipt within the automatic retries is sent again on its own.
LEMMA AnswerPaid ==
    ASSUME RInv, RInv', AttemptsPaid, NEW outcome \in {"Confirmed", "Unknown", "Permanent", "Retryable"},
           Answered(outcome)
    PROVE  AttemptsPaid'
<1> DEFINE i == reporter.item
<1>1. /\ reporter \in Reporter /\ NoWork.pc = "idle" /\ reporter.pc \in {"sent", "accepted"}
      /\ UNCHANGED <<events, settled>> /\ i \in DOMAIN delivery /\ delivery[i] \in Receipt
      /\ \A j \in DOMAIN delivery : delivery[j] \in Receipt
  BY ReportFacts, HasReceipt DEF RInv, ReportTypes, Answered
<1>2. reporter'.pc \in {"next", "idle"}
  BY <1>1 DEF Answered, Reporter
<1>3. /\ DOMAIN delivery' = DOMAIN delivery
      /\ \A j \in DOMAIN delivery : j # i => delivery'[j] = delivery[j]
      /\ delivery'[i].attempt = delivery[i].attempt
      /\ delivery'[i].state \in {"Succeeded", "UnknownDelivery", "Failed"}
      /\ delivery'[i].due => delivery[i].attempt <= Retries
  <2>1. \A x, y : LET v == [delivery[i] EXCEPT !.state = x, !.due = y]
                  IN v.attempt = delivery[i].attempt /\ v.state = x /\ v.due = y
    BY <1>1 DEF Receipt
  <2> DEFINE x == CASE outcome = "Confirmed" -> "Succeeded"
                    [] outcome = "Unknown" -> "UnknownDelivery"
                    [] OTHER -> "Failed"
             y == outcome = "Retryable" /\ delivery[i].attempt <= Retries
  <2>2. x \in {"Succeeded", "UnknownDelivery", "Failed"} /\ (y => delivery[i].attempt <= Retries)
    OBVIOUS
  <2>3. delivery' = [delivery EXCEPT ![i].state = x, ![i].due = y]
    BY DEF Answered
  <2> DEFINE w == [delivery[i] EXCEPT !.state = x, !.due = y]
  <2>4. delivery' = [delivery EXCEPT ![i] = w]
    BY <1>1, <2>3
  <2> HIDE DEF x, y, i
  <2>5. w.attempt = delivery[i].attempt /\ w.state = x /\ w.due = y
    BY <2>1
  <2> HIDE DEF w
  <2> QED BY <1>1, <2>2, <2>4, <2>5
<1>4. \A j \in DOMAIN delivery : j # i => (Resendable(j)' => Resendable(j))
  BY <1>1, <1>2, <1>3 DEF Resendable, OnItsWay
<1>5. \A j \in DOMAIN delivery : j = i => (Resendable(j)' => delivery[j].attempt <= Retries)
  BY <1>3 DEF Resendable
<1> HIDE DEF Resendable, i
<1> QED BY <1>1, <1>2, <1>3, <1>4, <1>5, PaidAlready DEF AttemptsPaid

\* A retry, whole or not, a resolution, a failing store call and a crash change
\* nobody's attempts.
LEMMA EventsPaid ==
    ASSUME RInv, RInv', AttemptsPaid,
           \/ \E r \in Runs : RetryMemoryReport(r) \/ RetryFails(r) \/ RegenerateMemoryReport(r)
           \/ StoreFault \/ SetMemorySettings \/ Crash
           \/ \E i \in DOMAIN delivery, resend \in BOOLEAN : ResolveTelegramDelivery(i, resend)
    PROVE  AttemptsPaid'
<1> DEFINE Same == \A j \in DOMAIN delivery' :
                      \/ delivery'[j].attempt = 0
                      \/ j \in DOMAIN delivery /\ delivery'[j].attempt = delivery[j].attempt
<1>0. /\ delivery \in Seq(Receipt) /\ Len(delivery) \in Nat /\ DOMAIN delivery = 1..Len(delivery)
      /\ \A j \in DOMAIN delivery : delivery[j] \in Receipt
  BY ReportFacts DEF RInv, ReportTypes
<1>1. Act /\ settled' \in BOOLEAN
  BY DEF RetryMemoryReport, RetryFails, RegenerateMemoryReport, StoreFault, SetMemorySettings, Crash,
         ResolveTelegramDelivery, Trouble, AttemptsPaid
<1>2. CASE StoreFault \/ SetMemorySettings \/ \E r \in Runs : RegenerateMemoryReport(r)
  <2>1. delivery' = delivery
    BY <1>2 DEF StoreFault, SetMemorySettings, RegenerateMemoryReport
  <2> QED BY <1>1, <2>1, PaidByEvent
<1>3. CASE Crash
  <2>1. Same BY <1>0, <1>3 DEF Crash, Receipt
  <2> QED BY <1>1, <2>1, PaidByEvent
<1>4. ASSUME NEW i \in DOMAIN delivery, NEW resend \in BOOLEAN, ResolveTelegramDelivery(i, resend)
      PROVE  AttemptsPaid'
  <2> DEFINE v == [delivery[i] EXCEPT !.state = "Reviewed"]
             moved == [delivery EXCEPT ![i] = v]
             again == Intent(delivery[i].run, delivery[i].chunk, delivery[i].chat, i)
  <2>1. delivery' = moved \o (IF resend THEN <<again>> ELSE <<>>)
    BY <1>4 DEF ResolveTelegramDelivery, SetState
  <2>2. v \in Receipt /\ v.attempt = delivery[i].attempt
    BY <1>0 DEF Receipt
  <2>3. again \in Receipt /\ again.attempt = 0
    <3>1. i \in 0..MaxDeliveries /\ 0 \in Nat
      BY ReportFacts DEF Deliveries
    <3>2. delivery[i].run \in Runs /\ delivery[i].chunk \in Chunks /\ delivery[i].chat \in Chats
      BY ReportFacts DEF Receipt
    <3> QED BY <3>1, <3>2 DEF Intent, Receipt
  <2> HIDE DEF v, again
  <2>4. /\ moved \in Seq(Receipt) /\ Len(moved) = Len(delivery)
        /\ \A j \in DOMAIN delivery : moved[j].attempt = delivery[j].attempt
    BY <1>0, <2>2
  <2> HIDE DEF moved
  <2>5. Same
    <3>1. CASE ~resend
      <4>1. delivery' = moved BY <2>1, <2>4, <3>1
      <4> QED BY <1>0, <2>4, <4>1
    <3>2. CASE resend
      <4>1. delivery' = Append(moved, again) BY <2>1, <2>3, <2>4, <3>2
      <4>2. Len(moved) \in Nat /\ moved \in Seq(Receipt) /\ again \in Receipt
        BY <1>0, <2>3, <2>4
      <4>3. /\ delivery' \in Seq(Receipt) /\ Len(delivery') = Len(moved) + 1
            /\ \A j \in 1..Len(moved) : delivery'[j] = moved[j]
            /\ delivery'[Len(moved) + 1] = again
        BY <4>1, <4>2
      <4>4. DOMAIN delivery' = 1..(Len(moved) + 1)
        BY <4>3
      <4> QED BY <1>0, <2>3, <2>4, <4>2, <4>3, <4>4
    <3> QED BY <3>1, <3>2
  <2> QED BY <1>1, <2>5, PaidByEvent
<1>5. ASSUME NEW r \in Runs, RetryMemoryReport(r) \/ RetryFails(r) PROVE AttemptsPaid'
  <2>1. ASSUME NEW made \in SUBSET Stale(r), NEW reviewed \in SUBSET made
        PROVE  \A j \in DOMAIN Redirected(made, reviewed) :
                  /\ Redirected(made, reviewed)[j] \in Receipt
                  /\ \/ Redirected(made, reviewed)[j].attempt = 0
                     \/ /\ j \in DOMAIN delivery
                        /\ Redirected(made, reviewed)[j].attempt = delivery[j].attempt
    <3> DEFINE list == Redirected(made, reviewed)
    <3>1. \A j \in DOMAIN delivery : [delivery[j] EXCEPT !.state = "Reviewed"].attempt = delivery[j].attempt
      BY <1>0 DEF Receipt
    <3>2. \A i : Intent(r, delivery[i].chunk, telegram.chat, i).attempt = 0
      BY DEF Intent
    <3>3. /\ list \in Seq(Receipt)
          /\ \A j \in DOMAIN delivery :
                list[j] = IF j \in reviewed /\ delivery[j].state # "Succeeded"
                          THEN [delivery[j] EXCEPT !.state = "Reviewed"] ELSE delivery[j]
          /\ \A j \in DOMAIN list \ DOMAIN delivery :
                \E i \in made : list[j] = Intent(r, delivery[i].chunk, telegram.chat, i)
      BY RedirectedIs
    <3> HIDE DEF list
    <3>4. \A j \in DOMAIN list : list[j] \in Receipt BY <3>3
    <3>5. \A j \in DOMAIN list \cap DOMAIN delivery : list[j].attempt = delivery[j].attempt
      BY <3>1, <3>3
    <3>6. \A j \in DOMAIN list \ DOMAIN delivery : list[j].attempt = 0
      BY <3>2, <3>3
    <3> QED BY <3>4, <3>5, <3>6 DEF list
  <2>2. CASE RetryFails(r)
    <3>1. PICK made \in SUBSET Stale(r) : \E reviewed \in {made} \cup {made \ {i} : i \in made} :
             delivery' = Redirected(made, reviewed)
      BY <2>2 DEF RetryFails
    <3>2. PICK reviewed \in SUBSET made : delivery' = Redirected(made, reviewed)
      BY <3>1
    <3>3. Same BY <2>1, <3>2
    <3> QED BY <1>1, <3>3, PaidByEvent
  <2>3. CASE RetryMemoryReport(r)
    <3> DEFINE list == Redirected(Stale(r), Stale(r))
    <3>1. delivery' = [j \in DOMAIN list |->
              IF list[j].run = r /\ list[j].state = "Failed"
              THEN [list[j] EXCEPT !.state = "Pending", !.due = FALSE] ELSE list[j]]
      BY <2>3 DEF RetryMemoryReport
    <3>2. \A j \in DOMAIN list :
             /\ list[j] \in Receipt
             /\ list[j].attempt = 0 \/ (j \in DOMAIN delivery /\ list[j].attempt = delivery[j].attempt)
      <4>1. Stale(r) \in SUBSET Stale(r) OBVIOUS
      <4> QED BY <2>1, <4>1
    <3> HIDE DEF list
    <3>3. \A j \in DOMAIN list :
             [list[j] EXCEPT !.state = "Pending", !.due = FALSE].attempt = list[j].attempt
      BY <3>2 DEF Receipt
    <3>4. DOMAIN delivery' = DOMAIN list /\ \A j \in DOMAIN list : delivery'[j].attempt = list[j].attempt
      BY <3>1, <3>3
    <3>5. Same BY <3>2, <3>4
    <3> QED BY <1>1, <3>5, PaidByEvent
  <2> QED BY <1>5, <2>2, <2>3
<1> QED BY <1>2, <1>3, <1>4, <1>5

\* The worker has a list only while it delivers, and a chunk only while that goes out.
WorkerList ==
    /\ reporter.pc \in {"idle", "generate", "open"} => reporter.todo = {}
    /\ reporter.pc \notin {"lock", "sent", "accepted"} => reporter.item = 0

\* Every step of the worker keeps to that, and a crash clears both.
LEMMA WorkerListOK == RInv /\ WorkerList /\ [ReportNext]_reportVars => WorkerList'
<1> SUFFICES ASSUME RInv, WorkerList, [ReportNext]_reportVars PROVE WorkerList'
  OBVIOUS
<1>0. /\ reporter \in Reporter
      /\ NoWork.pc = "idle" /\ NoWork.todo = {} /\ NoWork.item = 0
  BY DEF RInv, ReportTypes, NoWork
<1>1. CASE reporter' = reporter \/ reporter' = NoWork
  BY <1>0, <1>1 DEF WorkerList
<1>2. ASSUME NEW r \in Runs, Claim(r) \/ Resume(r) PROVE WorkerList'
  BY <1>2 DEF Claim, Resume, NoWork, WorkerList
<1>3. CASE Generate \/ DeliverOpen \/ DeliverCheck
  BY <1>0, <1>1, <1>3 DEF Generate, DeliverOpen, DeliverCheck, Rests, Reporter, WorkerList
<1>4. CASE DeliverNext
  BY <1>0, <1>1, <1>4 DEF DeliverNext, Rests, Reporter, WorkerList
<1>5. CASE Dispatch \/ Accepts
  BY <1>0, <1>1, <1>5 DEF Dispatch, Accepts, Rests, Reporter, WorkerList
<1>6. ASSUME NEW outcome \in {"Confirmed", "Unknown", "Permanent", "Retryable"}, Answered(outcome)
      PROVE  WorkerList'
  BY <1>0, <1>1, <1>6 DEF Answered, Reporter, WorkerList
<1>7. ASSUME \/ StoreFault \/ SetMemorySettings \/ MarkInferenceSettled \/ Crash
             \/ \E r \in Runs : RetryMemoryReport(r) \/ RetryFails(r) \/ RegenerateMemoryReport(r)
             \/ \E i \in DOMAIN delivery, resend \in BOOLEAN : ResolveTelegramDelivery(i, resend)
             \/ UNCHANGED reportVars
      PROVE  WorkerList'
  <2>1. reporter' = reporter \/ reporter' = NoWork
    BY <1>7 DEF StoreFault, SetMemorySettings, MarkInferenceSettled, Crash, RetryMemoryReport,
                RetryFails, RegenerateMemoryReport, ResolveTelegramDelivery, Rests, reportVars
  <2> QED BY <1>1, <2>1
<1> QED BY <1>2, <1>3, <1>4, <1>5, <1>6, <1>7 DEF ReportNext

\* Receipts, runs and the worker's list keep their types; and a message goes out
\* once for its first dispatch, once for each automatic retry (RETRY_DELAYS of
\* memory.rs) and once more only for each time the user or a failing store call
\* asked for it.
THEOREM ReportTypesOK == ReportSpec => []ReportTypeOK
<1>1. ReportInit => AttemptsPaid
  <2> SUFFICES ASSUME ReportInit PROVE AttemptsPaid OBVIOUS
  <2>1. DOMAIN delivery = {} /\ reporter.pc = "idle" /\ events = 0 /\ settled = FALSE
    BY DEF ReportInit, NoWork
  <2>2. 0 \in 0..MaxEvents BY ReportAssumption
  <2>3. \A i \in DOMAIN delivery : FALSE BY <2>1
  <2> QED BY <2>1, <2>2, <2>3 DEF AttemptsPaid
<1>2. RInv /\ RInv' /\ AttemptsPaid /\ [ReportNext]_reportVars => AttemptsPaid'
  <2> SUFFICES ASSUME RInv, RInv', AttemptsPaid, [ReportNext]_reportVars PROVE AttemptsPaid'
    OBVIOUS
  <2>1. CASE UNCHANGED reportVars
    BY <2>1 DEF reportVars, AttemptsPaid, Resendable, OnItsWay
  <2>2. ASSUME NEW outcome \in {"Confirmed", "Unknown", "Permanent", "Retryable"}, Answered(outcome)
        PROVE  AttemptsPaid'
    BY <2>2, AnswerPaid
  <2> QED BY <2>1, <2>2, WorkerPaid, ChunkPaid, EventsPaid DEF ReportNext
<1>3. RInv /\ AttemptsPaid /\ WorkerList => ReportTypeOK
  <2> SUFFICES ASSUME RInv, AttemptsPaid, WorkerList PROVE ReportTypeOK OBVIOUS
  <2>1. /\ Len(delivery) \in Nat /\ DOMAIN delivery = 1..Len(delivery) /\ delivery \in Seq(Receipt)
        /\ Len(delivery) <= MaxDeliveries /\ MaxDeliveries \in Nat
    BY ReportFacts DEF RInv, ReportTypes
  <2>2. \A i \in DOMAIN delivery : delivery[i].attempt \in 0..(Retries + MaxEvents + 1)
    BY AttemptNumbers DEF AttemptsPaid
  <2> DEFINE R == [run : Runs, chunk : Chunks, chat : Chats, of : 0..MaxDeliveries,
                   state : {"Pending", "Sending", "Succeeded", "Failed", "Reviewed", "UnknownDelivery"},
                   attempt : 0..(Retries + MaxEvents + 1), due : BOOLEAN]
  <2>3. \A i \in DOMAIN delivery : delivery[i] \in R
    BY <2>1, <2>2, ReportFacts DEF Receipt
  <2> HIDE DEF R
  <2>4. delivery \in Seq(R)
    BY <2>1, <2>3
  <2>5. reporter.todo \subseteq DOMAIN delivery /\ reporter.item \in 0..Len(delivery)
    <3>1. reporter.pc \in {"check", "next", "lock", "sent", "accepted"} =>
             reporter.todo \subseteq DOMAIN delivery
      BY DEF RInv, WorkerKnows, Receipts
    <3>2. reporter.pc \in {"lock", "sent", "accepted"} => reporter.item \in DOMAIN delivery
      BY DEF RInv, WorkerKnows, Receipts
    <3>3. reporter \in Reporter BY DEF RInv, ReportTypes
    <3> QED BY <2>1, <3>1, <3>2, <3>3 DEF Reporter, WorkerList
  <2> QED BY <2>1, <2>4, <2>5 DEF R, ReportTypeOK, RInv, ReportTypes, AttemptsPaid, Run
<1>4. RInv /\ [ReportNext]_reportVars => RInv'
  BY ReportStep
<1>5. ReportInit => WorkerList
  BY DEF ReportInit, NoWork, WorkerList
<1> QED BY <1>1, <1>2, <1>3, <1>4, <1>5, ReportInitInv, WorkerListOK, PTL DEF ReportSpec

-----------------------------------------------------------------------------
(***************************************************************************)
(* The capture log.  What the complete history says of a time is the last  *)
(* observation made that is stamped no later, so an observation stamped t  *)
(* changes it from t on and nowhere else.  LInv: wherever a kept           *)
(* transition is in force, the history says the same; and a window that    *)
(* is not marked truncated starts no earlier than the first of them.       *)
(***************************************************************************)

\* Truth and EndOf of any history and any list of transitions.
TruthIn(h, t) ==
    LET before == {i \in 1..Len(h) : h[i].at <= t}
    IN h[CHOOSE i \in before : \A j \in before : j <= i].observation
EndIn(S, i) == IF i = Len(S) THEN NoEnd ELSE S[i + 1].at

Follows(S, h) ==
    \A i \in 1..Len(S) : \A t \in LogTimes :
        S[i].at <= t /\ t < EndIn(S, i) => TruthIn(h, t) = S[i].observation
InOrder(S) == \A i, j \in 1..Len(S) : i < j => S[i].at <= S[j].at
HeardBy(S, h) == \A i \in 1..Len(S) : \E j \in 1..Len(h) : h[j].at <= S[i].at

\* From where on an answer can be complete.
ClaimsFrom ==
    /\ transitions = <<>> =>
          unknown # NoGap /\ unknown.until = NoEnd /\ unknown.from <= unavailableBefore
    /\ transitions # <<>> =>
          /\ unavailableBefore <= transitions[1].at
          /\ unknown # NoGap =>
                unknown.from <= unavailableBefore /\ unknown.until <= transitions[1].at
          /\ \/ unavailableBefore = transitions[1].at
             \/ unknown # NoGap /\ unknown.until = transitions[1].at

LInv ==
    /\ LogTypeOK /\ InOrder(transitions) /\ HeardBy(transitions, history)
    /\ Follows(transitions, history) /\ ClaimsFrom

\* Observations are stamped with numbers.
LEMMA StampsAreNumbers ==
    /\ \A t \in LogTimes : t \in Int
    /\ \A e \in Transition : e.at \in LogTimes /\ e.at \in Int
    /\ \A S \in Seq(Transition) : \A i \in 1..Len(S) : S[i] \in Transition /\ S[i].at \in Int
PROOF
<1>1. \A t \in LogTimes : t \in Int BY DEF LogTimes
<1>2. \A e \in Transition : e.at \in LogTimes BY DEF Transition
<1>3. \A S \in Seq(Transition) : \A i \in 1..Len(S) : S[i] \in Transition OBVIOUS
<1> QED BY <1>1, <1>2, <1>3

\* The last observation stamped no later than t is the only greatest one.
LEMMA TruthIsLast ==
    ASSUME NEW h \in Seq(Transition), NEW t \in LogTimes, NEW m \in 1..Len(h), h[m].at <= t,
           \A j \in 1..Len(h) : h[j].at <= t => j <= m
    PROVE  TruthIn(h, t) = h[m].observation
PROOF
<1> DEFINE before == {i \in 1..Len(h) : h[i].at <= t}
<1>1. m \in before /\ \A j \in before : j <= m OBVIOUS
<1>2. before \subseteq Int OBVIOUS
<1>3. \A i \in before : (\A j \in before : j <= i) => i = m BY <1>1, <1>2
<1>4. (CHOOSE i \in before : \A j \in before : j <= i) = m
  <2> HIDE DEF before
  <2> QED BY <1>1, <1>3
<1> QED BY <1>4 DEF TruthIn

\* There is one once anything was observed by then.
LEMMA TruthExists ==
    ASSUME NEW h \in Seq(Transition), NEW t \in LogTimes, \E j \in 1..Len(h) : h[j].at <= t
    PROVE  \E m \in 1..Len(h) : h[m].at <= t /\ \A j \in 1..Len(h) : h[j].at <= t => j <= m
PROOF
<1> DEFINE before == {i \in 1..Len(h) : h[i].at <= t}
           n == Len(h)
<1>1. n \in Nat OBVIOUS
<1>2. before \subseteq 0..n /\ before # {} OBVIOUS
<1>3. before \in SUBSET (0..n) BY <1>2
<1>4. PICK m \in before : \A j \in before : j <= m
  <2> HIDE DEF before, n
  <2> QED BY <1>1, <1>2, <1>3, GreatestNatural
<1> QED BY <1>4

\* An observation stamped e.at is the truth from then on, and only from then on.
LEMMA TruthAfter ==
    ASSUME NEW h \in Seq(Transition), NEW e \in Transition, NEW t \in LogTimes
    PROVE  /\ e.at <= t => TruthIn(Append(h, e), t) = e.observation
           /\ ~(e.at <= t) /\ (\E j \in 1..Len(h) : h[j].at <= t)
                 => TruthIn(Append(h, e), t) = TruthIn(h, t)
PROOF
<1> DEFINE g == Append(h, e)
           n == Len(h)
<1>1. /\ g \in Seq(Transition) /\ Len(g) = n + 1 /\ n \in Nat /\ g[n + 1] = e
      /\ \A i \in 1..n : g[i] = h[i]
  OBVIOUS
<1>2. \A i \in 1..Len(g) : i \in 1..n \/ i = n + 1 BY <1>1
<1>3. n + 1 \in 1..Len(g) /\ 1..n \subseteq 1..Len(g) /\ \A i \in 1..Len(g) : i <= n + 1 BY <1>1
<1> HIDE DEF g, n
<1>4. CASE e.at <= t
  <2>1. g[n + 1].at <= t BY <1>1, <1>4
  <2>2. TruthIn(g, t) = g[n + 1].observation BY <1>1, <1>3, <2>1, TruthIsLast
  <2> QED BY <1>1, <1>4, <2>2 DEF g
<1>5. CASE ~(e.at <= t) /\ \E j \in 1..Len(h) : h[j].at <= t
  <2>1. PICK m \in 1..Len(h) : h[m].at <= t /\ \A j \in 1..Len(h) : h[j].at <= t => j <= m
    BY <1>5, TruthExists
  <2>2. TruthIn(h, t) = h[m].observation BY <2>1, TruthIsLast
  <2>3. m \in 1..Len(g) /\ g[m] = h[m] BY <1>1, <1>3, <2>1 DEF n
  <2>4. ASSUME NEW j \in 1..Len(g), g[j].at <= t PROVE j <= m
    <3>1. j # n + 1 BY <1>1, <1>5, <2>4
    <3>2. j \in 1..Len(h) /\ g[j] = h[j] BY <1>1, <1>2, <3>1 DEF n
    <3> QED BY <2>1, <2>4, <3>2
  <2>5. TruthIn(g, t) = g[m].observation
    <3>1. g[m].at <= t BY <2>1, <2>3
    <3> QED BY <1>1, <2>3, <2>4, <3>1, TruthIsLast
  <2> QED BY <1>5, <2>2, <2>3, <2>5 DEF g
<1> QED BY <1>4, <1>5 DEF g

\* A new condition goes on the list.
LEMMA FollowsAppend ==
    ASSUME LogAssumption, NEW h \in Seq(Transition), NEW S \in Seq(Transition), NEW e \in Transition,
           InOrder(S), HeardBy(S, h), Follows(S, h), S # <<>> => S[Len(S)].at <= e.at
    PROVE  /\ Append(S, e) \in Seq(Transition) /\ InOrder(Append(S, e))
           /\ HeardBy(Append(S, e), Append(h, e)) /\ Follows(Append(S, e), Append(h, e))
PROOF
<1> DEFINE R == Append(S, e)
           g == Append(h, e)
           n == Len(S)
           l == Len(h)
<1>1. /\ R \in Seq(Transition) /\ Len(R) = n + 1 /\ n \in Nat /\ R[n + 1] = e
      /\ \A i \in 1..n : R[i] = S[i]
  OBVIOUS
<1>2. /\ g \in Seq(Transition) /\ Len(g) = l + 1 /\ l \in Nat /\ g[l + 1] = e
      /\ \A i \in 1..l : g[i] = h[i]
  OBVIOUS
<1>3. \A i \in 1..Len(R) : i \in 1..n \/ i = n + 1 BY <1>1
<1>4. \A i \in 1..n : S[i].at <= e.at
  <2> SUFFICES ASSUME NEW i \in 1..n PROVE S[i].at <= e.at OBVIOUS
  <2>1. S # <<>> /\ n \in 1..n BY <1>1
  <2>2. i = n \/ i < n BY <1>1
  <2>3. S[i].at <= S[n].at
    <3>1. S[i].at \in Int /\ S[n].at \in Int BY <2>1, StampsAreNumbers
    <3> QED BY <2>1, <2>2, <3>1 DEF InOrder
  <2>4. S[i].at \in Int /\ S[n].at \in Int /\ e.at \in Int BY <2>1, StampsAreNumbers
  <2> QED BY <2>1, <2>3, <2>4
<1>5. \A i \in 1..n : i + 1 \in 1..Len(R) /\ i \in 1..Len(R) BY <1>1
<1>6. \A i \in 1..n : EndIn(R, i) = IF i = n THEN e.at ELSE S[i + 1].at
  <2> SUFFICES ASSUME NEW i \in 1..n PROVE EndIn(R, i) = IF i = n THEN e.at ELSE S[i + 1].at
    OBVIOUS
  <2>1. i # Len(R) BY <1>1
  <2>2. i # n => i + 1 \in 1..n BY <1>1
  <2> QED BY <1>1, <2>1, <2>2 DEF EndIn
<1>7. \A i \in 1..n : i # n => i + 1 \in 1..n BY <1>1
<1>8. e.at \in Int BY DEF Transition, LogTimes
<1> HIDE DEF R, g, n, l
<1>9. InOrder(R)
  <2> SUFFICES ASSUME NEW i \in 1..Len(R), NEW j \in 1..Len(R), i < j PROVE R[i].at <= R[j].at
    BY DEF InOrder
  <2>1. i \in 1..n BY <1>1, <1>3
  <2>2. CASE j = n + 1 BY <1>1, <1>4, <2>1, <2>2
  <2>3. CASE j \in 1..n BY <1>1, <2>1, <2>3 DEF InOrder, n
  <2> QED BY <1>3, <2>2, <2>3
<1>10. HeardBy(R, g)
  <2> SUFFICES ASSUME NEW i \in 1..Len(R) PROVE \E j \in 1..Len(g) : g[j].at <= R[i].at
    BY DEF HeardBy
  <2>1. CASE i = n + 1
    <3>1. l + 1 \in 1..Len(g) BY <1>2
    <3> QED BY <1>1, <1>2, <1>8, <2>1, <3>1
  <2>2. CASE i \in 1..n
    <3>1. PICK j \in 1..l : h[j].at <= S[i].at BY <2>2 DEF HeardBy, n, l
    <3>2. j \in 1..Len(g) BY <1>2
    <3> QED BY <1>1, <1>2, <2>2, <3>1, <3>2
  <2> QED BY <1>3, <2>1, <2>2
<1>11. Follows(R, g)
  <2> SUFFICES ASSUME NEW i \in 1..Len(R), NEW t \in LogTimes, R[i].at <= t, t < EndIn(R, i)
               PROVE  TruthIn(g, t) = R[i].observation
    BY DEF Follows
  <2>1. CASE i = n + 1 BY <1>1, <2>1, TruthAfter DEF g
  <2>2. CASE i \in 1..n
    <3>1. S[i].at <= t /\ R[i] = S[i] BY <1>1, <2>2
    <3>2. ~(e.at <= t)
      <4>1. t < e.at
        <5>1. CASE i = n BY <1>6, <2>2, <5>1
        <5>2. CASE i # n
          <6>1. t < S[i + 1].at /\ i + 1 \in 1..n BY <1>6, <1>7, <2>2, <5>2
          <6>2. S[i + 1].at \in Int /\ t \in Int BY <6>1, StampsAreNumbers DEF n
          <6> QED BY <1>4, <1>8, <6>1, <6>2
        <5> QED BY <5>1, <5>2
      <4>2. t \in Int BY DEF LogTimes
      <4> QED BY <1>8, <4>1, <4>2
    <3>3. t < EndIn(S, i)
      <4>1. CASE i = n
        <5>1. EndIn(S, i) = NoEnd BY <4>1 DEF EndIn, n
        <5> QED BY <5>1, LogAssumption DEF NoEnd, LogTimes, LogAssumption
      <4>2. CASE i # n BY <1>6, <2>2, <4>2 DEF EndIn, n
      <4> QED BY <4>1, <4>2
    <3>4. TruthIn(h, t) = S[i].observation BY <2>2, <3>1, <3>3 DEF Follows, n
    <3>5. \E j \in 1..Len(h) : h[j].at <= t
      <4>1. PICK j \in 1..Len(h) : h[j].at <= S[i].at BY <2>2 DEF HeardBy, n
      <4>2. h[j].at \in Int /\ S[i].at \in Int /\ t \in Int BY <2>2, StampsAreNumbers DEF n
      <4> QED BY <3>1, <4>1, <4>2
    <3> QED BY <3>1, <3>2, <3>4, <3>5, TruthAfter DEF g
  <2> QED BY <1>3, <2>1, <2>2
<1> QED BY <1>1, <1>9, <1>10, <1>11 DEF R, g

\* The condition in force is observed again.
LEMMA FollowsAgain ==
    ASSUME LogAssumption, NEW h \in Seq(Transition), NEW S \in Seq(Transition), NEW e \in Transition,
           InOrder(S), HeardBy(S, h), Follows(S, h), S # <<>>, S[Len(S)].at <= e.at,
           S[Len(S)].observation = e.observation
    PROVE  HeardBy(S, Append(h, e)) /\ Follows(S, Append(h, e))
PROOF
<1> DEFINE g == Append(h, e)
           n == Len(S)
           l == Len(h)
<1>1. /\ g \in Seq(Transition) /\ Len(g) = l + 1 /\ l \in Nat /\ \A i \in 1..l : g[i] = h[i]
  OBVIOUS
<1>2. n \in Nat /\ n \in 1..n OBVIOUS
<1>3. \A i \in 1..n : i # n => i + 1 \in 1..n /\ (i + 1 < n \/ i + 1 = n) BY <1>2
<1>4. e.at \in Int /\ S[n].at \in Int BY <1>2, StampsAreNumbers
<1> HIDE DEF g, n, l
<1>5. HeardBy(S, g)
  <2> SUFFICES ASSUME NEW i \in 1..Len(S) PROVE \E j \in 1..Len(g) : g[j].at <= S[i].at
    BY DEF HeardBy
  <2>1. PICK j \in 1..l : h[j].at <= S[i].at BY DEF HeardBy, l
  <2>2. j \in 1..Len(g) BY <1>1
  <2> QED BY <1>1, <2>1, <2>2
<1>6. Follows(S, g)
  <2> SUFFICES ASSUME NEW i \in 1..n, NEW t \in LogTimes, S[i].at <= t, t < EndIn(S, i)
               PROVE  TruthIn(g, t) = S[i].observation
    BY DEF Follows, n
  <2>1. TruthIn(h, t) = S[i].observation BY DEF Follows, n
  <2>2. \E j \in 1..Len(h) : h[j].at <= t
    <3>1. PICK j \in 1..Len(h) : h[j].at <= S[i].at BY DEF HeardBy, n
    <3>2. h[j].at \in Int /\ S[i].at \in Int /\ t \in Int BY StampsAreNumbers DEF n
    <3> QED BY <3>1, <3>2
  <2>3. CASE ~(e.at <= t) BY <2>1, <2>2, <2>3, TruthAfter DEF g
  <2>4. CASE e.at <= t
    <3>1. i = n
      <4> SUFFICES ASSUME i # n PROVE FALSE OBVIOUS
      <4>1. t < S[i + 1].at /\ i + 1 \in 1..n BY <1>3 DEF EndIn, n
      <4>2. S[i + 1].at \in Int /\ t \in Int BY <4>1, StampsAreNumbers DEF n
      <4>3. S[i + 1].at <= S[n].at BY <1>2, <1>3, <1>4, <4>1, <4>2 DEF InOrder, n
      <4>4. S[n].at <= e.at BY DEF n
      <4> QED BY <1>4, <2>4, <4>1, <4>2, <4>3, <4>4
    <3> QED BY <2>4, <3>1, TruthAfter DEF g, n
  <2> QED BY <2>3, <2>4
<1> QED BY <1>5, <1>6 DEF g

\* The oldest transition is forgotten.
LEMMA FollowsTail ==
    ASSUME NEW h \in Seq(Transition), NEW S \in Seq(Transition), S # <<>>,
           InOrder(S), HeardBy(S, h), Follows(S, h)
    PROVE  /\ Tail(S) \in Seq(Transition) /\ InOrder(Tail(S)) /\ HeardBy(Tail(S), h)
           /\ Follows(Tail(S), h)
PROOF
<1> DEFINE R == Tail(S)
           n == Len(S)
<1>1. R \in Seq(Transition) /\ Len(R) = n - 1 /\ n \in Nat \ {0} /\ \A i \in 1..n - 1 : R[i] = S[i + 1]
  OBVIOUS
<1>2. \A i \in 1..Len(R) : R[i] = S[i + 1] /\ i + 1 \in 1..n /\ (i = Len(R) <=> i + 1 = n)
  BY <1>1
<1>3. \A i \in 1..Len(R) : i # Len(R) => i + 1 \in 1..Len(R) /\ i + 1 # Len(S)
  <2> DEFINE m == Len(R)
  <2>1. m \in Nat /\ Len(S) = m + 1 BY <1>1
  <2> HIDE DEF m
  <2>2. \A i \in 1..m : i # m => i + 1 \in 1..m /\ i + 1 # m + 1 BY <2>1
  <2> QED BY <2>1, <2>2 DEF m
<1> HIDE DEF R
<1>4. \A i, j \in 1..Len(R) : i < j => i + 1 < j + 1 BY <1>1
<1>5. InOrder(R) BY <1>2, <1>4 DEF InOrder
<1>6. HeardBy(R, h) BY <1>2 DEF HeardBy
<1>7. \A i \in 1..Len(R) : EndIn(R, i) = EndIn(S, i + 1)
  <2> SUFFICES ASSUME NEW i \in 1..Len(R) PROVE EndIn(R, i) = EndIn(S, i + 1) OBVIOUS
  <2>1. CASE i = Len(R) BY <1>2, <2>1 DEF EndIn
  <2>2. CASE i # Len(R)
    <3>1. R[i + 1] = S[(i + 1) + 1] BY <1>2, <1>3, <2>2
    <3> QED BY <1>2, <1>3, <2>2, <3>1 DEF EndIn
  <2> QED BY <2>1, <2>2
<1>8. Follows(R, h) BY <1>2, <1>7 DEF Follows
<1> QED BY <1>1, <1>5, <1>6, <1>8 DEF R

\* Init establishes LInv and every observation and restart keeps it.
LEMMA LogInvariant == LogSpec => []LInv
PROOF
<1>0. LogHorizon \in Nat /\ TransitionCap \in Nat \ {0} /\ LogAssumption BY LogAssumption DEF LogAssumption
<1>1. ASSUME NEW h \in Seq(Transition), NEW t \in LogTimes
      PROVE  LET e == Seen(t, "CaptureStopped")
             IN /\ e \in Transition /\ <<e>> \in Seq(Transition) /\ Append(h, e) \in Seq(Transition)
                /\ InOrder(<<e>>) /\ HeardBy(<<e>>, Append(h, e)) /\ Follows(<<e>>, Append(h, e))
  <2> DEFINE e == Seen(t, "CaptureStopped")
  <2>1. e \in Transition BY DEF Seen, Transition, Observations
  <2>2. <<>> \in Seq(Transition) /\ InOrder(<<>>) /\ HeardBy(<<>>, h) /\ Follows(<<>>, h)
    BY DEF InOrder, HeardBy, Follows
  <2>3. Append(<<>>, e) = <<e>> /\ Append(h, e) \in Seq(Transition) BY <2>1
  <2> HIDE DEF e
  <2>4. /\ Append(<<>>, e) \in Seq(Transition) /\ InOrder(Append(<<>>, e))
        /\ HeardBy(Append(<<>>, e), Append(h, e)) /\ Follows(Append(<<>>, e), Append(h, e))
    BY <1>0, <2>1, <2>2, FollowsAppend
  <2> QED BY <2>1, <2>3, <2>4 DEF e
<1>2. LogInit => LInv
  <2> SUFFICES ASSUME NEW t \in LogTimes, unavailableBefore = t,
                      transitions = <<Seen(t, "CaptureStopped")>>, unknown = NoGap,
                      history = <<Seen(t, "CaptureStopped")>>
               PROVE  LInv
    BY DEF LogInit
  <2> DEFINE e == Seen(t, "CaptureStopped")
  <2>1. <<>> \in Seq(Transition) /\ Append(<<>>, e) = <<e>> OBVIOUS
  <2>2. /\ e \in Transition /\ <<e>> \in Seq(Transition) /\ Append(<<>>, e) \in Seq(Transition)
        /\ InOrder(<<e>>) /\ HeardBy(<<e>>, Append(<<>>, e)) /\ Follows(<<e>>, Append(<<>>, e))
    BY <1>1, <2>1
  <2>3. e.at = t /\ Len(<<e>>) = 1 /\ <<e>>[1] = e /\ t \in Int BY StampsAreNumbers DEF Seen
  <2>4. LogTypeOK BY <1>0, <2>2, <2>3 DEF LogTypeOK
  <2>5. ClaimsFrom BY <2>3 DEF ClaimsFrom
  <2> QED BY <2>1, <2>2, <2>4, <2>5 DEF LInv
<1>3. ASSUME LInv, NEW t \in LogTimes, LogRestart(t) PROVE LInv'
  <2> DEFINE e == Seen(t, "CaptureStopped")
  <2>1. /\ unavailableBefore' = t /\ transitions' = <<e>> /\ unknown' = NoGap
        /\ history' = Append(history, e)
    BY <1>3 DEF LogRestart
  <2>2. history \in Seq(Transition) BY <1>3 DEF LInv, LogTypeOK
  <2>3. /\ e \in Transition /\ <<e>> \in Seq(Transition) /\ Append(history, e) \in Seq(Transition)
        /\ InOrder(<<e>>) /\ HeardBy(<<e>>, Append(history, e)) /\ Follows(<<e>>, Append(history, e))
    BY <1>1, <2>2
  <2>4. e.at = t /\ Len(<<e>>) = 1 /\ <<e>>[1] = e /\ t \in Int BY StampsAreNumbers DEF Seen
  <2>5. LogTypeOK' BY <1>0, <2>1, <2>3, <2>4 DEF LogTypeOK
  <2>6. ClaimsFrom' BY <2>1, <2>4 DEF ClaimsFrom
  <2> HIDE DEF e
  <2>7. InOrder(transitions') /\ HeardBy(transitions', history') /\ Follows(transitions', history')
    BY <2>1, <2>3
  <2> QED BY <2>5, <2>6, <2>7 DEF LInv
<1>4. ASSUME LInv, NEW t \in LogTimes, NEW o \in Observations, Record(t, o) PROVE LInv'
  <2> DEFINE e == Seen(t, o)
             grown == Append(transitions, e)
             n == Len(transitions)
  <2>0. /\ LogTypeOK /\ InOrder(transitions) /\ HeardBy(transitions, history)
        /\ Follows(transitions, history) /\ ClaimsFrom
        /\ transitions \in Seq(Transition) /\ history \in Seq(Transition)
        /\ unavailableBefore \in LogTimes /\ Len(transitions) <= TransitionCap
        /\ unknown = NoGap \/ unknown \in [from : LogTimes, until : LogTimes \cup {NoEnd}]
    BY <1>4 DEF LInv, LogTypeOK
  <2>1. e \in Transition /\ e.at = t /\ e.observation = o /\ t \in Int
    BY StampsAreNumbers DEF Seen, Transition
  <2>2. history' = Append(history, e) /\ history' \in Seq(Transition)
    BY <1>4, <2>0, <2>1 DEF Record
  <2>3. transitions # <<>> => /\ n \in 1..n /\ transitions[n] \in Transition
                              /\ Last(transitions) = transitions[n]
    BY <2>0 DEF Last
  <2>4. Latest \in LogTimes /\ Latest \in Int /\ unavailableBefore \in Int
    BY <2>0, <2>3, StampsAreNumbers DEF Latest
  <2>5. CASE RecordsBackwards(t)
    <3>1. unavailableBefore' \in LogTimes /\ transitions' = <<>>
          /\ unknown' = [from |-> unavailableBefore', until |-> NoEnd]
      BY <2>0, <2>4, <2>5 DEF RecordsBackwards
    <3>2. unknown' # NoGap /\ unknown'.until = NoEnd /\ unknown'.from <= unavailableBefore'
      <4>1. unavailableBefore' \in Int /\ unavailableBefore' # -1 BY <3>1 DEF LogTimes
      <4> QED BY <3>1, <4>1 DEF NoGap
    <3>3. LogTypeOK' BY <1>0, <2>2, <3>1 DEF LogTypeOK
    <3>4. ClaimsFrom' BY <3>1, <3>2 DEF ClaimsFrom
    <3>5. InOrder(transitions') /\ HeardBy(transitions', history') /\ Follows(transitions', history')
      BY <3>1 DEF InOrder, HeardBy, Follows
    <3> QED BY <3>3, <3>4, <3>5 DEF LInv
  <2>6. CASE RecordsAgain(t, o)
    <3>1. /\ UNCHANGED <<unavailableBefore, transitions, unknown>>
          /\ transitions # <<>> /\ transitions[n].observation = e.observation
          /\ transitions[n].at <= e.at
      BY <2>1, <2>3, <2>4, <2>6 DEF RecordsAgain, Latest
    <3>2. HeardBy(transitions, Append(history, e)) /\ Follows(transitions, Append(history, e))
      BY <1>0, <2>0, <2>1, <3>1, FollowsAgain
    <3>3. LogTypeOK' BY <2>0, <2>2, <3>1 DEF LogTypeOK
    <3>4. ClaimsFrom' BY <2>0, <3>1 DEF ClaimsFrom
    <3> HIDE DEF e
    <3>5. InOrder(transitions') /\ HeardBy(transitions', history') /\ Follows(transitions', history')
      BY <2>0, <2>2, <3>1, <3>2
    <3> QED BY <3>3, <3>4, <3>5 DEF LInv
  <2>7. CASE RecordsChange(t, o)
    <3>1. transitions # <<>> => transitions[n].at <= e.at
      BY <2>1, <2>3, <2>4, <2>7 DEF RecordsChange, Latest
    <3>2. /\ grown \in Seq(Transition) /\ InOrder(grown)
          /\ HeardBy(grown, history') /\ Follows(grown, history')
      BY <1>0, <2>0, <2>1, <2>2, <3>1, FollowsAppend
    <3>3. /\ Len(grown) = n + 1 /\ n \in Nat /\ grown[n + 1] = e
          /\ \A i \in 1..n : grown[i] = transitions[i]
          /\ transitions = <<>> <=> n = 0
      BY <2>0, <2>1
    <3>4. unknown' = IF unknown.until = NoEnd THEN [unknown EXCEPT !.until = t] ELSE unknown
      BY <2>7 DEF RecordsChange
    <3>5. \A i \in 1..Len(grown) : grown[i] \in Transition /\ grown[i].at \in Int
      BY <3>2, StampsAreNumbers
    <3>6. unknown' = NoGap \/ unknown' \in [from : LogTimes, until : LogTimes \cup {NoEnd}]
      <4>1. NoGap.until # NoEnd BY <1>0 DEF NoGap, NoEnd
      <4> QED BY <2>0, <3>4, <4>1
    <3>7. transitions # <<>> => unknown' = unknown
      <4> SUFFICES ASSUME transitions # <<>> PROVE unknown.until # NoEnd BY <3>4
      <4>1. 1 \in 1..n /\ transitions[1].at \in LogTimes
        <5>1. 1 \in 1..n BY <3>3
        <5> QED BY <2>0, <5>1, StampsAreNumbers
      <4>2. ~(NoEnd <= transitions[1].at) BY <1>0, <4>1 DEF NoEnd, LogTimes
      <4>3. NoGap.until # NoEnd BY <1>0 DEF NoGap, NoEnd
      <4> QED BY <2>0, <4>2, <4>3 DEF ClaimsFrom
    <3>8. CASE Len(grown) > TransitionCap
      <4>1. transitions' = Tail(grown) /\ unavailableBefore' = grown[2].at
        BY <2>7, <3>8 DEF RecordsChange
      <4>2. n = TransitionCap /\ n \in Nat \ {0} /\ transitions # <<>>
        BY <1>0, <2>0, <3>3, <3>8
      <4>3. 1 \in 1..Len(grown) /\ 2 \in 1..Len(grown) /\ 1 \in 1..n /\ grown # <<>>
        BY <3>3, <4>2
      <4>4. /\ Tail(grown) \in Seq(Transition) /\ InOrder(Tail(grown))
            /\ HeardBy(Tail(grown), history') /\ Follows(Tail(grown), history')
        <5> HIDE DEF grown
        <5> QED BY <2>2, <3>2, <4>3, FollowsTail
      <4>5. Tail(grown)[1] = grown[2] /\ Len(Tail(grown)) = n /\ Tail(grown) # <<>>
        <5> HIDE DEF grown
        <5> QED BY <3>2, <3>3, <4>2, <4>3
      <4>6. grown[1] = transitions[1] /\ grown[1].at <= grown[2].at
            /\ grown[1].at \in Int /\ grown[2].at \in Int /\ grown[2].at \in LogTimes
        BY <3>2, <3>3, <3>5, <4>3, StampsAreNumbers DEF InOrder
      <4>7. LogTypeOK' BY <1>0, <2>2, <3>6, <4>1, <4>2, <4>4, <4>5, <4>6 DEF LogTypeOK
      <4>8. ClaimsFrom'
        <5>1. transitions'[1].at = grown[2].at /\ transitions' # <<>> BY <4>1, <4>5
        <5>2. unknown # NoGap => unknown.from \in Int /\ unknown.until \in Int
          BY <1>0, <2>0, StampsAreNumbers DEF NoEnd
        <5>3. unknown # NoGap => unknown.from <= grown[2].at /\ unknown.until <= grown[2].at
          BY <2>0, <2>4, <4>2, <4>6, <5>2 DEF ClaimsFrom
        <5> HIDE DEF grown
        <5> QED BY <3>7, <4>1, <4>2, <4>6, <5>1, <5>3 DEF ClaimsFrom
      <4> HIDE DEF grown
      <4> QED BY <4>1, <4>4, <4>7, <4>8 DEF LInv
    <3>9. CASE ~(Len(grown) > TransitionCap)
      <4>1. transitions' = grown /\ unavailableBefore' = unavailableBefore
        BY <2>7, <3>9 DEF RecordsChange
      <4>2. LogTypeOK'
        <5>1. Len(transitions') <= TransitionCap BY <1>0, <3>3, <3>9, <4>1
        <5> HIDE DEF grown
        <5> QED BY <2>0, <2>2, <3>2, <3>6, <4>1, <5>1 DEF LogTypeOK
      <4>3. ClaimsFrom'
        <5>1. transitions' # <<>> BY <3>3, <4>1
        <5>2. CASE transitions = <<>>
          <6>1. transitions'[1] = e BY <3>3, <4>1, <5>2
          <6>2. unavailableBefore <= t BY <2>4, <2>7, <5>2 DEF RecordsChange, Latest
          <6>3. /\ unknown # NoGap /\ unknown.until = NoEnd /\ unknown.from <= unavailableBefore
                /\ unknown \in [from : LogTimes, until : LogTimes \cup {NoEnd}]
            BY <2>0, <5>2 DEF ClaimsFrom
          <6>4. unknown'.from = unknown.from /\ unknown'.until = t BY <3>4, <6>3
          <6>5. unknown' # NoGap
            <7>1. t # -1 BY DEF LogTimes
            <7> QED BY <6>4, <7>1 DEF NoGap
          <6> HIDE DEF grown
          <6> QED BY <2>1, <4>1, <5>1, <6>1, <6>2, <6>3, <6>4, <6>5 DEF ClaimsFrom
        <5>3. CASE transitions # <<>>
          <6>1. transitions'[1] = transitions[1]
            <7>1. 1 \in 1..n BY <3>3, <5>3
            <7> QED BY <3>3, <4>1, <7>1
          <6> HIDE DEF grown
          <6> QED BY <2>0, <3>7, <4>1, <5>1, <5>3, <6>1 DEF ClaimsFrom
        <5> QED BY <5>2, <5>3
      <4> HIDE DEF grown
      <4> QED BY <3>2, <4>1, <4>2, <4>3 DEF LInv
    <3> QED BY <3>8, <3>9
  <2> QED BY <1>4, <2>5, <2>6, <2>7 DEF Record
<1>5. LInv /\ [LogNext]_logVars => LInv'
  <2> SUFFICES ASSUME LInv, [LogNext]_logVars PROVE LInv' OBVIOUS
  <2>1. CASE UNCHANGED logVars
    <3>1. UNCHANGED <<unavailableBefore, transitions, unknown, history>> BY <2>1 DEF logVars
    <3>2. InOrder(transitions') /\ HeardBy(transitions', history') /\ Follows(transitions', history')
      BY <3>1 DEF LInv
    <3>3. LogTypeOK' /\ ClaimsFrom' BY <3>1 DEF LInv, LogTypeOK, ClaimsFrom
    <3> QED BY <3>2, <3>3 DEF LInv
  <2> QED BY <1>3, <1>4, <2>1 DEF LogNext
<1> QED BY <1>2, <1>5, PTL DEF LogSpec

\* The transition in force at a time: there is one, and only one, from the first
\* kept transition on.
LEMMA InForce ==
    ASSUME LogAssumption, NEW S \in Seq(Transition), InOrder(S), S # <<>>, NEW t \in LogTimes,
           S[1].at <= t
    PROVE  \E i \in 1..Len(S) :
              /\ S[i].at <= t /\ t < EndIn(S, i)
              /\ \A j \in 1..Len(S) : S[j].at <= t /\ t < EndIn(S, j) => j = i
PROOF
<1> DEFINE n == Len(S)
           begun == {i \in 1..n : S[i].at <= t}
<1>1. n \in Nat \ {0} /\ 1 \in 1..n OBVIOUS
<1>2. begun \in SUBSET (0..n) /\ begun # {} BY <1>1
<1>3. PICK i \in begun : \A j \in begun : j <= i
  <2> HIDE DEF begun, n
  <2> QED BY <1>1, <1>2, GreatestNatural
<1>4. \A j \in 1..n : S[j].at \in Int /\ t \in Int BY StampsAreNumbers
<1>5. t < NoEnd BY LogAssumption DEF NoEnd, LogTimes, LogAssumption
<1>6. t < EndIn(S, i)
  <2>1. CASE i = n BY <1>5, <2>1 DEF EndIn
  <2>2. CASE i # n
    <3>1. i + 1 \in 1..n /\ ~(i + 1 <= i) BY <1>1, <1>3, <2>2
    <3>2. ~(S[i + 1].at <= t) BY <1>3, <3>1
    <3> QED BY <1>4, <2>2, <3>1, <3>2 DEF EndIn
  <2> QED BY <2>1, <2>2
<1>7. ASSUME NEW j \in 1..n, S[j].at <= t, t < EndIn(S, j) PROVE j = i
  <2>1. j <= i /\ i \in 1..n BY <1>3, <1>7
  <2>2. ASSUME j < i PROVE FALSE
    <3>1. j # n /\ j + 1 \in 1..n /\ (j + 1 < i \/ j + 1 = i) BY <1>1, <2>1, <2>2
    <3>2. EndIn(S, j) = S[j + 1].at BY <3>1 DEF EndIn
    <3>3. S[j + 1].at <= S[i].at
      <4>1. S[i].at \in Int BY <1>4, <2>1
      <4> QED BY <2>1, <3>1, <4>1 DEF InOrder
    <3>4. S[i].at <= t BY <1>3
    <3> QED BY <1>4, <1>7, <2>1, <3>1, <3>2, <3>3, <3>4
  <2> QED BY <2>1, <2>2
<1> QED BY <1>3, <1>6, <1>7

\* A window whose answer is not marked truncated is answered truthfully at
\* every instant, whatever the caps, the clock and the restarts did
\* (CaptureObservationBuffer::record and snapshot, capture_observations.rs).
THEOREM AnswersAreTruthful == LogSpec => []LogTruthful
PROOF
<1>0. LogHorizon \in Nat /\ IntervalCap \in Nat /\ LogAssumption BY LogAssumption DEF LogAssumption
<1>1. LInv => LogTruthful
  <2> SUFFICES ASSUME LInv, NEW from \in LogTimes, NEW to \in (from + 1)..NoEnd,
                      ~Truncated(from, to), NEW t \in from..(to - 1)
               PROVE  Claimed(t, from, to) = Truth(t)
    BY DEF LogTruthful
  <2>1. /\ InOrder(transitions) /\ Follows(transitions, history) /\ ClaimsFrom
        /\ transitions \in Seq(Transition)
        /\ unknown = NoGap \/ unknown \in [from : LogTimes, until : LogTimes \cup {NoEnd}]
        /\ unavailableBefore \in LogTimes
    BY DEF LInv, LogTypeOK
  <2>2. from \in Int /\ to \in Int /\ t \in Int /\ from <= t /\ t < to /\ from < to /\ t \in LogTimes
        /\ from < NoEnd /\ NoEnd \in Int
    BY <1>0 DEF LogTimes, NoEnd
  <2>3. ~(from < unavailableBefore) /\ unavailableBefore \in Int
    BY <2>1, StampsAreNumbers DEF Truncated
  <2>4. unknown # NoGap => /\ ~(from < unknown.until /\ unknown.from < to)
                           /\ unknown.from \in Int /\ unknown.until \in Int
    BY <2>1, <2>2, StampsAreNumbers DEF Truncated
  <2>5. transitions # <<>>
    BY <2>1, <2>2, <2>3, <2>4 DEF ClaimsFrom
  <2>6. 1 \in 1..Len(transitions) BY <2>1, <2>5
  <2>7. transitions[1].at <= t
    <3>1. transitions[1].at \in Int BY <2>1, <2>6, StampsAreNumbers
    <3>2. transitions[1].at <= from
      <4>1. CASE unavailableBefore = transitions[1].at BY <2>2, <2>3, <3>1, <4>1
      <4>2. CASE unknown # NoGap /\ unknown.until = transitions[1].at
        <5>1. unknown.from <= unavailableBefore BY <2>1, <2>5, <4>2 DEF ClaimsFrom
        <5> QED BY <2>2, <2>3, <2>4, <3>1, <4>2, <5>1
      <4> QED BY <2>1, <2>5, <4>1, <4>2 DEF ClaimsFrom
    <3> QED BY <2>2, <3>1, <3>2
  <2>8. PICK i \in 1..Len(transitions) :
           /\ transitions[i].at <= t /\ t < EndIn(transitions, i)
           /\ \A j \in 1..Len(transitions) :
                 transitions[j].at <= t /\ t < EndIn(transitions, j) => j = i
    BY <1>0, <2>1, <2>2, <2>5, <2>7, InForce
  <2>9. Truth(t) = transitions[i].observation
    <3>1. TruthIn(history, t) = transitions[i].observation BY <2>1, <2>2, <2>8 DEF Follows
    <3> QED BY <3>1 DEF Truth, TruthIn
  <2>10. \A j \in 1..Len(transitions) : EndOf(j) = EndIn(transitions, j) BY DEF EndOf, EndIn
  <2> DEFINE covering == {j \in Reported(from, to) : transitions[j].at <= t /\ t < EndOf(j)}
  <2>11. covering \subseteq {i} BY <2>8, <2>10 DEF Reported, Meeting
  <2>12. transitions[i] \in Transition /\ transitions[i].at \in Int
    BY <2>1, StampsAreNumbers
  <2>13. CASE ~Interrupted(transitions[i].observation)
    <3>1. transitions[i].observation = "Started"
      BY <2>12, <2>13 DEF Transition, Observations, Interrupted
    <3>2. i \notin Reported(from, to) BY <2>13 DEF Reported, Meeting, Meets
    <3>3. covering = {} BY <2>11, <3>2
    <3> QED BY <2>9, <3>1, <3>3 DEF Claimed
  <2>14. CASE Interrupted(transitions[i].observation)
    <3>1. i \in Meeting(from, to)
      <4>1. i < Len(transitions) => EndOf(i) \in Int
        <5> SUFFICES ASSUME i < Len(transitions) PROVE EndOf(i) \in Int OBVIOUS
        <5>1. i + 1 \in 1..Len(transitions) /\ i # Len(transitions) BY <2>1
        <5> QED BY <2>1, <5>1, StampsAreNumbers DEF EndOf
      <4>2. transitions[i].at < to BY <2>2, <2>8, <2>12
      <4>3. i < Len(transitions) => EndOf(i) > from /\ EndOf(i) > transitions[i].at
        BY <2>2, <2>8, <2>10, <2>12, <4>1
      <4> QED BY <2>14, <4>2, <4>3 DEF Meeting, Meets
    <3>2. i \in Reported(from, to)
      <4> DEFINE M == Meeting(from, to)
                 earlier == {j \in M : j < i}
      <4>1. M \subseteq 1..Len(transitions) /\ Len(transitions) \in Nat BY <2>1 DEF Meeting
      <4>2. IsFiniteSet(M)
        <5>1. IsFiniteSet(1..Len(transitions)) BY <4>1, FS_Interval
        <5> QED BY <4>1, <5>1, FS_Subset
      <4>3. ~(Cardinality(M) > IntervalCap) BY DEF Truncated
      <4>4. earlier \subseteq M /\ i \in M /\ i \notin earlier BY <3>1, <4>1
      <4>5. IsFiniteSet(earlier) /\ Cardinality(earlier) \in Nat /\ Cardinality(M) \in Nat
        BY <4>2, <4>4, FS_Subset, FS_CardinalityType
      <4>6. Cardinality(earlier) < Cardinality(M)
        <5> HIDE DEF M, earlier
        <5>1. IsFiniteSet(M \ {i}) /\ Cardinality(M \ {i}) = Cardinality(M) - 1
              /\ Cardinality(M \ {i}) \in Nat
          BY <4>2, <4>4, FS_RemoveElement, FS_CardinalityType
        <5>2. earlier \subseteq M \ {i} BY <4>4
        <5>3. Cardinality(earlier) <= Cardinality(M \ {i}) BY <5>1, <5>2, FS_Subset
        <5> QED BY <4>5, <5>1, <5>3
      <4>7. Cardinality(earlier) < IntervalCap BY <1>0, <4>3, <4>5, <4>6
      <4> QED BY <3>1, <4>7 DEF Reported
    <3>3. covering = {i} BY <2>8, <2>10, <2>11, <3>2
    <3>4. (CHOOSE j \in covering : TRUE) = i BY <3>3
    <3> QED BY <2>9, <3>3, <3>4 DEF Claimed
  <2> QED BY <2>13, <2>14
<1> QED BY <1>1, LogInvariant, PTL

-----------------------------------------------------------------------------
(* Paging.  A listing exists because the rank of a row among the others is a  *)
(* bijection; the rest follows a walk: its items lie before its cursor in the *)
(* order of the listing, and what it still owes lies behind.                  *)

Feeds == {"frames", "reports", "export"}
Comparable(S) == \A p, q \in S : p # q => Precedes(p, q) \/ Precedes(q, p)

\* A position is a timestamp and an id, both positive; before the first page the
\* cursor is none.
LEMMA PositionParts ==
    /\ \A p \in Position : p[1] \in Times /\ p[2] \in RowIds /\ p = <<p[1], p[2]>>
    /\ \A t \in Times : t \in Nat \ {0}
    /\ \A i \in RowIds : i \in Nat \ {0}
    /\ Nowhere \notin Position /\ Nowhere[1] = 0 /\ Nowhere[2] = 0
<1>1. /\ \A t \in Times : t \in Nat \ {0}
      /\ \A i \in RowIds : i \in Nat \ {0}
  BY PagesAssumption DEF Times, RowIds
<1>2. \A p \in Position : p[1] \in Times /\ p[2] \in RowIds /\ p = <<p[1], p[2]>>
  BY DEF Position
<1> QED BY <1>1, <1>2 DEF Nowhere

\* The order of the queries is one.
LEMMA PrecedesIsAnOrder ==
    /\ \A p \in Position : ~Precedes(p, p)
    /\ \A p, q, r \in Position : Precedes(p, q) /\ Precedes(q, r) => Precedes(p, r)
<1> SUFFICES ASSUME NEW p \in Position, NEW q \in Position, NEW r \in Position
             PROVE  ~Precedes(p, p) /\ (Precedes(p, q) /\ Precedes(q, r) => Precedes(p, r))
  OBVIOUS
<1>1. \A x \in {p, q, r} : x[1] \in Int /\ x[2] \in Int
  BY PositionParts
<1> QED BY <1>1 DEF Precedes, Below

PositionsBefore(S, x) == {y \in S : Precedes(y, x)}
Rank(S, x) == Cardinality(PositionsBefore(S, x)) + 1

\* The rank of a position grows along that order,
LEMMA RankOrders ==
    ASSUME NEW S \in SUBSET Position, IsFiniteSet(S), NEW x \in S, NEW y \in S, Precedes(x, y)
    PROVE  Rank(S, x) < Rank(S, y)
<1>1. PositionsBefore(S, x) \in SUBSET PositionsBefore(S, y) /\ x \in PositionsBefore(S, y) /\ x \notin PositionsBefore(S, x)
  BY PrecedesIsAnOrder DEF PositionsBefore
<1>2. PositionsBefore(S, y) \in SUBSET S /\ PositionsBefore(S, x) \in SUBSET S
  BY DEF PositionsBefore
<1>3. IsFiniteSet(PositionsBefore(S, y)) /\ IsFiniteSet(PositionsBefore(S, x))
  BY <1>2, FS_Subset
<1>4. Cardinality(PositionsBefore(S, x)) <= Cardinality(PositionsBefore(S, y))
  BY <1>1, <1>3, FS_Subset
<1>5. Cardinality(PositionsBefore(S, x)) # Cardinality(PositionsBefore(S, y))
  BY <1>1, <1>3, FS_Subset
<1>6. Cardinality(PositionsBefore(S, x)) \in Nat /\ Cardinality(PositionsBefore(S, y)) \in Nat
  BY <1>3, FS_CardinalityType
<1> QED BY <1>4, <1>5, <1>6 DEF Rank

\* and is a number up to the size of the set.
LEMMA RankInRange ==
    ASSUME NEW S \in SUBSET Position, IsFiniteSet(S), NEW x \in S
    PROVE  Rank(S, x) \in 1..Cardinality(S)
<1>1. PositionsBefore(S, x) \in SUBSET (S \ {x})
  BY PrecedesIsAnOrder DEF PositionsBefore
<1>2. IsFiniteSet(S \ {x}) /\ Cardinality(S \ {x}) = Cardinality(S) - 1
  BY FS_RemoveElement
<1>3. Cardinality(PositionsBefore(S, x)) <= Cardinality(S) - 1 /\ IsFiniteSet(PositionsBefore(S, x))
  BY <1>1, <1>2, FS_Subset
<1>4. Cardinality(PositionsBefore(S, x)) \in Nat /\ Cardinality(S) \in Nat
  BY <1>3, FS_CardinalityType
<1> QED BY <1>3, <1>4 DEF Rank

\* A finite set of comparable positions has a listing, and it has them all.
LEMMA ListingIsSorted ==
    ASSUME NEW S \in SUBSET Position, IsFiniteSet(S), Comparable(S)
    PROVE  /\ Cardinality(S) \in Nat
           /\ Listing(S) \in [1..Cardinality(S) -> S]
           /\ \A i, j \in 1..Cardinality(S) : i < j => Precedes(Listing(S)[i], Listing(S)[j])
           /\ \A p \in S : \E i \in 1..Cardinality(S) : Listing(S)[i] = p
<1> DEFINE n == Cardinality(S)
<1>0. n \in Nat /\ IsFiniteSet(1..n) /\ Cardinality(1..n) = n
  <2>1. n \in Nat
    BY FS_CardinalityType
  <2> QED BY <2>1, FS_Interval
<1>1. \E s \in [1..n -> S] : \A i, j \in 1..n : i < j => Precedes(s[i], s[j])
  <2> DEFINE rank == [x \in S |-> Rank(S, x)]
  <2>1. rank \in [S -> 1..n]
    BY RankInRange
  <2>2. ASSUME NEW x \in S, NEW y \in S, x # y PROVE rank[x] # rank[y]
    <3>1. Rank(S, x) \in Int /\ Rank(S, y) \in Int
      BY RankInRange, <1>0
    <3>2. Precedes(x, y) \/ Precedes(y, x)
      BY <2>2 DEF Comparable
    <3> QED BY <3>1, <3>2, RankOrders
  <2>3. rank \in Injection(S, 1..n)
    BY <2>1, <2>2 DEF Injection, IsInjective
  <2>4. rank \in Surjection(S, 1..n)
    BY <1>0, <2>3, FS_Injection
  <2>5. \A k \in 1..n : \E x \in S : rank[x] = k
    BY <2>4 DEF Surjection
  <2> DEFINE s == [k \in 1..n |-> CHOOSE x \in S : rank[x] = k]
  <2>6. \A k \in 1..n : s[k] \in S /\ Rank(S, s[k]) = k
    BY <2>5
  <2>7. ASSUME NEW i \in 1..n, NEW j \in 1..n, i < j PROVE Precedes(s[i], s[j])
    <3> HIDE DEF s
    <3>1. s[i] \in S /\ s[j] \in S /\ Rank(S, s[i]) = i /\ Rank(S, s[j]) = j /\ i \in Int /\ j \in Int
      BY <2>6
    <3>2. s[i] # s[j]
      BY <2>7, <3>1
    <3>3. ~Precedes(s[j], s[i])
      BY <2>7, <3>1, RankOrders
    <3> QED BY <3>1, <3>2, <3>3 DEF Comparable
  <2>8. s \in [1..n -> S]
    BY <2>6
  <2> QED BY <2>7, <2>8
<1>2. /\ Listing(S) \in [1..n -> S]
      /\ \A i, j \in 1..n : i < j => Precedes(Listing(S)[i], Listing(S)[j])
  BY <1>1 DEF Listing
<1>3. Listing(S) \in Injection(1..n, S)
  <2> DEFINE s == Listing(S)
  <2> HIDE DEF s
  <2>1. ASSUME NEW i \in 1..n, NEW j \in 1..n, s[i] = s[j] PROVE i = j
    <3>1. s[i] \in Position /\ ~Precedes(s[i], s[i])
      BY <1>2, PrecedesIsAnOrder DEF s
    <3>2. ~(i < j) /\ ~(j < i)
      BY <1>2, <2>1, <3>1 DEF s
    <3> QED BY <1>0, <3>2
  <2>2. s \in [1..n -> S]
    BY <1>2 DEF s
  <2>3. s \in Injection(1..n, S)
    BY <2>1, <2>2 DEF Injection, IsInjective
  <2> QED BY <2>3 DEF s
<1>4. Listing(S) \in Surjection(1..n, S)
  BY <1>0, <1>3, FS_Injection
<1>5. \A p \in S : \E i \in 1..n : Listing(S)[i] = p
  BY <1>4 DEF Surjection
<1> QED BY <1>0, <1>2, <1>5

WalkRecord ==
    [state : {"idle", "open", "ended", "refused"}, from : Nat, to : Nat,
     history : 0..MaxHistories, top : Nat \X Nat, after : Position \cup {Nowhere},
     items : Seq(Position)]

InListingOrder(s) == \A i, j \in 1..Len(s) : i < j => Precedes(s[i], s[j])
Has(s, p) == \E i \in 1..Len(s) : s[i] = p
PageRows(w) == {At(i) : i \in Remaining(w)}

TableOK ==
    /\ feed \in Feeds
    /\ DOMAIN rows \subseteq RowIds
    /\ \A i \in DOMAIN rows : rows[i] \in [at : Times, matches : BOOLEAN]

\* Two rows have two positions, one before the other.
LEMMA RowPositions ==
    ASSUME TableOK
    PROVE  /\ \A i \in DOMAIN rows : At(i) \in Position /\ At(i)[1] = rows[i].at /\ At(i)[2] = i
           /\ \A i, j \in DOMAIN rows : i # j => Precedes(At(i), At(j)) \/ Precedes(At(j), At(i))
<1>1. \A i \in DOMAIN rows : At(i) \in Position /\ At(i)[1] = rows[i].at /\ At(i)[2] = i
  BY DEF TableOK, At, Position
<1>2. ASSUME NEW i \in DOMAIN rows, NEW j \in DOMAIN rows, i # j
      PROVE  Precedes(At(i), At(j)) \/ Precedes(At(j), At(i))
  <2>1. /\ At(i)[1] \in Nat /\ At(j)[1] \in Nat /\ At(i)[2] = i /\ At(j)[2] = j
        /\ i \in Nat /\ j \in Nat
    BY <1>1, PositionParts DEF TableOK
  <2>2. feed \in {"frames", "reports", "export"}
    BY DEF TableOK, Feeds
  <2> QED BY <1>2, <2>1, <2>2 DEF Precedes, Below
<1> QED BY <1>1, <1>2

\* What a page shows lies behind the cursor.
LEMMA PageRowsAreAhead ==
    ASSUME TableOK, NEW w \in WalkRecord, w.after # Nowhere, NEW i \in Remaining(w)
    PROVE  Precedes(w.after, At(i))
<1>1. i \in DOMAIN rows /\ i \in Seek(w) /\ w.after \in Position
  BY DEF Remaining, Seek, WalkRecord
<1>2. At(i)[1] \in Nat /\ At(i)[2] \in Nat /\ w.after[1] \in Nat /\ w.after[2] \in Nat
  BY <1>1, RowPositions, PositionParts
<1> QED BY <1>1, <1>2 DEF Seek, Precedes, Below

\* What a page is cut from is a finite set of positions.
LEMMA PageRowsOK ==
    ASSUME TableOK, NEW w
    PROVE  /\ PageRows(w) \in SUBSET Position /\ IsFiniteSet(PageRows(w)) /\ Comparable(PageRows(w))
           /\ Remaining(w) \subseteq DOMAIN rows
<1>1. Remaining(w) \subseteq DOMAIN rows
  BY DEF Remaining, Seek
<1>2. PageRows(w) \in SUBSET Position /\ Comparable(PageRows(w))
  BY <1>1, RowPositions DEF PageRows, Comparable
<1>3. IsFiniteSet(Remaining(w))
  <2>1. IsFiniteSet(RowIds)
    BY PagesAssumption, FS_Interval DEF RowIds
  <2>2. Remaining(w) \in SUBSET RowIds
    BY <1>1 DEF TableOK
  <2> QED BY <2>1, <2>2, FS_Subset
<1>4. IsFiniteSet(PageRows(w))
  <2> DEFINE f == [i \in Remaining(w) |-> At(i)]
  <2>1. f \in Surjection(Remaining(w), PageRows(w))
    BY DEF PageRows, Surjection
  <2> QED BY <1>3, <2>1, FS_Surjection
<1> QED BY <1>1, <1>2, <1>4

\* A page: the first rows of the listing, all of them or with the last as cursor.
LEMMA PageIsAPrefix ==
    ASSUME TableOK, NEW w \in WalkRecord, NEW limit \in Nat \ {0}
    PROVE  \E page \in Seq(PageRows(w)) :
              /\ PageOf(w, limit).items = w.items \o page
              /\ InListingOrder(page)
              /\ \A x \in {"from", "to", "history", "top"} : PageOf(w, limit)[x] = w[x]
              /\ \/ /\ PageOf(w, limit).state = "open" /\ Len(page) > 0
                    /\ PageOf(w, limit).after = page[Len(page)]
                    /\ \A p \in PageRows(w) : Has(page, p) \/ Precedes(page[Len(page)], p)
                 \/ /\ PageOf(w, limit).state = "ended" /\ PageOf(w, limit).after = w.after
                    /\ \A p \in PageRows(w) : Has(page, p)
              /\ PageOf(w, limit) \in WalkRecord
<1> DEFINE S == PageRows(w)
           n == Cardinality(S)
           all == Listing(S)
           k == IF n < limit THEN n ELSE limit
           page == SubSeq(all, 1, k)
<1>1. /\ n \in Nat /\ all \in [1..n -> S]
      /\ \A i, j \in 1..n : i < j => Precedes(all[i], all[j])
      /\ \A p \in S : \E i \in 1..n : all[i] = p
  BY PageRowsOK, ListingIsSorted
<1>2. S \subseteq Position
  BY PageRowsOK
<1> DEFINE items == SubSeq(all, 1, IF Len(all) < limit THEN Len(all) ELSE limit)
           more == Len(all) > Len(items)
<1>3. PageOf(w, limit) = [w EXCEPT !.items = w.items \o items,
                                   !.after = IF more THEN items[Len(items)] ELSE w.after,
                                   !.state = IF more THEN "open" ELSE "ended"]
  BY DEF PageOf, PageRows
<1> HIDE DEF S, n, all
<1>4. Len(all) = n /\ all \in Seq(S)
  BY <1>1
<1>5. k \in 0..n /\ k <= limit /\ (k < n => k = limit)
  BY <1>1
<1>6. page \in Seq(S) /\ Len(page) = k /\ \A i \in 1..k : page[i] = all[i]
  BY <1>1, <1>4, <1>5
<1>7. items = page /\ (more <=> k < n)
  BY <1>4, <1>5, <1>6
<1> HIDE DEF k, page, items, more
<1>8. InListingOrder(page)
  BY <1>1, <1>5, <1>6 DEF InListingOrder
<1>9. \A p \in S : Has(page, p) \/ (k < n /\ (k > 0 => Precedes(page[k], p)))
  <2> SUFFICES ASSUME NEW p \in S, ~Has(page, p) PROVE k < n /\ (k > 0 => Precedes(page[k], p))
    OBVIOUS
  <2>1. PICK i \in 1..n : all[i] = p
    BY <1>1
  <2>2. ~(i \in 1..k)
    BY <1>6, <2>1 DEF Has
  <2>3. k < n /\ k < i /\ k \in Nat /\ i \in Nat
    BY <1>1, <1>5, <2>2
  <2>4. k > 0 => page[k] = all[k] /\ k \in 1..n
    BY <1>5, <1>6, <2>3
  <2> QED BY <1>1, <2>1, <2>3, <2>4
<1> DEFINE new == PageOf(w, limit)
<1>10. /\ new.items = w.items \o page
       /\ new.after = IF k < n THEN page[k] ELSE w.after
       /\ new.state = IF k < n THEN "open" ELSE "ended"
       /\ \A x \in {"from", "to", "history", "top"} : new[x] = w[x]
  BY <1>3, <1>6, <1>7 DEF WalkRecord
<1>11. page \in Seq(Position) /\ w.items \o page \in Seq(Position)
  <2>1. page \in Seq(Position)
    BY <1>2, <1>6
  <2> QED BY <2>1 DEF WalkRecord
<1>12. k < n => k > 0 /\ page[k] \in Position
  BY <1>1, <1>2, <1>5, <1>6
<1>13. new \in WalkRecord
  BY <1>3, <1>6, <1>7, <1>11, <1>12 DEF WalkRecord
<1> HIDE DEF new
<1> QED BY <1>5, <1>6, <1>8, <1>9, <1>10, <1>12, <1>13 DEF S, new

\* The items of a walk lie before its cursor.
Behind(s, p) == \A i \in 1..Len(s) : s[i] = p \/ Precedes(s[i], p)
CursorOK(w) ==
    /\ InListingOrder(w.items)
    /\ w.after = Nowhere => w.items = <<>>
    /\ w.after # Nowhere => Behind(w.items, w.after)

\* The rows behind the new cursor are what the next page reads.
LEMMA NextCursor ==
    ASSUME TableOK, NEW w \in WalkRecord, NEW m \in WalkRecord,
           m.from = w.from, m.to = w.to, m.top = w.top,
           m.after \in PageRows(w), NEW i \in Remaining(w), Precedes(m.after, At(i))
    PROVE  i \in Remaining(m)
<1>1. PICK l \in Remaining(w) : m.after = At(l)
  BY DEF PageRows
<1>2. l \in DOMAIN rows /\ l \in Seek(w) /\ i \in DOMAIN rows /\ i \in Seek(w)
  BY DEF Remaining, Seek
<1>3. /\ At(l)[1] \in Nat /\ At(l)[2] \in Nat /\ At(i)[1] \in Nat /\ At(i)[2] \in Nat
      /\ At(l) # Nowhere
  BY <1>2, RowPositions, PositionParts
<1>4. i \in Seek(m)
  <2>1. w.to \in Nat /\ w.from \in Nat
    BY DEF WalkRecord
  <2>2. CASE feed = "frames"
    <3>1. At(i)[1] = At(l)[1] \/ At(i)[1] < w.to
      <4> DEFINE s == IF w.after = Nowhere THEN <<w.from, 0>> ELSE w.after
      <4>1. (At(i)[1] = s[1] /\ At(i)[2] > s[2]) \/ (At(i)[1] > s[1] /\ At(i)[1] < w.to)
        BY <1>2, <2>2 DEF Seek
      <4>2. (At(l)[1] = s[1] /\ At(l)[2] > s[2]) \/ (At(l)[1] > s[1] /\ At(l)[1] < w.to)
        BY <1>2, <2>2 DEF Seek
      <4>3. s[1] \in Nat
        <5>1. w.after # Nowhere => w.after \in Position
          BY DEF WalkRecord
        <5> QED BY <2>1, <5>1, PositionParts
      <4>4. At(l)[1] < At(i)[1] \/ At(l)[1] = At(i)[1]
        BY <2>2, <1>1 DEF Precedes, Below
      <4> HIDE DEF s
      <4> QED BY <1>3, <2>1, <4>1, <4>2, <4>3, <4>4
    <3>2. Below(At(l), At(i))
      BY <1>1, <2>2 DEF Precedes
    <3>3. (At(i)[1] = At(l)[1] /\ At(i)[2] > At(l)[2]) \/ (At(i)[1] > At(l)[1] /\ At(i)[1] < m.to)
      BY <1>3, <3>1, <3>2, <2>1 DEF Below
    <3> QED BY <1>1, <1>2, <1>3, <2>2, <3>3 DEF Seek
  <2>3. CASE feed = "reports"
    BY <1>1, <1>2, <1>3, <2>3 DEF Seek, Precedes, Below
  <2>4. CASE feed = "export"
    BY <1>1, <1>2, <1>3, <2>4 DEF Seek, Precedes
  <2> QED BY <2>2, <2>3, <2>4 DEF TableOK, Feeds
<1> QED BY <1>4 DEF Remaining

\* A page continues the walk: in order, beyond the cursor, and nothing skipped.
LEMMA PageKeeps ==
    ASSUME TableOK, NEW w \in WalkRecord, NEW limit \in Nat \ {0}, CursorOK(w)
    PROVE  LET m == PageOf(w, limit)
               last == m.items[Len(m.items)]
           IN /\ m \in WalkRecord /\ m.state \in {"open", "ended"}
              /\ \A x \in {"from", "to", "history", "top"} : m[x] = w[x]
              /\ InListingOrder(m.items)
              /\ \A i \in 1..Len(m.items) : Has(w.items, m.items[i]) \/ m.items[i] \in PageRows(w)
              /\ \A p \in Position : Has(w.items, p) => Has(m.items, p)
              /\ m.items # w.items =>
                    Len(m.items) > 0 /\ last \in PageRows(w) /\ Behind(m.items, last)
              /\ m.state = "open" => m.items # w.items /\ m.after = last
              /\ \A i \in Remaining(w) :
                    Has(m.items, At(i)) \/ (m.state = "open" /\ i \in Remaining(m))
<1> DEFINE m == PageOf(w, limit)
<1>1. PICK page \in Seq(PageRows(w)) :
          /\ m.items = w.items \o page
          /\ InListingOrder(page)
          /\ \A x \in {"from", "to", "history", "top"} : m[x] = w[x]
          /\ \/ /\ m.state = "open" /\ Len(page) > 0
                /\ m.after = page[Len(page)]
                /\ \A p \in PageRows(w) : Has(page, p) \/ Precedes(page[Len(page)], p)
             \/ /\ m.state = "ended" /\ m.after = w.after
                /\ \A p \in PageRows(w) : Has(page, p)
          /\ m \in WalkRecord
  BY PageIsAPrefix
<1> HIDE DEF m
<1> DEFINE S == PageRows(w)
           a == Len(w.items)
           b == Len(page)
<1>2. S \subseteq Position
  BY PageRowsOK
<1>3. w.items \in Seq(Position) /\ page \in Seq(S) /\ a \in Nat /\ b \in Nat
  BY DEF WalkRecord
<1>4. \A p \in S : w.after # Nowhere => Precedes(w.after, p)
  BY PageRowsAreAhead DEF PageRows
<1> HIDE DEF S
<1>5. page \in Seq(Position)
  BY <1>2, <1>3
<1>6. /\ Len(m.items) = a + b
      /\ \A i \in 1..a : m.items[i] = w.items[i]
      /\ \A i \in 1..b : m.items[a + i] = page[i]
      /\ \A i \in 1..(a + b) : i \in 1..a \/ \E j \in 1..b : i = a + j
  <2>1. /\ Len(w.items \o page) = a + b
        /\ \A i \in 1..a : (w.items \o page)[i] = w.items[i]
        /\ \A i \in 1..b : (w.items \o page)[a + i] = page[i]
    BY <1>3, <1>5
  <2>2. ASSUME NEW i \in 1..(a + b), ~(i \in 1..a) PROVE \E j \in 1..b : i = a + j
    <3>1. i - a \in 1..b /\ i = a + (i - a)
      BY <1>3, <2>2
    <3> QED BY <3>1
  <2> QED BY <1>1, <2>1, <2>2
<1>7. \A i \in 1..b : page[i] \in S
  BY <1>3
<1>8. ASSUME NEW i \in 1..a, NEW p \in S PROVE Precedes(w.items[i], p)
  <2>1. w.after # Nowhere /\ w.after \in Position /\ w.items[i] \in Position /\ p \in Position
    BY <1>2, <1>3 DEF CursorOK, WalkRecord
  <2>2. w.items[i] = w.after \/ Precedes(w.items[i], w.after)
    BY <2>1 DEF CursorOK, Behind
  <2> QED BY <1>4, <2>1, <2>2, PrecedesIsAnOrder
<1>9. InListingOrder(m.items)
  <2> SUFFICES ASSUME NEW i \in 1..(a + b), NEW j \in 1..(a + b), i < j
               PROVE  Precedes(m.items[i], m.items[j])
    BY <1>6 DEF InListingOrder
  <2>1. CASE i \in 1..a /\ j \in 1..a
    BY <1>6, <2>1 DEF CursorOK, InListingOrder
  <2>2. CASE i \in 1..a /\ ~(j \in 1..a)
    BY <1>6, <1>7, <1>8, <2>2
  <2>3. CASE ~(i \in 1..a)
    <3>1. PICK x \in 1..b : i = a + x
      BY <1>6, <2>3
    <3>2. ~(j \in 1..a)
      BY <1>3, <2>3
    <3>3. PICK y \in 1..b : j = a + y
      BY <1>6, <3>2
    <3>4. x < y
      BY <1>3, <3>1, <3>3
    <3> QED BY <1>1, <1>6, <3>1, <3>3, <3>4 DEF InListingOrder
  <2> QED BY <2>1, <2>2, <2>3
<1>10. \A i \in 1..Len(m.items) : Has(w.items, m.items[i]) \/ m.items[i] \in S
  <2> TAKE i \in 1..Len(m.items)
  <2>1. CASE i \in 1..a
    BY <1>6, <2>1 DEF Has
  <2>2. CASE ~(i \in 1..a)
    <3>1. PICK j \in 1..b : i = a + j
      BY <1>6, <2>2
    <3>2. m.items[i] = page[j]
      BY <1>6, <3>1
    <3> QED BY <1>7, <3>2
  <2> QED BY <2>1, <2>2
<1>11. \A p : (Has(w.items, p) => Has(m.items, p)) /\ (Has(page, p) => Has(m.items, p))
  <2> TAKE p
  <2>1. ASSUME NEW i \in 1..a, w.items[i] = p PROVE Has(m.items, p)
    <3>1. i \in 1..Len(m.items) /\ m.items[i] = p
      BY <1>3, <1>6, <2>1
    <3> QED BY <3>1 DEF Has
  <2>2. ASSUME NEW i \in 1..b, page[i] = p PROVE Has(m.items, p)
    <3>1. a + i \in 1..Len(m.items) /\ m.items[a + i] = p
      BY <1>3, <1>6, <2>2
    <3> QED BY <3>1 DEF Has
  <2> QED BY <2>1, <2>2 DEF Has
<1> DEFINE last == m.items[Len(m.items)]
<1>12. b > 0 => Len(m.items) > 0 /\ last = page[b] /\ last \in S /\ Behind(m.items, last)
  <2> SUFFICES ASSUME b > 0
               PROVE  Len(m.items) > 0 /\ last = page[b] /\ last \in S /\ Behind(m.items, last)
    OBVIOUS
  <2>1. b \in 1..b /\ Len(m.items) = a + b /\ a + b \in 1..(a + b)
    BY <1>3, <1>6
  <2>2. last = page[b] /\ last \in S
    BY <1>6, <1>7, <2>1
  <2>3. ASSUME NEW i \in 1..(a + b) PROVE m.items[i] = last \/ Precedes(m.items[i], last)
    <3>1. i = a + b \/ i < a + b
      BY <1>3
    <3> QED BY <1>9, <2>1, <3>1 DEF InListingOrder
  <2> QED BY <2>1, <2>2, <2>3 DEF Behind
<1>13. m.items # w.items <=> b > 0
  <2>1. m.items = w.items => b = 0
    BY <1>3, <1>6
  <2>2. b = 0 => m.items = w.items
    <3>1. b = 0 => page = <<>>
      BY <1>5
    <3> QED BY <1>1, <1>3, <3>1
  <2> QED BY <1>3, <2>1, <2>2
<1>14. m.state \in {"open", "ended"} /\ (m.state = "open" => b > 0 /\ m.after = last)
  BY <1>1, <1>12
<1>15. ASSUME NEW i \in Remaining(w)
       PROVE  Has(m.items, At(i)) \/ (m.state = "open" /\ i \in Remaining(m))
  <2>1. At(i) \in S
    BY DEF S, PageRows
  <2>2. CASE Has(page, At(i))
    BY <1>11, <2>2
  <2>3. CASE ~Has(page, At(i))
    <3>1. m.state = "open" /\ b > 0 /\ m.after = page[b] /\ Precedes(m.after, At(i))
      BY <1>1, <2>1, <2>3 DEF S
    <3>2. m.after \in PageRows(w) /\ m \in WalkRecord
      BY <1>1, <1>12, <3>1 DEF S
    <3>3. m.from = w.from /\ m.to = w.to /\ m.top = w.top
      BY <1>1
    <3>4. i \in Remaining(m)
      BY <3>1, <3>2, <3>3, NextCursor
    <3> QED BY <3>1, <3>4
  <2> QED BY <2>2, <2>3
<1> QED BY <1>1, <1>9, <1>10, <1>11, <1>12, <1>13, <1>14, <1>15 DEF m, S

-----------------------------------------------------------------------------
(* The inductive invariant *)

\* A row's id is one that was given out in this database.
RowsAreNumbered ==
    /\ feed # "reports" => \A i \in DOMAIN rows : i <= highWater
    /\ feed = "reports" => DOMAIN rows \subseteq spent

\* What a walk owes is in the table and matches.
OwedOK(owed) ==
    \A p \in owed :
        /\ p \in Position /\ p[2] \in DOMAIN rows /\ At(p[2]) = p
        /\ feed # "export" => rows[p[2]].matches

\* Nothing enters below the snapshot of an open walk.
SnapshotHolds(w, start) ==
    /\ w.history <= historyId
    /\ feed = "frames" /\ w.history = historyId =>
          /\ w.top[2] <= highWater
          /\ \A i \in DOMAIN rows : i <= w.top[2] => At(i) \in start
    /\ feed = "reports" /\ w.after # Nowhere => ~Below(w.top, w.after)

\* A walk: its items are in order, before its cursor and within its snapshot,
\* and what it owes is an item or, while it is open, still to come.
WalkOK(w, start, owed) ==
    /\ w \in WalkRecord
    /\ InListingOrder(w.items)
    /\ w.state = "idle" => w.items = <<>>
    /\ feed = "frames" => \A i \in 1..Len(w.items) : w.items[i] \in start
    /\ feed = "reports" => \A i \in 1..Len(w.items) : ~Below(w.top, w.items[i])
    /\ w.state = "open" =>
          /\ CursorOK(w) /\ SnapshotHolds(w, start)
          /\ \A p \in owed : Has(w.items, p) \/ p[2] \in Remaining(w)
    /\ w.state = "ended" => \A p \in owed : Has(w.items, p)

WInv ==
    /\ PagesTypeOK
    /\ RowsAreNumbered
    /\ OwedOK(steady)
    /\ WalkOK(walk, atStart, steady)
    /\ walk.state = "open" /\ walk.after = Nowhere => feed = "export"

\* The invariant includes what the lemmas about the table need.
LEMMA WInvGivesTable == ASSUME WInv PROVE TableOK
BY DEF WInv, PagesTypeOK, TableOK, Feeds

\* The largest id of a table.
LEMMA MaxIdOfTable ==
    ASSUME TableOK
    PROVE  /\ MaxId \in Nat /\ (MaxId = 0 \/ MaxId \in DOMAIN rows)
           /\ \A i \in DOMAIN rows : i <= MaxId
<1>1. CASE DOMAIN rows = {}
  BY <1>1 DEF MaxId
<1>2. CASE DOMAIN rows # {}
  <2>1. DOMAIN rows \subseteq 1..MaxRowId /\ MaxRowId \in Nat
    BY PagesAssumption DEF TableOK, RowIds
  <2> DEFINE T == {k \in Nat : \E i \in DOMAIN rows : k = MaxRowId - i}
  <2>2. T # {}
    <3>1. PICK i \in DOMAIN rows : TRUE
      BY <1>2
    <3>2. MaxRowId - i \in Nat
      BY <2>1
    <3> QED BY <3>1, <3>2
  <2>3. \E k \in T : \A l \in T : ~(<<l, k>> \in OpToRel(<, Nat))
    <3>1. T \subseteq Nat
      OBVIOUS
    <3> HIDE DEF T
    <3> QED BY <2>2, <3>1, NatLessThanWellFounded, WFMin
  <2>4. PICK k \in T : \A l \in T : ~(l < k)
    BY <2>3 DEF OpToRel
  <2>5. PICK i \in DOMAIN rows : k = MaxRowId - i
    OBVIOUS
  <2>6. ASSUME NEW j \in DOMAIN rows PROVE j <= i
    <3>1. MaxRowId - j \in T
      BY <2>1
    <3>2. ~(MaxRowId - j < k)
      BY <2>4, <3>1
    <3> HIDE DEF T
    <3> QED BY <2>1, <2>5, <3>2
  <2> HIDE DEF T
  <2>7. MaxId \in DOMAIN rows /\ \A j \in DOMAIN rows : j <= MaxId
    BY <1>2, <2>6 DEF MaxId
  <2> QED BY <2>1, <2>7
<1> QED BY <1>1, <1>2

\* The first tuple of the reports' order.
LEMMA TopOfReports ==
    ASSUME TableOK, feed = "reports", DOMAIN rows # {}
    PROVE  Top \in Position /\ \A i \in DOMAIN rows : ~Below(Top, At(i))
<1> DEFINE S == {At(i) : i \in DOMAIN rows}
           n == Cardinality(S)
<1>1. S \in SUBSET Position /\ Comparable(S)
  BY RowPositions DEF Comparable
<1>2. IsFiniteSet(S)
  <2>1. IsFiniteSet(DOMAIN rows)
    <3>1. IsFiniteSet(RowIds)
      BY PagesAssumption, FS_Interval DEF RowIds
    <3>2. DOMAIN rows \in SUBSET RowIds
      BY DEF TableOK
    <3> QED BY <3>1, <3>2, FS_Subset
  <2> DEFINE f == [i \in DOMAIN rows |-> At(i)]
  <2>2. f \in Surjection(DOMAIN rows, S)
    BY DEF Surjection
  <2> QED BY <2>1, <2>2, FS_Surjection
<1>3. \A i \in DOMAIN rows : At(i) \in S
  OBVIOUS
<1> HIDE DEF S
<1>4. /\ n \in Nat /\ Listing(S) \in [1..n -> S]
      /\ \A i, j \in 1..n : i < j => Precedes(Listing(S)[i], Listing(S)[j])
      /\ \A p \in S : \E i \in 1..n : Listing(S)[i] = p
  BY <1>1, <1>2, ListingIsSorted
<1>5. PICK k \in 1..n : TRUE
  BY <1>3, <1>4
<1>6. 1 \in 1..n /\ Listing(S)[1] \in S
  BY <1>4, <1>5
<1>7. ASSUME NEW q \in S PROVE ~Below(Listing(S)[1], q)
  <2>1. PICK i \in 1..n : Listing(S)[i] = q
    BY <1>4
  <2>2. q = Listing(S)[1] \/ Precedes(Listing(S)[1], q)
    BY <1>4, <1>6, <2>1
  <2>3. \A x \in {q, Listing(S)[1]} : x[1] \in Nat /\ x[2] \in Nat
    BY <1>1, <1>6, PositionParts
  <2> QED BY <2>2, <2>3 DEF Precedes, Below
<1>8. \E p \in S : \A i \in DOMAIN rows : ~Below(p, At(i))
  BY <1>3, <1>6, <1>7
<1>9. Top \in S /\ \A i \in DOMAIN rows : ~Below(Top, At(i))
  <2>1. Top = CHOOSE p \in S : \A i \in DOMAIN rows : ~Below(p, At(i))
    BY DEF Top, S
  <2> QED BY <1>8, <2>1
<1> QED BY <1>1, <1>9

\* The greatest position, from which a walk's snapshot is taken.
LEMMA TopType ==
    ASSUME TableOK
    PROVE  Top \in Nat \X Nat
<1>1. CASE feed = "frames"
  BY <1>1, MaxIdOfTable, PagesAssumption DEF Top
<1>2. CASE feed = "reports" /\ DOMAIN rows # {}
  BY <1>2, TopOfReports, PositionParts DEF Position
<1>3. CASE feed = "reports" /\ DOMAIN rows = {}
  BY <1>3 DEF Top, Nowhere
<1>4. CASE feed = "export"
  BY <1>4 DEF Top, Nowhere
<1> QED BY <1>1, <1>2, <1>3, <1>4 DEF TableOK, Feeds

\* A page leaves a walk that is in order; so does the cursor an export takes
\* from its page.
LEMMA PageContinues ==
    ASSUME TableOK, NEW w, NEW start, NEW owed, NEW limit \in Nat \ {0},
           WalkOK(w, start, owed), OwedOK(owed), w.state = "open",
           feed = "frames" => w.history = historyId,
           feed = "reports" /\ w.after = Nowhere => \A i \in DOMAIN rows : ~Below(w.top, At(i))
    PROVE  LET m == PageOf(w, limit)
               x == [m EXCEPT !.state = "open", !.after = m.items[Len(m.items)]]
           IN /\ WalkOK(m, start, owed)
              /\ m.state = "open" => m.after # Nowhere
              /\ m.state \in {"open", "ended"}
              /\ m.items = w.items => m.state = "ended"
              /\ m.items # w.items => WalkOK(x, start, owed) /\ x.state = "open"
<1> DEFINE m == PageOf(w, limit)
           last == m.items[Len(m.items)]
           x == [m EXCEPT !.state = "open", !.after = last]
<1>1. w \in WalkRecord /\ CursorOK(w) /\ SnapshotHolds(w, start)
  BY DEF WalkOK
<1>2. /\ m \in WalkRecord /\ m.state \in {"open", "ended"}
      /\ \A z \in {"from", "to", "history", "top"} : m[z] = w[z]
      /\ InListingOrder(m.items)
      /\ \A i \in 1..Len(m.items) : Has(w.items, m.items[i]) \/ m.items[i] \in PageRows(w)
      /\ \A p \in Position : Has(w.items, p) => Has(m.items, p)
      /\ m.items # w.items =>
            Len(m.items) > 0 /\ last \in PageRows(w) /\ Behind(m.items, last)
      /\ m.state = "open" => m.items # w.items /\ m.after = last
      /\ \A i \in Remaining(w) :
            Has(m.items, At(i)) \/ (m.state = "open" /\ i \in Remaining(m))
  BY <1>1, PageKeeps
<1> HIDE DEF m
<1>3. PageRows(w) \subseteq Position /\ Nowhere \notin Position
  BY PageRowsOK, PositionParts
\* What a page shows lies within the snapshot.
<1>4. ASSUME NEW p \in PageRows(w)
      PROVE  (feed = "frames" => p \in start) /\ (feed = "reports" => ~Below(w.top, p))
  <2>1. PICK i \in Remaining(w) : p = At(i)
    BY DEF PageRows
  <2>2. i \in DOMAIN rows
    BY DEF Remaining, Seek
  <2>3. feed = "frames" => p \in start
    BY <1>1, <2>1, <2>2 DEF Remaining, SnapshotHolds
  <2>4. CASE feed = "reports" /\ w.after # Nowhere
    <3>1. Below(p, w.after) /\ ~Below(w.top, w.after)
      BY <1>1, <2>1, <2>4, PageRowsAreAhead DEF Precedes, SnapshotHolds
    <3>2. p \in Position /\ w.after \in Position /\ w.top \in Nat \X Nat
      BY <1>1, <1>3, <2>4 DEF WalkRecord
    <3>3. /\ p[1] \in Nat /\ p[2] \in Nat /\ w.after[1] \in Nat /\ w.after[2] \in Nat
          /\ w.top[1] \in Nat /\ w.top[2] \in Nat
      BY <3>2, PositionParts
    <3> QED BY <2>4, <3>1, <3>3 DEF Below
  <2> QED BY <2>1, <2>2, <2>3, <2>4
<1>5. /\ feed = "frames" => \A i \in 1..Len(m.items) : m.items[i] \in start
      /\ feed = "reports" => \A i \in 1..Len(m.items) : ~Below(w.top, m.items[i])
  <2>1. /\ feed = "frames" => \A p : Has(w.items, p) => p \in start
        /\ feed = "reports" => \A p : Has(w.items, p) => ~Below(w.top, p)
    BY DEF Has, WalkOK
  <2> QED BY <1>2, <1>4, <2>1
<1>6. \A p \in owed : Has(m.items, p) \/ (m.state = "open" /\ p[2] \in Remaining(m))
  <2> TAKE p \in owed
  <2>1. p \in Position /\ At(p[2]) = p
    BY DEF OwedOK
  <2>2. Has(w.items, p) \/ p[2] \in Remaining(w)
    BY DEF WalkOK
  <2> QED BY <1>2, <2>1, <2>2
<1>7. m.items # w.items =>
          /\ last \in Position /\ last # Nowhere
          /\ feed = "reports" => ~Below(w.top, last)
  BY <1>2, <1>3, <1>4
<1>8. m.state = "open" => CursorOK(m) /\ SnapshotHolds(m, start)
  <2> HAVE m.state = "open"
  <2>1. m.after = last /\ last # Nowhere /\ Behind(m.items, last)
    BY <1>2, <1>7
  <2>2. CursorOK(m)
    BY <1>2, <2>1 DEF CursorOK
  <2>3. SnapshotHolds(m, start)
    BY <1>1, <1>2, <1>7, <2>1 DEF SnapshotHolds
  <2> QED BY <2>2, <2>3
<1>9. WalkOK(m, start, owed)
  BY <1>2, <1>5, <1>6, <1>8 DEF WalkOK
<1>10. ASSUME m.items # w.items PROVE WalkOK(x, start, owed) /\ x.state = "open"
  <2>1. /\ x \in WalkRecord /\ x.state = "open" /\ x.after = last /\ x.items = m.items
        /\ \A z \in {"from", "to", "history", "top"} : x[z] = m[z]
    BY <1>2, <1>7, <1>10 DEF WalkRecord
  <2> HIDE DEF x
  <2>2. CursorOK(x)
    BY <1>2, <1>7, <1>10, <2>1 DEF CursorOK
  <2>3. SnapshotHolds(x, start)
    BY <1>1, <1>2, <1>7, <1>10, <2>1 DEF SnapshotHolds
  <2>4. \A p \in owed : Has(x.items, p) \/ p[2] \in Remaining(x)
    <3>1. m.state = "open" => m.after = x.after
      BY <1>2, <2>1
    <3>2. m.state = "open" => Remaining(m) = Remaining(x)
      BY <2>1, <3>1 DEF Remaining, Seek
    <3> QED BY <1>6, <2>1, <3>2
  <2>5. /\ feed = "frames" => \A i \in 1..Len(x.items) : x.items[i] \in start
        /\ feed = "reports" => \A i \in 1..Len(x.items) : ~Below(x.top, x.items[i])
    BY <1>2, <1>5, <2>1
  <2> QED BY <1>2, <2>1, <2>2, <2>3, <2>4, <2>5 DEF WalkOK
<1> QED BY <1>2, <1>7, <1>9, <1>10 DEF m

\* The snapshot of a first page.
LEMMA FirstSnapshot ==
    ASSUME TableOK, RowsAreNumbered, historyId \in 1..MaxHistories, highWater \in Nat, NEW from \in Nat, NEW to \in Nat
    PROVE  LET w == Opened(from, to)
               start == {At(i) : i \in DOMAIN rows}
               owed == {At(i) : i \in Remaining(w)}
           IN /\ WalkOK(w, start, owed) /\ OwedOK(owed)
              /\ start \subseteq Position /\ owed \subseteq Position
              /\ w.state = "open" /\ w.history = historyId
              /\ feed = "reports" => \A i \in DOMAIN rows : ~Below(w.top, At(i))
<1> DEFINE w == Opened(from, to)
           start == {At(i) : i \in DOMAIN rows}
           owed == {At(i) : i \in Remaining(w)}
<1>1. /\ w.state = "open" /\ w.from = from /\ w.to = to /\ w.history = historyId
      /\ w.top = Top /\ w.after = Nowhere /\ w.items = <<>> /\ w \in WalkRecord
  <2>1. Top \in Nat \X Nat
    BY TopType
  <2>2. historyId \in 0..MaxHistories
    BY PagesAssumption
  <2> QED BY <2>1, <2>2 DEF Opened, WalkRecord
<1> HIDE DEF w
<1>2. Remaining(w) \subseteq DOMAIN rows
  BY DEF Remaining, Seek
<1>3. start \subseteq Position /\ owed \subseteq Position
  BY <1>2, RowPositions
<1>4. OwedOK(owed)
  <2> SUFFICES ASSUME NEW i \in Remaining(w)
               PROVE  /\ At(i) \in Position /\ At(i)[2] \in DOMAIN rows /\ At(At(i)[2]) = At(i)
                      /\ feed # "export" => rows[At(i)[2]].matches
    BY DEF OwedOK
  <2>1. i \in DOMAIN rows /\ At(i)[2] = i /\ At(i) \in Position
    BY <1>2, RowPositions
  <2> QED BY <2>1 DEF Remaining
<1>5. feed = "reports" => \A i \in DOMAIN rows : ~Below(w.top, At(i))
  BY <1>1, TopOfReports
<1>6. SnapshotHolds(w, start)
  <2>1. feed = "frames" => w.top[2] <= highWater
    <3> HAVE feed = "frames"
    <3>1. w.top[2] = MaxId
      BY <1>1 DEF Top
    <3>2. MaxId = 0 \/ MaxId \in DOMAIN rows
      BY MaxIdOfTable
    <3> QED BY <3>1, <3>2 DEF RowsAreNumbered
  <2> QED BY <1>1, <2>1 DEF SnapshotHolds
<1>7. CursorOK(w) /\ InListingOrder(w.items)
  BY <1>1 DEF CursorOK, InListingOrder
<1>8. \A p \in owed : p[2] \in Remaining(w)
  BY <1>2, RowPositions
<1> HIDE DEF owed, start
<1>9. WalkOK(w, start, owed)
  BY <1>1, <1>6, <1>7, <1>8 DEF WalkOK
<1> QED BY <1>1, <1>3, <1>4, <1>5, <1>9 DEF w, start, owed

\* The table changes under a walk.
LEMMA WalkOutlives ==
    ASSUME WInv, PagesTypeOK', RowsAreNumbered',
           walk' = walk, feed' = feed, atStart' = atStart,
           steady' \subseteq steady,
           \A p \in steady' : p[2] \in DOMAIN rows' /\ rows'[p[2]] = rows[p[2]],
           walk.state = "open" => SnapshotHolds(walk, atStart)'
    PROVE  WInv'
<1>1. OwedOK(steady)'
  BY DEF WInv, OwedOK, At
<1>2. \A p \in steady' : p[2] \in Remaining(walk) => p[2] \in Remaining(walk)'
  BY DEF Remaining, Seek, At
<1>3. WalkOK(walk, atStart, steady)'
  <2>1. WalkOK(walk, atStart, steady)
    BY DEF WInv
  <2>2. /\ walk' \in WalkRecord' /\ (walk'.state = "idle" => walk'.items = <<>>)
        /\ InListingOrder(walk.items)'
        /\ (feed = "frames" => \A i \in 1..Len(walk.items) : walk.items[i] \in atStart)'
        /\ (feed = "reports" => \A i \in 1..Len(walk.items) : ~Below(walk.top, walk.items[i]))'
    <3>1. walk' \in WalkRecord'
      BY <2>1 DEF WalkOK, WalkRecord, Position, RowIds, Times, Nowhere
    <3>2. InListingOrder(walk.items)'
      BY <2>1 DEF WalkOK, InListingOrder, Precedes
    <3>3. (feed = "reports" => \A i \in 1..Len(walk.items) : ~Below(walk.top, walk.items[i]))'
      BY <2>1 DEF WalkOK, Below
    <3> QED BY <2>1, <3>1, <3>2, <3>3 DEF WalkOK
  <2>3. (walk.state = "open" => CursorOK(walk) /\ SnapshotHolds(walk, atStart))'
    BY <2>1 DEF WalkOK, CursorOK, Behind, InListingOrder, Precedes, Below, Nowhere
  <2>4. (walk.state = "open" => \A p \in steady : Has(walk.items, p) \/ p[2] \in Remaining(walk))'
    BY <1>2, <2>1 DEF WalkOK, Has
  <2>5. (walk.state = "ended" => \A p \in steady : Has(walk.items, p))'
    BY <2>1 DEF WalkOK, Has
  <2> QED BY <2>2, <2>3, <2>4, <2>5 DEF WalkOK
<1> QED BY <1>1, <1>3 DEF WInv, Nowhere

\* A row that comes in, above every earlier id unless it is a report, is owed to
\* no walk.
LEMMA InsertKeepsWalk ==
    ASSUME WInv, NEW i \in RowIds \ DOMAIN rows, NEW t \in Times, NEW matches \in BOOLEAN,
           Insert(i, t, matches), highWater' \in 0..MaxRowId, highWater <= highWater',
           feed # "reports" => highWater < i /\ i <= highWater'
    PROVE  WInv'
<1>1. /\ DOMAIN rows' = DOMAIN rows \cup {i} /\ rows'[i] = [at |-> t, matches |-> matches]
      /\ \A j \in DOMAIN rows : rows'[j] = rows[j]
      /\ spent' = spent \cup {i}
      /\ UNCHANGED <<feed, historyId, walk, atStart, steady>>
  BY DEF Insert
<1>2. PagesTypeOK'
  <2>1. /\ feed' \in {"frames", "reports", "export"} /\ historyId' \in 1..MaxHistories
        /\ walk'.state \in {"idle", "open", "ended", "refused"} /\ walk'.items \in Seq(Position)
        /\ atStart' \subseteq Position /\ steady' \subseteq Position
        /\ spent' \subseteq RowIds
    BY <1>1 DEF WInv, PagesTypeOK
  <2>2. DOMAIN rows' \subseteq RowIds /\ \A j \in DOMAIN rows' : rows'[j] \in [at : Times, matches : BOOLEAN]
    BY <1>1 DEF WInv, PagesTypeOK
  <2> QED BY <2>1, <2>2 DEF PagesTypeOK, Position, RowIds, Times
<1>3. highWater \in Nat /\ highWater' \in Nat /\ \A j \in DOMAIN rows' : j \in Nat
  BY <1>1, PositionParts, PagesAssumption DEF WInv, PagesTypeOK
<1>4. RowsAreNumbered'
  <2>1. RowsAreNumbered
    BY DEF WInv
  <2>2. feed' # "reports" => \A j \in DOMAIN rows' : j <= highWater'
    BY <1>1, <1>3, <2>1 DEF RowsAreNumbered
  <2>3. feed' = "reports" => DOMAIN rows' \subseteq spent'
    BY <1>1, <2>1 DEF RowsAreNumbered
  <2> QED BY <2>2, <2>3 DEF RowsAreNumbered
<1>5. \A p \in steady' : p[2] \in DOMAIN rows' /\ rows'[p[2]] = rows[p[2]]
  BY <1>1 DEF WInv, OwedOK
<1>6. walk.state = "open" => SnapshotHolds(walk, atStart)'
  <2> HAVE walk.state = "open"
  <2>1. SnapshotHolds(walk, atStart) /\ walk.top[2] \in Nat
    BY DEF WInv, WalkOK, WalkRecord
  <2>2. (feed = "frames" /\ walk.history = historyId)' =>
            /\ walk'.top[2] <= highWater'
            /\ \A j \in DOMAIN rows' : j <= walk'.top[2] => At(j)' \in atStart'
    <3> HAVE (feed = "frames" /\ walk.history = historyId)'
    <3>1. walk.top[2] <= highWater /\ \A j \in DOMAIN rows : j <= walk.top[2] => At(j) \in atStart
      BY <1>1, <2>1 DEF SnapshotHolds
    <3>2. walk'.top[2] <= highWater' /\ ~(i <= walk.top[2])
      BY <1>1, <1>3, <2>1, <3>1 DEF RowIds
    <3>3. \A j \in DOMAIN rows' : j <= walk.top[2] => At(j)' \in atStart'
      BY <1>1, <3>1, <3>2 DEF At
    <3> QED BY <1>1, <3>2, <3>3
  <2>3. (walk.history <= historyId /\ (feed = "reports" /\ walk.after # Nowhere => ~Below(walk.top, walk.after)))'
    BY <1>1, <2>1 DEF SnapshotHolds, Below, Nowhere
  <2> QED BY <2>2, <2>3 DEF SnapshotHolds, At
<1> QED BY <1>1, <1>2, <1>4, <1>5, <1>6, WalkOutlives

\* Rows go or change, ids and database stay.
LEMMA RowsGoKeepsWalk ==
    ASSUME WInv, UNCHANGED <<feed, spent, highWater, historyId, walk, atStart>>,
           DOMAIN rows' \subseteq DOMAIN rows,
           \A j \in DOMAIN rows' : rows'[j] \in [at : Times, matches : BOOLEAN] /\ rows'[j].at = rows[j].at,
           steady' \subseteq steady,
           \A p \in steady' : p[2] \in DOMAIN rows' /\ rows'[p[2]] = rows[p[2]]
    PROVE  WInv'
<1>1. PagesTypeOK'
  BY DEF WInv, PagesTypeOK, Position, RowIds, Times
<1>2. RowsAreNumbered'
  BY DEF WInv, RowsAreNumbered
<1>3. walk.state = "open" => SnapshotHolds(walk, atStart)'
  <2> HAVE walk.state = "open"
  <2>1. SnapshotHolds(walk, atStart)
    BY DEF WInv, WalkOK
  <2>2. \A j \in DOMAIN rows' : j \in DOMAIN rows /\ At(j)' = At(j)
    BY DEF At
  <2> QED BY <2>1, <2>2 DEF SnapshotHolds, Below, Nowhere
<1> QED BY <1>1, <1>2, <1>3, WalkOutlives

\* At the start nobody walks.
LEMMA WInvInit == ASSUME PagesInit PROVE WInv
<1>1. /\ walk \in WalkRecord /\ walk.state = "idle" /\ walk.items = <<>>
      /\ DOMAIN rows = {} /\ steady = {} /\ atStart = {} /\ spent = {} /\ highWater = 0 /\ historyId = 1
      /\ feed \in {"frames", "reports", "export"}
  BY PagesAssumption DEF PagesInit, WalkRecord, Nowhere
<1>2. PagesTypeOK
  BY <1>1, PagesAssumption DEF PagesTypeOK
<1> QED BY <1>1, <1>2 DEF WInv, RowsAreNumbered, OwedOK, WalkOK, InListingOrder

\* Rows come, go and change under a walk.
LEMMA WInvRows ==
    ASSUME WInv, \/ \E t \in Times, matches \in BOOLEAN : InsertFrame(t, matches) \/ InsertReport(t, matches)
                 \/ \E i \in DOMAIN rows : DeleteRow(i) \/ RowMoves(i)
                 \/ NewDatabase
    PROVE  WInv'
<1>1. TableOK /\ highWater \in 0..MaxRowId /\ MaxRowId \in Nat
  BY WInvGivesTable, PagesAssumption DEF WInv, PagesTypeOK
<1>2. ASSUME NEW t \in Times, NEW matches \in BOOLEAN, InsertFrame(t, matches) PROVE WInv'
  <2>1. PICK i \in {AllocateFrameId} : TRUE
    OBVIOUS
  <2>2. i \in RowIds /\ Insert(i, t, matches) /\ highWater' = i /\ feed # "reports"
    BY <1>2, <2>1 DEF InsertFrame
  <2>3. MaxId \in Nat
    BY <1>1, MaxIdOfTable
  <2>4. highWater < i
    BY <1>1, <2>1, <2>3 DEF AllocateFrameId
  <2>5. i \notin DOMAIN rows
    BY <1>1, <2>2, <2>4 DEF WInv, RowsAreNumbered, RowIds
  <2>6. highWater' \in 0..MaxRowId /\ highWater <= highWater' /\ i <= highWater'
    BY <1>1, <2>2, <2>4 DEF RowIds
  <2> QED BY <2>2, <2>4, <2>5, <2>6, InsertKeepsWalk
<1>3. ASSUME NEW t \in Times, NEW matches \in BOOLEAN, InsertReport(t, matches) PROVE WInv'
  <2>1. PICK i \in RowIds \ spent : Insert(i, t, matches)
    BY <1>3 DEF InsertReport
  <2>2. feed = "reports" /\ highWater' = highWater
    BY <1>3 DEF InsertReport
  <2>3. i \notin DOMAIN rows
    BY <2>2 DEF WInv, RowsAreNumbered
  <2>4. highWater' \in 0..MaxRowId /\ highWater <= highWater'
    BY <1>1, <2>2
  <2> QED BY <2>1, <2>2, <2>3, <2>4, InsertKeepsWalk
<1>4. ASSUME NEW i \in DOMAIN rows, DeleteRow(i) PROVE WInv'
  <2>1. /\ DOMAIN rows' = DOMAIN rows \ {i} /\ \A j \in DOMAIN rows' : rows'[j] = rows[j]
        /\ steady' = steady \ {At(i)}
        /\ UNCHANGED <<feed, spent, highWater, historyId, walk, atStart>>
    BY <1>4 DEF DeleteRow
  <2>2. \A p \in steady' : p[2] \in DOMAIN rows' /\ rows'[p[2]] = rows[p[2]]
    BY <2>1 DEF WInv, OwedOK
  <2>3. \A j \in DOMAIN rows' : rows'[j] \in [at : Times, matches : BOOLEAN] /\ rows'[j].at = rows[j].at
    BY <1>1, <2>1 DEF TableOK
  <2> QED BY <2>1, <2>2, <2>3, RowsGoKeepsWalk
<1>5. ASSUME NEW i \in DOMAIN rows, RowMoves(i) PROVE WInv'
  <2> DEFINE r == [rows[i] EXCEPT !.matches = ~rows[i].matches]
  <2>1. rows' = [rows EXCEPT ![i] = r]
    BY <1>5 DEF RowMoves
  <2>2. r \in [at : Times, matches : BOOLEAN] /\ r.at = rows[i].at
    BY <1>1 DEF TableOK
  <2> HIDE DEF r
  <2>3. /\ DOMAIN rows' = DOMAIN rows
        /\ rows'[i] = r /\ \A j \in DOMAIN rows : j # i => rows'[j] = rows[j]
    BY <2>1
  <2>4. steady' = steady \ {At(i)} /\ UNCHANGED <<feed, spent, highWater, historyId, walk, atStart>>
    BY <1>5 DEF RowMoves
  <2>5. \A p \in steady' : p[2] \in DOMAIN rows' /\ rows'[p[2]] = rows[p[2]]
    BY <2>3, <2>4 DEF WInv, OwedOK
  <2>6. \A j \in DOMAIN rows' : rows'[j] \in [at : Times, matches : BOOLEAN] /\ rows'[j].at = rows[j].at
    BY <1>1, <2>2, <2>3 DEF TableOK
  <2> QED BY <2>3, <2>4, <2>5, <2>6, RowsGoKeepsWalk
<1>6. ASSUME NewDatabase PROVE WInv'
  <2>1. /\ DOMAIN rows' = {} /\ spent' = {} /\ steady' = {} /\ highWater' = 0 /\ historyId' = historyId + 1
        /\ historyId < MaxHistories /\ UNCHANGED <<feed, walk, atStart>> /\ walk.state = "open"
    BY <1>6 DEF NewDatabase
  <2>2. PagesTypeOK'
    BY <1>1, <2>1, PagesAssumption DEF WInv, PagesTypeOK, Position, RowIds, Times
  <2>3. RowsAreNumbered'
    BY <2>1 DEF RowsAreNumbered
  <2>4. SnapshotHolds(walk, atStart)'
    <3>1. SnapshotHolds(walk, atStart) /\ walk.history \in Int /\ historyId \in Int
      BY <2>1, PagesAssumption DEF WInv, WalkOK, WalkRecord, PagesTypeOK
    <3>2. walk'.history <= historyId' /\ walk'.history # historyId'
      BY <2>1, <3>1 DEF SnapshotHolds
    <3> QED BY <2>1, <3>1, <3>2 DEF SnapshotHolds, Below, Nowhere
  <2> QED BY <2>1, <2>2, <2>3, <2>4, WalkOutlives
<1> QED BY <1>2, <1>3, <1>4, <1>5, <1>6

\* A page changes the reader only.
LEMMA WalkMoves ==
    ASSUME WInv, UNCHANGED <<feed, rows, spent, highWater, historyId>>,
           NEW m, NEW start, NEW owed, walk' = m, atStart' = start, steady' = owed,
           WalkOK(m, start, owed), OwedOK(owed), start \subseteq Position, owed \subseteq Position,
           m.state = "open" /\ m.after = Nowhere => feed = "export"
    PROVE  WInv'
<1>1. PagesTypeOK'
  <2>1. m.state \in {"idle", "open", "ended", "refused"} /\ m.items \in Seq(Position)
    BY DEF WalkOK, WalkRecord
  <2> QED BY <2>1 DEF WInv, PagesTypeOK, Position, RowIds, Times
<1>2. RowsAreNumbered' /\ OwedOK(steady)'
  BY DEF WInv, RowsAreNumbered, OwedOK, At, Position, RowIds, Times
<1>3. WalkOK(walk, atStart, steady)'
  <2>0. m \in WalkRecord /\ (m.state = "idle" => m.items = <<>>)
    BY DEF WalkOK
  <2>1. /\ walk' \in WalkRecord' /\ (walk'.state = "idle" => walk'.items = <<>>)
        /\ InListingOrder(walk.items)'
        /\ (feed = "frames" => \A i \in 1..Len(walk.items) : walk.items[i] \in atStart)'
        /\ (feed = "reports" => \A i \in 1..Len(walk.items) : ~Below(walk.top, walk.items[i]))'
    <3>1. walk' \in WalkRecord' /\ (walk'.state = "idle" => walk'.items = <<>>)
      BY <2>0 DEF WalkRecord, Position, RowIds, Times, Nowhere
    <3>2. InListingOrder(walk.items)'
      BY DEF WalkOK, InListingOrder, Precedes, Below
    <3>3. /\ (feed = "frames" => \A i \in 1..Len(walk.items) : walk.items[i] \in atStart)'
          /\ (feed = "reports" => \A i \in 1..Len(walk.items) : ~Below(walk.top, walk.items[i]))'
      BY DEF WalkOK, Below
    <3> QED BY <3>1, <3>2, <3>3
  <2>2. (walk.state = "open" => CursorOK(walk))'
    BY DEF WalkOK, CursorOK, Behind, InListingOrder, Precedes, Below, Nowhere
  <2>3. (walk.state = "open" => SnapshotHolds(walk, atStart))'
    BY DEF WalkOK, SnapshotHolds, Below, Nowhere, At
  <2>4. (walk.state = "open" => \A p \in steady : Has(walk.items, p) \/ p[2] \in Remaining(walk))'
    <3>1. Remaining(walk)' = Remaining(m)
      BY DEF Remaining, Seek, At, Nowhere
    <3> QED BY <3>1 DEF WalkOK, Has
  <2>5. (walk.state = "ended" => \A p \in steady : Has(walk.items, p))'
    BY DEF WalkOK, Has
  <2> QED BY <2>1, <2>2, <2>3, <2>4, <2>5 DEF WalkOK
<1> QED BY <1>1, <1>2, <1>3 DEF WInv, Nowhere

\* A page follows from the last one, and leaves owing what lies behind it.
LEMMA WInvPages ==
    ASSUME WInv, \/ \E from \in Times : \E to \in (from + 1)..(MaxTime + 1) :
                        ExportBegins(from, to) \/ \E limit \in PageLimits : FirstPage(from, to, limit)
                 \/ \E limit \in PageLimits : NextPage(limit)
                 \/ ExportPage
                 \/ ExportFails
    PROVE  WInv'
<1>1. TableOK /\ RowsAreNumbered /\ historyId \in 1..MaxHistories /\ highWater \in Nat
  BY WInvGivesTable DEF WInv, PagesTypeOK
<1>2. PageLimits \subseteq Nat \ {0} /\ ExportPageSize \in Nat \ {0} /\ MaxTime \in Nat
  BY PagesAssumption
<1>3. WalkOK(walk, atStart, steady) /\ OwedOK(steady) /\ atStart \subseteq Position /\ steady \subseteq Position
  BY DEF WInv, PagesTypeOK
<1>4. ASSUME NEW from \in Times, NEW to \in (from + 1)..(MaxTime + 1), ExportBegins(from, to) PROVE WInv'
  <2> DEFINE w == Opened(from, to)
             start == {At(i) : i \in DOMAIN rows}
             owed == {At(i) : i \in Remaining(w)}
  <2>1. from \in Nat /\ to \in Nat
    BY <1>2 DEF Times
  <2>2. /\ WalkOK(w, start, owed) /\ OwedOK(owed)
        /\ start \subseteq Position /\ owed \subseteq Position
    BY <1>1, <2>1, FirstSnapshot
  <2>3. /\ walk' = w /\ atStart' = start /\ steady' = owed /\ feed = "export"
        /\ UNCHANGED <<feed, rows, spent, highWater, historyId>>
    BY <1>4 DEF ExportBegins, Begins
  <2> HIDE DEF w, start, owed
  <2> QED BY <2>2, <2>3, WalkMoves
<1>5. ASSUME NEW from \in Times, NEW to \in (from + 1)..(MaxTime + 1), NEW limit \in PageLimits,
             FirstPage(from, to, limit)
      PROVE  WInv'
  <2> DEFINE w == Opened(from, to)
             start == {At(i) : i \in DOMAIN rows}
             owed == {At(i) : i \in Remaining(w)}
             m == PageOf(w, limit)
  <2>1. from \in Nat /\ to \in Nat
    BY <1>2 DEF Times
  <2>2. /\ WalkOK(w, start, owed) /\ OwedOK(owed)
        /\ start \subseteq Position /\ owed \subseteq Position
        /\ w.state = "open" /\ w.history = historyId
        /\ feed = "reports" => \A i \in DOMAIN rows : ~Below(w.top, At(i))
    BY <1>1, <2>1, FirstSnapshot
  <2>3. /\ walk' = m /\ atStart' = start /\ steady' = owed
        /\ UNCHANGED <<feed, rows, spent, highWater, historyId>>
    BY <1>5 DEF FirstPage, Begins
  <2>4. limit \in Nat \ {0}
    BY <1>2
  <2> HIDE DEF w, start, owed
  <2>5. WalkOK(m, start, owed) /\ (m.state = "open" => m.after # Nowhere)
    BY <1>1, <2>2, <2>4, PageContinues
  <2> HIDE DEF m
  <2> QED BY <2>2, <2>3, <2>5, WalkMoves
\* The walk gives up: nothing is owed any more.
<1>6. WalkOK([walk EXCEPT !.state = "refused"], atStart, steady)
  <2> DEFINE m == [walk EXCEPT !.state = "refused"]
  <2>1. walk \in WalkRecord
    BY <1>3 DEF WalkOK
  <2>2. /\ m \in WalkRecord /\ m.state = "refused" /\ m.items = walk.items /\ m.top = walk.top
    BY <2>1 DEF WalkRecord
  <2> HIDE DEF m
  <2>3. WalkOK(m, atStart, steady)
    BY <1>3, <2>2 DEF WalkOK
  <2> QED BY <2>3 DEF m
<1>7. ASSUME NEW limit \in PageLimits, NextPage(limit) PROVE WInv'
  <2>1. walk.state = "open" /\ feed # "export" /\ walk.after # Nowhere
        /\ UNCHANGED <<feed, rows, spent, highWater, historyId, atStart, steady>>
    BY <1>7 DEF NextPage, WInv
  <2>2. CASE Accepted
    <3> DEFINE m == PageOf(walk, limit)
    <3>1. walk' = m
      BY <1>7, <2>2 DEF NextPage
    <3>2. feed = "frames" => walk.history = historyId
      BY <2>2 DEF Accepted
    <3>3. limit \in Nat \ {0}
      BY <1>2
    <3>4. WalkOK(m, atStart, steady) /\ (m.state = "open" => m.after # Nowhere)
      BY <1>1, <1>3, <2>1, <3>2, <3>3, PageContinues
    <3> HIDE DEF m
    <3> QED BY <1>3, <2>1, <3>1, <3>4, WalkMoves
  <2>3. CASE ~Accepted
    <3> DEFINE m == [walk EXCEPT !.state = "refused"]
    <3>1. walk' = m
      BY <1>7, <2>3 DEF NextPage
    <3>2. m.state = "refused"
      BY <1>3 DEF WalkOK, WalkRecord
    <3>3. WalkOK(m, atStart, steady)
      BY <1>6
    <3> HIDE DEF m
    <3> QED BY <1>3, <2>1, <3>1, <3>2, <3>3, WalkMoves
  <2> QED BY <2>2, <2>3
<1>8. ASSUME ExportPage PROVE WInv'
  <2> DEFINE m == PageOf(walk, ExportPageSize)
             x == [m EXCEPT !.state = "open", !.after = m.items[Len(m.items)]]
  <2>1. /\ walk.state = "open" /\ feed = "export"
        /\ walk' = IF m.items = walk.items THEN m ELSE x
        /\ UNCHANGED <<feed, rows, spent, highWater, historyId, atStart, steady>>
    BY <1>8 DEF ExportPage
  <2>2. /\ WalkOK(m, atStart, steady)
        /\ m.items # walk.items => WalkOK(x, atStart, steady)
    BY <1>1, <1>2, <1>3, <2>1, PageContinues
  <2> HIDE DEF m, x
  <2> QED BY <1>3, <2>1, <2>2, WalkMoves
<1>9. ASSUME ExportFails PROVE WInv'
  <2> DEFINE m == [walk EXCEPT !.state = "refused"]
  <2>1. walk' = m /\ feed = "export" /\ UNCHANGED <<feed, rows, spent, highWater, historyId, atStart, steady>>
    BY <1>9 DEF ExportFails
  <2>2. WalkOK(m, atStart, steady)
    BY <1>6
  <2> HIDE DEF m
  <2> QED BY <1>3, <2>1, <2>2, WalkMoves
<1> QED BY <1>4, <1>5, <1>7, <1>8, <1>9

\* Nothing happens.
LEMMA WInvStutter == ASSUME WInv, UNCHANGED pagesVars PROVE WInv'
<1>1. /\ UNCHANGED <<feed, rows, spent, highWater, historyId>>
      /\ walk' = walk /\ atStart' = atStart /\ steady' = steady
  BY DEF pagesVars
<1>2. /\ WalkOK(walk, atStart, steady) /\ OwedOK(steady)
      /\ atStart \subseteq Position /\ steady \subseteq Position
      /\ walk.state = "open" /\ walk.after = Nowhere => feed = "export"
  BY DEF WInv, PagesTypeOK
<1> QED BY <1>1, <1>2, WalkMoves

\* WInv is an invariant.
LEMMA PagesInvariant == PagesSpec => []WInv
<1>1. PagesInit => WInv
  BY WInvInit
<1>2. WInv /\ [PagesNext]_pagesVars => WInv'
  <2> SUFFICES ASSUME WInv, [PagesNext]_pagesVars PROVE WInv'
    OBVIOUS
  <2>1. CASE UNCHANGED pagesVars
    BY <2>1, WInvStutter
  <2>2. CASE PagesNext
    BY <2>2, WInvRows, WInvPages DEF PagesNext
  <2> QED BY <2>1, <2>2
<1> QED BY <1>1, <1>2, PTL DEF PagesSpec

\* A walk through the pages is exact although rows come, go and change between
\* them (traits/src/history.rs:138): in order, nothing twice, nothing from above
\* the snapshot, and at its end everything that matched from its first page on.
THEOREM WalksAreExact == PagesSpec => []WalkIsExact
<1>1. WInv => WalkIsExact
  BY DEF WInv, WalkOK, InListingOrder, Has, WalkIsExact
<1> QED BY <1>1, PagesInvariant, PTL

-----------------------------------------------------------------------------
(* The services run.  A behaviour of MCServices is one of each service, all   *)
(* but one of which stay where they start: what is proved of a service holds  *)
(* there, and what the run finds of a service is about that service alone.    *)

\* The history keeps its type.
LEMMA PagesTypesOK == PagesSpec => []PagesTypeOK
<1>1. WInv => PagesTypeOK
  BY DEF WInv
<1> QED BY <1>1, PagesInvariant, PTL

\* The capture log keeps its type, and no more transitions than its capacity
\* (capture_observations.rs).
LEMMA LogTypesOK == LogSpec => []LogTypeOK
<1>1. LInv => LogTypeOK
  BY DEF LInv
<1> QED BY <1>1, LogInvariant, PTL

\* The services share no state: a step of the whole is a step of one of them.
THEOREM ServicesAreApart ==
    ServicesSpec => /\ LogSpec /\ UiaSpec /\ TriggerSpec /\ ThrottleSpec /\ ReportSpec
                    /\ DownloadSpec /\ SessionSpec /\ PagesSpec /\ ApiSpec
<1>1. ServicesInit => /\ LogInit /\ UiaInit /\ TriggerInit /\ ThrottleInit /\ ReportInit
                      /\ DownloadInit /\ SessionInit /\ PagesInit /\ ApiInit
  BY DEF ServicesInit
<1>2. [ServicesNext]_servicesVars =>
         /\ [LogNext]_logVars /\ [UiaNext]_uiaVars /\ [TriggerNext]_triggerVars
         /\ [ThrottleNext]_throttleVars /\ [ReportNext]_reportVars /\ [DownloadNext]_downloadVars
         /\ [SessionNext]_sessionVars /\ [PagesNext]_pagesVars /\ [ApiNext]_apiVars
  BY DEF ServicesNext, servicesVars
<1> QED BY <1>1, <1>2, PTL DEF ServicesSpec, LogSpec, UiaSpec, TriggerSpec, ThrottleSpec, ReportSpec,
          DownloadSpec, SessionSpec, PagesSpec, ApiSpec

\* Every service keeps its types: the capture log within its capacity, the walk
\* and breaker counters, the triggers' instants, the receipts' attempts, the
\* download lane with its one holder, the rows of the sessions and of the
\* listings, the server's sockets.
THEOREM ServicesTypes == ServicesSpec => []ServicesTypeOK
<1>1. /\ LogTypeOK /\ UiaTypeOK /\ TriggerTypeOK /\ ThrottleTypeOK /\ ReportTypeOK
      /\ DownloadTypeOK /\ SessionTypeOK /\ PagesTypeOK /\ ApiTypeOK
      => ServicesTypeOK
  BY DEF ServicesTypeOK
<1> QED BY <1>1, ServicesAreApart, LogTypesOK, UiaTypesOK, TriggerTypesOK, ThrottleTypesOK,
          ReportTypesOK, DownloadTypesOK, SessionSafety, PagesTypesOK, ApiTypesOK, PTL
=============================================================================

----------------------------- MODULE WsManager -----------------------------
(***************************************************************************)
(* The Qobuz Connect WebSocket manager (connect/ws_manager.py).            *)
(*                                                                         *)
(* One asyncio task runs _connection_loop; `phase' is the await at which   *)
(* it is suspended.  Discovery pushes tokens, the backend may report that  *)
(* another source took the speaker, and any task may call a send method:   *)
(* they run between two awaits of the loop.  The server's SET_ACTIVE       *)
(* decides who owns playback; only the confirmed owner may report playback *)
(* state or ask the server for the next track.                             *)
(***************************************************************************)
EXTENDS Integers

CONSTANTS
  Sessions,     \* session ids the app can push
  NoSession,    \* no token received yet (_session_uuid is None)
  SendIds,      \* concurrent callers of the send methods
  MaxPushes,    \* bound: calls of set_tokens
  MaxTokens,    \* bound: distinct web socket tokens (pushed or minted)
  MaxFailures,  \* bound: network or token-service failures
  MaxMessages,  \* bound: SET_ACTIVE messages received
  MaxReleases   \* bound: takeovers by another source

ASSUME SessionAssumption == NoSession \notin Sessions
ASSUME BoundAssumption ==
  /\ MaxPushes \in Nat /\ MaxTokens \in Nat /\ MaxFailures \in Nat
  /\ MaxMessages \in Nat /\ MaxReleases \in Nat

VARIABLES
  phase,               \* the await the connection task is suspended at
  conn,                \* locals of _connect_and_run and _send_join_session
  shouldRun,           \* _should_run
  closing,             \* _close_for_token_refresh or stop is closing the socket
  isConnected,         \* _is_connected
  rendererActive,      \* _renderer_active
  activeConfirmed,     \* _active_confirmed
  externalPlayback,    \* _external_playback
  ownershipGeneration, \* _ownership_generation
  activationRequest,   \* identity of _activation_request, 0 for None
  tokenVersion,        \* _token_version
  token,               \* serial of _ws_token, 0 for None
  tokenExpired,        \* _ws_token is expired or about to be
  session,             \* _session_uuid
  sends,               \* owner-scoped sends: state reports and NEXT requests
  lockHeld,            \* a device-scoped send holds _send_lock
  heard,               \* history: the server's last SET_ACTIVE on this socket
  consumed,            \* history: activation requests carried by a sent join
  used                 \* how much of each bound has been used

flags == <<isConnected, rendererActive, activeConfirmed, externalPlayback>>
tokens == <<tokenVersion, token, tokenExpired, session>>
vars == <<phase, conn, shouldRun, closing, flags, ownershipGeneration, activationRequest,
          tokens, sends, lockHeld, heard, consumed, used>>

Phases == {"idle", "checking", "minting", "sleeping", "opening", "authenticating",
           "subscribing", "joining", "running", "leaving", "backoff", "stopped"}

\* self._ws is set from the moment the socket is open until `finally'.
SocketPhases == {"authenticating", "subscribing", "joining", "running", "leaving"}

Kinds == {"state", "next"}
Send == [stage : {"idle", "waiting", "sending"}, kind : Kinds, gen : Nat, owned : BOOLEAN]
NoSend == [stage |-> "idle", kind |-> "state", gen |-> 0, owned |-> FALSE]

Conn == [version : Nat, token : Nat, session : Sessions \cup {NoSession}, request : Nat,
         claims : BOOLEAN, retry : {"now", "backoff"}]
NoConn == [version |-> 0, token |-> 0, session |-> NoSession, request |-> 0,
           claims |-> FALSE, retry |-> "backoff"]

Usage == [tokens : Nat, failures : Nat, messages : Nat, releases : Nat]

IsRendererActive == isConnected /\ activeConfirmed /\ rendererActive

-----------------------------------------------------------------------------
Init ==
  /\ phase = "idle"
  /\ conn = NoConn
  /\ shouldRun = FALSE /\ closing = FALSE
  /\ isConnected = FALSE /\ rendererActive = FALSE
  /\ activeConfirmed = FALSE /\ externalPlayback = FALSE
  /\ ownershipGeneration = 0 /\ activationRequest = 0
  /\ tokenVersion = 0 /\ token = 0 /\ tokenExpired = FALSE /\ session = NoSession
  /\ sends = [i \in SendIds |-> NoSend]
  /\ lockHeld = FALSE
  /\ heard = "none" /\ consumed = {}
  /\ used = [tokens |-> 0, failures |-> 0, messages |-> 0, releases |-> 0]

-----------------------------------------------------------------------------
(* Shared pieces *)

\* A send that still waits for the lock was captured by an owner that no
\* longer is one; one already on the wire is not affected.
Disowned == [i \in SendIds |->
  IF sends[i].stage = "waiting" THEN [sends[i] EXCEPT !.owned = FALSE] ELSE sends[i]]

InvalidateBackwards ==                                \* mutant: the counter runs down
  /\ isConnected' = FALSE /\ activeConfirmed' = FALSE
  /\ ownershipGeneration' = ownershipGeneration - 1
  /\ sends' = Disowned

\* _invalidate_connection
Invalidate ==
  /\ isConnected' = FALSE
  /\ activeConfirmed' = FALSE
  /\ ownershipGeneration' = ownershipGeneration + 1
  /\ sends' = Disowned

\* set_tokens: the socket in use is of no use any more; ask for its end.
InvalidateOnly == Invalidate /\ UNCHANGED closing   \* mutant: the socket stays open
Reconnect == Invalidate /\ closing' = TRUE

TokenUsable == token # 0 /\ ~tokenExpired

\* The tokens the connection attempt started with were replaced.
NeverOutdated == FALSE                               \* mutant
Outdated == conn.version # tokenVersion

\* What a join that is out leaves armed: a selection made during the send.
NotSpent == activationRequest                        \* mutant
AllSpent == 0                                        \* mutant
Unspent  == IF activationRequest = conn.request THEN 0 ELSE activationRequest

\* The selection armed by a push of session s: `reconnect' tells whether the push
\* needs a new connection.
ArmedAlways(s, activate, reconnect) ==               \* mutant: a no-op attach arms
  IF activate THEN tokenVersion + 1 ELSE IF s # session THEN 0 ELSE activationRequest
Armed(s, activate, reconnect) ==
  IF activate /\ (reconnect \/ ~isConnected) THEN tokenVersion + 1
  ELSE IF s # session THEN 0 ELSE activationRequest

\* Messages are handled on a valid connection, unless another source plays.
ListensAlways == isConnected                         \* mutant
Listens == isConnected /\ ~externalPlayback

Fail == /\ used.failures < MaxFailures
        /\ used' = [used EXCEPT !.failures = @ + 1]

-----------------------------------------------------------------------------
(* Calls from discovery, the speaker and the backend *)

\* set_tokens: the app pushes a session and either the current token again or
\* a new one; `activate' marks an explicit selection of this speaker.
SetTokens(s, newToken, activate) ==
  LET changed   == newToken \/ s # session
      active    == rendererActive /\ s = session
      reconnect == changed \/ (activate /\ ~active)
  IN
  /\ tokenVersion < MaxPushes
  /\ newToken \/ token # 0
  /\ newToken => used.tokens < MaxTokens
  /\ externalPlayback' = (externalPlayback /\ ~activate)
  /\ token' = IF newToken THEN used.tokens + 1 ELSE token
  /\ tokenExpired' = (tokenExpired /\ ~newToken)
  /\ used' = IF newToken THEN [used EXCEPT !.tokens = @ + 1] ELSE used
  /\ session' = s
  /\ rendererActive' = active
  /\ tokenVersion' = tokenVersion + 1
  /\ activationRequest' = Armed(s, activate, reconnect)
  /\ IF reconnect /\ phase \in SocketPhases /\ shouldRun
     THEN Reconnect
     ELSE UNCHANGED <<isConnected, activeConfirmed, ownershipGeneration, sends, closing>>
  /\ UNCHANGED <<lockHeld, phase, conn, shouldRun, heard, consumed>>

\* start: the first tokens are in (discovery only hands over well-formed ones).
Start ==
  /\ phase = "idle" /\ token # 0
  /\ shouldRun' = TRUE
  /\ phase' = "checking"
  /\ UNCHANGED <<lockHeld, conn, closing, flags, ownershipGeneration, activationRequest, tokens,
                 sends, heard, consumed, used>>

\* stop, up to its first await: it closes the socket, if there is one.
Stop ==
  /\ shouldRun
  /\ shouldRun' = FALSE
  /\ Invalidate
  /\ activationRequest' = 0
  /\ closing' = (phase \in SocketPhases)
  /\ UNCHANGED <<lockHeld, phase, conn, rendererActive, externalPlayback, tokens, heard,
                 consumed, used>>

\* stop cancels the connection task: `finally' runs if a connection was under way.
Cancelled ==
  /\ ~shouldRun /\ phase \notin {"idle", "stopped"}
  /\ phase' = "stopped"
  /\ closing' = FALSE
  /\ IF phase \in SocketPhases \cup {"opening"}
     THEN Invalidate ELSE UNCHANGED <<isConnected, activeConfirmed, ownershipGeneration, sends>>
  /\ heard' = "none"
  /\ conn' = NoConn
  /\ UNCHANGED <<lockHeld, shouldRun, rendererActive, externalPlayback, activationRequest,
                 tokens, consumed, used>>

\* release_external_playback: another source plays on the speaker.
ReleaseExternalPlayback ==
  /\ used.releases < MaxReleases
  /\ used' = [used EXCEPT !.releases = @ + 1]
  /\ externalPlayback' = TRUE
  /\ rendererActive' = FALSE
  /\ activeConfirmed' = FALSE
  /\ activationRequest' = 0
  /\ ownershipGeneration' = ownershipGeneration + 1
  /\ sends' = Disowned
  /\ UNCHANGED <<lockHeld, phase, conn, shouldRun, closing, isConnected, tokens, heard, consumed>>

\* The current token reaches its refresh window.
TokenExpires ==
  /\ token # 0 /\ ~tokenExpired /\ used.tokens < MaxTokens
  /\ tokenExpired' = TRUE
  /\ UNCHANGED <<lockHeld, phase, conn, shouldRun, closing, flags, ownershipGeneration,
                 activationRequest, tokenVersion, token, session, sends, heard, consumed, used>>

-----------------------------------------------------------------------------
(* The connection task *)

\* Open the socket with the token in hand; remember the version it belongs to.
BeginConnect ==
  /\ phase' = "opening"
  /\ conn' = [conn EXCEPT !.version = tokenVersion]

\* Top of _connection_loop and of _wait_for_valid_token.
CheckToken ==
  /\ phase = "checking"
  /\ \/ /\ ~shouldRun
        /\ phase' = "stopped" /\ UNCHANGED conn
     \/ /\ shouldRun /\ TokenUsable
        /\ BeginConnect
     \/ /\ shouldRun /\ ~TokenUsable
        /\ phase' = "minting" /\ UNCHANGED conn
  /\ UNCHANGED <<lockHeld, shouldRun, closing, flags, ownershipGeneration, activationRequest, tokens,
                 sends, heard, consumed, used>>

\* The token refresher answers with a fresh token: it replaces the one in hand,
\* even one the app pushed meanwhile, and does not change the token version.
MintSucceeds ==
  /\ phase = "minting"
  /\ used' = [used EXCEPT !.tokens = @ + 1]
  /\ token' = used.tokens + 1
  /\ tokenExpired' = FALSE
  /\ BeginConnect
  /\ UNCHANGED <<lockHeld, shouldRun, closing, flags, ownershipGeneration, activationRequest,
                 tokenVersion, session, sends, heard, consumed>>

MintFails ==
  /\ phase = "minting" /\ Fail
  /\ phase' = "sleeping"
  /\ UNCHANGED <<lockHeld, conn, shouldRun, closing, flags, ownershipGeneration, activationRequest,
                 tokens, sends, heard, consumed>>

\* The retry timer fires, set_tokens sets the event, or a backoff delay ends.
Wake ==
  /\ phase \in {"sleeping", "backoff"}
  /\ phase' = "checking"
  /\ UNCHANGED <<lockHeld, conn, shouldRun, closing, flags, ownershipGeneration, activationRequest,
                 tokens, sends, heard, consumed, used>>

\* The socket is open: _authenticate sends the current token.
Opened ==
  /\ phase = "opening"
  /\ phase' = "authenticating"
  /\ conn' = [conn EXCEPT !.token = token]
  /\ UNCHANGED <<lockHeld, shouldRun, closing, flags, ownershipGeneration, activationRequest, tokens,
                 sends, heard, consumed, used>>

\* _subscribe names the current session.
Authenticated ==
  /\ phase = "authenticating"
  /\ phase' = "subscribing"
  /\ conn' = [conn EXCEPT !.session = session]
  /\ UNCHANGED <<lockHeld, shouldRun, closing, flags, ownershipGeneration, activationRequest, tokens,
                 sends, heard, consumed, used>>

\* The context manager closes the socket before `finally' runs.
Leave(retry) ==
  /\ phase' = "leaving"
  /\ conn' = [conn EXCEPT !.retry = retry]

\* Tokens changed during the handshake: TokenRefreshRequired.
HandshakeOutdated ==
  /\ phase = "subscribing" /\ Outdated
  /\ Leave("now")
  /\ UNCHANGED <<lockHeld, shouldRun, closing, flags, ownershipGeneration, activationRequest, tokens,
                 sends, heard, consumed, used>>

\* _send_join_session, up to the send: whether to claim playback is decided here.
StartJoin ==
  /\ phase = "subscribing" /\ ~Outdated
  /\ phase' = "joining"
  /\ conn' = [conn EXCEPT !.request = activationRequest,
                          !.claims = activationRequest # 0 \/ rendererActive]
  /\ activeConfirmed' = FALSE
  /\ UNCHANGED <<lockHeld, shouldRun, closing, isConnected, rendererActive, externalPlayback,
                 ownershipGeneration, activationRequest, tokens, sends, heard, consumed, used>>

\* The join frame is out.  A selection it carried is spent; one that arrived
\* during the send is kept.  Tokens that changed meanwhile force a reconnect.
JoinSent ==
  /\ phase = "joining"
  /\ activationRequest' = Unspent
  /\ consumed' = IF conn.request = 0 THEN consumed ELSE consumed \cup {conn.request}
  /\ IF Outdated
     THEN Leave("now") /\ UNCHANGED isConnected
     ELSE /\ isConnected' = TRUE
          /\ IF shouldRun THEN phase' = "running" /\ UNCHANGED conn ELSE Leave("now")
  /\ UNCHANGED <<lockHeld, shouldRun, closing, rendererActive, activeConfirmed, externalPlayback,
                 ownershipGeneration, tokens, sends, heard, used>>

\* _check_token_refresh: the token is about to expire and the session is quiet.
RefreshWhenIdle ==
  /\ phase = "running" /\ tokenExpired
  /\ Leave("now")
  /\ UNCHANGED <<lockHeld, shouldRun, closing, flags, ownershipGeneration, activationRequest, tokens,
                 sends, heard, consumed, used>>

\* A send or receive fails: closed by the server or the network ...
ConnectionLost ==
  /\ phase \in SocketPhases \ {"leaving"} /\ Fail
  /\ Leave("backoff")
  /\ UNCHANGED <<lockHeld, shouldRun, closing, flags, ownershipGeneration, activationRequest, tokens,
                 sends, heard, consumed>>

\* ... or by _close_for_token_refresh or stop.
ClosedForRefresh ==
  /\ phase \in SocketPhases \ {"leaving"} /\ closing
  /\ Leave("backoff")
  /\ UNCHANGED <<lockHeld, shouldRun, closing, flags, ownershipGeneration, activationRequest, tokens,
                 sends, heard, consumed, used>>

OpenFails ==
  /\ phase = "opening" /\ Fail
  /\ Invalidate
  /\ phase' = "backoff"
  /\ conn' = NoConn
  /\ UNCHANGED <<lockHeld, shouldRun, closing, rendererActive, externalPlayback,
                 activationRequest, tokens, heard, consumed>>

\* `finally' of _connect_and_run.
Left ==
  /\ phase = "leaving"
  /\ Invalidate
  /\ phase' = IF ~shouldRun THEN "stopped"
              ELSE IF conn.retry = "now" THEN "checking" ELSE "backoff"
  /\ closing' = FALSE
  /\ heard' = "none"
  /\ conn' = NoConn
  /\ UNCHANGED <<lockHeld, shouldRun, rendererActive, externalPlayback, activationRequest,
                 tokens, consumed, used>>

\* _handle_payload, SET_ACTIVE: ownership is recorded before any handler runs;
\* nothing is recorded on an invalidated connection or during a takeover.
ReceiveSetActive(active) ==
  /\ phase = "running" /\ used.messages < MaxMessages
  /\ used' = [used EXCEPT !.messages = @ + 1]
  /\ heard' = IF active THEN "active" ELSE "inactive"
  /\ IF Listens
     THEN /\ rendererActive' = active
          /\ activeConfirmed' = TRUE
          /\ ownershipGeneration' = ownershipGeneration + 1
          /\ sends' = IF active THEN sends ELSE Disowned
     ELSE UNCHANGED <<rendererActive, activeConfirmed, ownershipGeneration, sends>>
  /\ UNCHANGED <<lockHeld, phase, conn, shouldRun, closing, isConnected, externalPlayback,
                 activationRequest, tokens, consumed>>

-----------------------------------------------------------------------------
(* Send methods: encode and transmit under _send_lock *)

LockFree == ~lockHeld /\ \A i \in SendIds : sends[i].stage # "sending"
Queued   == \E i \in SendIds : sends[i].stage = "waiting"

AllowedNow(kind, gen, needed) ==                     \* mutant: no ownership generation
  IsRendererActive /\ (kind = "next" => needed)

\* The checks made under the lock; `needed' is the player's still_needed().
Allowed(kind, gen, needed) ==
  /\ IsRendererActive /\ gen = ownershipGeneration
  /\ kind = "next" => needed

\* send_state_update and request_next_track: capture the ownership generation,
\* then take the lock at once if nobody holds or wants it.
StartSend(i, kind, needed) ==
  /\ sends[i].stage = "idle"
  /\ LET op == [stage |-> "waiting", kind |-> kind, gen |-> ownershipGeneration,
                owned |-> isConnected /\ heard = "active" /\ ~externalPlayback]
     IN sends' = [sends EXCEPT ![i] =
          IF ~LockFree \/ Queued THEN op
          ELSE IF Allowed(kind, op.gen, needed) THEN [op EXCEPT !.stage = "sending"]
          ELSE NoSend]
  /\ UNCHANGED <<phase, conn, shouldRun, closing, flags, ownershipGeneration,
                 activationRequest, tokens, lockHeld, heard, consumed, used>>

\* A waiter gets the lock: what it captured is compared with the present.
TakeSendLock(i, needed) ==
  /\ sends[i].stage = "waiting" /\ LockFree
  /\ sends' = [sends EXCEPT ![i] =
       IF Allowed(@.kind, @.gen, needed) THEN [@ EXCEPT !.stage = "sending"] ELSE NoSend]
  /\ UNCHANGED <<phase, conn, shouldRun, closing, flags, ownershipGeneration,
                 activationRequest, tokens, lockHeld, heard, consumed, used>>

\* The socket took the frame, or the send raised.
FinishSend(i) ==
  /\ sends[i].stage = "sending"
  /\ sends' = [sends EXCEPT ![i] = NoSend]
  /\ UNCHANGED <<phase, conn, shouldRun, closing, flags, ownershipGeneration,
                 activationRequest, tokens, lockHeld, heard, consumed, used>>

\* The device-scoped sends (volume, quality) need only a connection: what matters
\* of them is that a slow socket makes them hold the lock.
DeviceSend ==
  /\ \/ isConnected /\ LockFree /\ lockHeld' = TRUE
     \/ lockHeld /\ lockHeld' = FALSE
  /\ UNCHANGED <<phase, conn, shouldRun, closing, flags, ownershipGeneration,
                 activationRequest, tokens, sends, heard, consumed, used>>

-----------------------------------------------------------------------------
\* Steps of the connection task that need nothing but the event loop, a
\* reachable server and a token service that answers.
Progress ==
  \/ CheckToken \/ MintSucceeds \/ Wake \/ Opened \/ Authenticated
  \/ HandshakeOutdated \/ StartJoin \/ JoinSent \/ ClosedForRefresh \/ Left

Environment ==
  \/ \E s \in Sessions, newToken, activate \in BOOLEAN : SetTokens(s, newToken, activate)
  \/ ReleaseExternalPlayback
  \/ TokenExpires

Senders ==
  \E i \in SendIds :
    \/ \E kind \in Kinds, needed \in BOOLEAN : StartSend(i, kind, needed)
    \/ \E needed \in BOOLEAN : TakeSendLock(i, needed)
    \/ FinishSend(i)

\* Everything but the messages of the server.
Transport ==
  \/ Start \/ Stop \/ Cancelled
  \/ Progress \/ MintFails \/ RefreshWhenIdle \/ ConnectionLost \/ OpenFails
  \/ Environment
  \/ Senders \/ DeviceSend

Next == Transport \/ \E active \in BOOLEAN : ReceiveSetActive(active)

Spec == Init /\ [][Next]_vars /\ WF_vars(Progress)

-----------------------------------------------------------------------------
(* Properties *)

TypeOK ==
  /\ phase \in Phases
  /\ conn \in Conn
  /\ shouldRun \in BOOLEAN /\ closing \in BOOLEAN
  /\ isConnected \in BOOLEAN /\ rendererActive \in BOOLEAN
  /\ activeConfirmed \in BOOLEAN /\ externalPlayback \in BOOLEAN
  /\ ownershipGeneration \in Nat /\ activationRequest \in Nat
  /\ tokenVersion \in Nat /\ token \in Nat /\ tokenExpired \in BOOLEAN
  /\ session \in Sessions \cup {NoSession}
  /\ sends \in [SendIds -> Send]
  /\ lockHeld \in BOOLEAN
  /\ heard \in {"none", "active", "inactive"}
  /\ consumed \subseteq Nat
  /\ used \in Usage

\* A playback report or a NEXT request that reached the wire was captured by the
\* confirmed owner, and ownership was never interrupted while it waited for the
\* send lock: not by a deactivation that was followed by a new activation, a
\* reconnect or a takeover (ws_manager.py send_state_update, request_next_track).
OnlyTheOwnerReports ==
  \A i \in SendIds :
    sends[i].stage = "sending" => sends[i].owned

\* An established connection was authenticated with the token in hand and joined
\* the session in hand, however set_tokens interleaved with the handshake.
ConnectedToCurrentSession ==
  isConnected /\ shouldRun => conn.session = session /\ conn.token = token

\* No explicit selection stays armed once a connection is established: it could
\* claim playback at a later reconnect, after another speaker was selected.
NoArmedTakeover == isConnected /\ shouldRun => activationRequest = 0

\* A selection is carried by at most one join that reached the server
\* (_send_join_session clears it only when the frame is out).
SelectionSpentOnce ==
  phase = "joining" /\ conn.request # 0 => conn.request \notin consumed

\* While another source plays, no join claims playback and nothing the cloud says
\* makes this renderer the owner, until an explicit selection arrives.
ExternalStaysPassive ==
  [][externalPlayback =>
       /\ phase # "joining" /\ phase' = "joining" => ~conn'.claims
       /\ externalPlayback' => ~IsRendererActive']_vars

\* A selection is not lost: a join that carries it is sent, whatever fails on the
\* way, unless a newer selection, another session, a takeover or stop replaced it.
SelectionReachesServer ==
  \A r \in 1..MaxPushes, s \in Sessions :
    (shouldRun /\ activationRequest = r /\ session = s)
      ~> (r \in consumed \/ activationRequest > r \/ session # s
          \/ externalPlayback \/ ~shouldRun)

\* Token pushes, refreshes, expiry and failures never leave the manager off line
\* for good.
AlwaysReconnects == []<>(isConnected \/ ~shouldRun)
=============================================================================

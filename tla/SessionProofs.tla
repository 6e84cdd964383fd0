--------------------------- MODULE SessionProofs ---------------------------
(***************************************************************************)
(* Proofs about WsManager and Session, for every bound and every set of    *)
(* sessions, senders and commands.  IndInv strengthens WsManager's safety  *)
(* properties until each step preserves it; Session's invariant adds what  *)
(* the message tasks recorded when they were created.                      *)
(***************************************************************************)
EXTENDS Session, TLAPS

-----------------------------------------------------------------------------
(***************************************************************************)
(* The WebSocket manager.                                                  *)
(***************************************************************************)
\* A connection counts only after its join, ownership only on a connection.
Connection ==
  /\ isConnected => phase \in {"running", "leaving"}
  /\ activeConfirmed => isConnected
  /\ phase = "joining" => ~isConnected
  /\ shouldRun => phase # "idle"

\* Ownership recorded here is what the server said last, and never survives a
\* takeover, which also disarms any selection.
Ownership ==
  /\ IsRendererActive => heard = "active"
  /\ externalPlayback => ~rendererActive /\ ~activeConfirmed /\ activationRequest = 0

\* What a queued send captured: only the current generation can still be sent,
\* and only its owner captured it.
Captured ==
  \A i \in SendIds :
    /\ sends[i].gen <= ownershipGeneration
    /\ sends[i].stage = "sending" => sends[i].owned
    /\ sends[i].stage = "waiting" /\ sends[i].gen = ownershipGeneration /\ IsRendererActive
         => sends[i].owned

\* What the handshake used is current as long as the token version is.
Handshake ==
  /\ conn.version <= tokenVersion
  /\ phase \in {"authenticating", "subscribing", "joining"} /\ ~Outdated
       => conn.token = token
  /\ phase \in {"subscribing", "joining"} /\ ~Outdated => conn.session = session
  /\ phase = "joining" /\ ~Outdated => activationRequest \in {0, conn.request}

\* Selections are numbered by token version: an armed one was never sent.
Selections ==
  /\ activationRequest <= tokenVersion /\ conn.request <= tokenVersion
  /\ \A r \in consumed : r <= tokenVersion
  /\ activationRequest # 0 => activationRequest \notin consumed

IndInv ==
  /\ TypeOK /\ Connection /\ Ownership /\ Captured /\ Handshake /\ Selections
  /\ ConnectedToCurrentSession /\ NoArmedTakeover /\ SelectionSpentOnce

\* Revoking the ownership of the queued sends keeps their types.
LEMMA DisownedType ==
  ASSUME sends \in [SendIds -> Send]
  PROVE  Disowned \in [SendIds -> Send]
BY DEF Disowned, Send

\* What _invalidate_connection assigns keeps its types.
LEMMA InvalidateType ==
  ASSUME TypeOK, Invalidate
  PROVE  /\ isConnected' \in BOOLEAN /\ activeConfirmed' \in BOOLEAN
         /\ ownershipGeneration' \in Nat /\ sends' \in [SendIds -> Send]
<1>1. isConnected' \in BOOLEAN /\ activeConfirmed' \in BOOLEAN
  BY DEF Invalidate
<1>2. ownershipGeneration' \in Nat /\ sends' \in [SendIds -> Send]
  BY DisownedType DEF TypeOK, Conn, Usage, Invalidate
<1>3. QED
  BY <1>1, <1>2

\* Counting a use of a bound keeps the type of the counters.
LEMMA UsedType ==
  ASSUME TypeOK
  PROVE  /\ [used EXCEPT !.tokens = @ + 1] \in Usage
         /\ [used EXCEPT !.failures = @ + 1] \in Usage
         /\ [used EXCEPT !.messages = @ + 1] \in Usage
         /\ [used EXCEPT !.releases = @ + 1] \in Usage
         /\ used.tokens + 1 \in Nat
BY DEF TypeOK, Conn, Usage

\* Every step keeps the types.
LEMMA TypeStep ==
  ASSUME TypeOK, [Next]_vars
  PROVE  TypeOK'
<1>1. CASE Start
  BY <1>1 DEF TypeOK, Conn, Usage, Phases, NoSend, NoConn, Start, flags, tokens
<1>2. CASE Stop
  <2>1. /\ isConnected' \in BOOLEAN /\ activeConfirmed' \in BOOLEAN
       /\ ownershipGeneration' \in Nat /\ sends' \in [SendIds -> Send]
    BY <1>2, InvalidateType DEF Stop
  <2>2. shouldRun' \in BOOLEAN
    BY <1>2 DEF Stop
  <2>3. closing' \in BOOLEAN
    BY <1>2 DEF Stop
  <2>4. QED
    BY <1>2, <2>1, <2>2, <2>3 DEF TypeOK, Conn, Usage, Phases, NoSend, NoConn, Stop, flags, tokens
<1>3. CASE Cancelled
  BY <1>3, InvalidateType DEF TypeOK, Conn, Usage, Phases, NoSend, NoConn, Cancelled, SocketPhases,
     flags, tokens
<1>4. CASE CheckToken
  BY <1>4 DEF TypeOK, Conn, Usage, Phases, NoSend, NoConn, CheckToken, BeginConnect, flags, tokens
<1>5. CASE MintSucceeds
  <2>1. token' \in Nat
    BY <1>5, UsedType DEF TypeOK, Conn, Usage, MintSucceeds
  <2>2. used' \in Usage
    BY <1>5, UsedType DEF TypeOK, Conn, Usage, MintSucceeds
  <2>3. conn' \in Conn
    BY <1>5 DEF TypeOK, Conn, Usage, MintSucceeds, BeginConnect
  <2>4. /\ phase' \in Phases /\ tokenVersion' \in Nat /\ tokenExpired' \in BOOLEAN
        /\ UNCHANGED <<lockHeld, shouldRun, closing, flags, ownershipGeneration, activationRequest,
                      tokenVersion, session, sends, heard, consumed>>
    BY <1>5 DEF TypeOK, Phases, MintSucceeds, BeginConnect
  <2>5. QED
    BY <2>1, <2>2, <2>3, <2>4 DEF TypeOK, flags
<1>6. CASE Wake
  BY <1>6 DEF TypeOK, Conn, Usage, Phases, NoSend, NoConn, Wake, flags, tokens
<1>7. CASE Opened
  BY <1>7 DEF TypeOK, Conn, Usage, Phases, NoSend, NoConn, Opened, flags, tokens
<1>8. CASE Authenticated
  BY <1>8 DEF TypeOK, Conn, Usage, Phases, NoSend, NoConn, Authenticated, flags, tokens
<1>9. CASE HandshakeOutdated
  BY <1>9 DEF TypeOK, Conn, Usage, Phases, NoSend, NoConn, HandshakeOutdated, Leave, Outdated, flags,
     tokens
<1>10. CASE StartJoin
  BY <1>10 DEF TypeOK, Conn, Usage, Phases, NoSend, NoConn, StartJoin, Outdated, flags, tokens
<1>11. CASE JoinSent
  <2>1. activationRequest' \in Nat
    BY <1>11 DEF TypeOK, Conn, JoinSent, Unspent
  <2>2. consumed' \subseteq Nat
    BY <1>11 DEF TypeOK, Conn, JoinSent
  <2>3. conn' \in Conn /\ phase' \in Phases /\ isConnected' \in BOOLEAN
    BY <1>11 DEF TypeOK, Conn, Phases, JoinSent, Leave
  <2>4. UNCHANGED <<lockHeld, shouldRun, closing, rendererActive, activeConfirmed, externalPlayback,
                    ownershipGeneration, tokens, sends, heard, used>>
    BY <1>11 DEF JoinSent
  <2>5. QED
    BY <2>1, <2>2, <2>3, <2>4 DEF TypeOK, tokens
<1>12. CASE ClosedForRefresh
  BY <1>12 DEF TypeOK, Conn, Usage, Phases, NoSend, NoConn, ClosedForRefresh, Leave, SocketPhases,
     flags, tokens
<1>13. CASE Left
  BY <1>13, InvalidateType DEF TypeOK, Conn, Usage, Phases, NoSend, NoConn, Left, flags, tokens
<1>14. CASE MintFails
  BY <1>14 DEF TypeOK, Conn, Usage, Phases, NoSend, NoConn, MintFails, Fail, flags, tokens
<1>15. CASE RefreshWhenIdle
  BY <1>15 DEF TypeOK, Conn, Usage, Phases, NoSend, NoConn, RefreshWhenIdle, Leave, flags, tokens
<1>16. CASE ConnectionLost
  BY <1>16 DEF TypeOK, Conn, Usage, Phases, NoSend, NoConn, ConnectionLost, Leave, Fail, SocketPhases,
     flags, tokens
<1>17. CASE OpenFails
  <2>1. used' \in Usage
    BY <1>17, UsedType DEF OpenFails, Fail
  <2>2. /\ isConnected' \in BOOLEAN /\ activeConfirmed' \in BOOLEAN
       /\ ownershipGeneration' \in Nat /\ sends' \in [SendIds -> Send]
    BY <1>17, InvalidateType DEF OpenFails
  <2>3. QED
    BY <1>17, <2>1, <2>2 DEF TypeOK, Conn, Usage, Phases, NoSend, NoConn, OpenFails, flags, tokens
<1>18. ASSUME NEW s \in Sessions, NEW newToken \in BOOLEAN, NEW activate \in BOOLEAN,
             SetTokens(s, newToken, activate)
      PROVE  TypeOK'
  <2>1. used' \in Usage /\ token' \in Nat
    BY <1>18, UsedType DEF TypeOK, Conn, Usage, SetTokens
  <2>2. /\ isConnected' \in BOOLEAN /\ activeConfirmed' \in BOOLEAN
       /\ ownershipGeneration' \in Nat /\ sends' \in [SendIds -> Send]
       /\ closing' \in BOOLEAN
    BY <1>18, InvalidateType DEF TypeOK, Conn, Usage, SetTokens, Reconnect
  <2>3. tokenVersion' \in Nat /\ activationRequest' \in Nat
    BY <1>18 DEF TypeOK, Conn, Usage, SetTokens, Armed
  <2>4. QED
    BY <1>18, <2>1, <2>2, <2>3 DEF TypeOK, Conn, Usage, Phases, NoSend, NoConn, SetTokens, flags, tokens
<1>19. CASE ReleaseExternalPlayback
  <2>1. used' \in Usage
    BY <1>19, UsedType DEF ReleaseExternalPlayback
  <2>2. ownershipGeneration' \in Nat /\ sends' \in [SendIds -> Send]
    BY <1>19, DisownedType DEF TypeOK, Conn, Usage, ReleaseExternalPlayback
  <2>3. /\ externalPlayback' \in BOOLEAN /\ rendererActive' \in BOOLEAN
       /\ activeConfirmed' \in BOOLEAN
    BY <1>19 DEF ReleaseExternalPlayback
  <2>4. QED
    BY <1>19, <2>1, <2>2, <2>3 DEF TypeOK, Conn, Usage, Phases, NoSend, NoConn,
       ReleaseExternalPlayback, flags, tokens
<1>20. CASE TokenExpires
  BY <1>20 DEF TypeOK, Conn, Usage, Phases, NoSend, NoConn, TokenExpires, flags, tokens
<1>21. ASSUME NEW active \in BOOLEAN, ReceiveSetActive(active)
      PROVE  TypeOK'
  <2>1. used' \in Usage
    BY <1>21, UsedType DEF ReceiveSetActive
  <2>2. ownershipGeneration' \in Nat /\ sends' \in [SendIds -> Send]
    BY <1>21, DisownedType DEF TypeOK, Conn, Usage, ReceiveSetActive
  <2>3. rendererActive' \in BOOLEAN /\ activeConfirmed' \in BOOLEAN
    BY <1>21 DEF TypeOK, Conn, Usage, ReceiveSetActive
  <2>4. QED
    BY <1>21, <2>1, <2>2, <2>3 DEF TypeOK, Conn, Usage, Phases, NoSend, NoConn, ReceiveSetActive,
       flags, tokens
<1>22. ASSUME NEW i \in SendIds, NEW kind \in Kinds, NEW needed \in BOOLEAN,
             StartSend(i, kind, needed)
      PROVE  TypeOK'
  BY <1>22 DEF TypeOK, Conn, Usage, Phases, NoSend, NoConn, StartSend, Allowed, LockFree, Queued,
     IsRendererActive, Send, Kinds, flags, tokens
<1>23. ASSUME NEW i \in SendIds, NEW needed \in BOOLEAN, TakeSendLock(i, needed)
      PROVE  TypeOK'
  BY <1>23 DEF TypeOK, Conn, Usage, Phases, NoSend, NoConn, TakeSendLock, Allowed, LockFree,
     IsRendererActive, Send, Kinds, flags, tokens
<1>24. ASSUME NEW i \in SendIds, FinishSend(i)
      PROVE  TypeOK'
  BY <1>24 DEF TypeOK, Conn, Usage, Phases, NoSend, NoConn, FinishSend, Send, Kinds, flags, tokens
<1>25. CASE DeviceSend
  <2>1. lockHeld' \in BOOLEAN
    BY <1>25 DEF DeviceSend
  <2>2. QED
    BY <1>25, <2>1 DEF TypeOK, Conn, Usage, Phases, NoSend, NoConn, DeviceSend, flags, tokens
<1>26. CASE UNCHANGED vars
  BY <1>26 DEF TypeOK, Conn, Usage, Phases, NoSend, NoConn, vars, flags, tokens
<1>27. QED
  BY <1>1, <1>2, <1>3, <1>4, <1>5, <1>6, <1>7, <1>8, <1>9, <1>10, <1>11, <1>12, <1>13,
     <1>14, <1>15, <1>16, <1>17, <1>18, <1>19, <1>20, <1>21, <1>22, <1>23, <1>24, <1>25,
     <1>26 DEF Next, Transport, Progress, Environment, Senders

\* The connection flags follow the phase.
LEMMA ConnectionStep ==
  ASSUME TypeOK, Connection, [Next]_vars
  PROVE  Connection'
<1>1. CASE Start
  BY <1>1 DEF TypeOK, Conn, Usage, Connection, SocketPhases, Start, flags, tokens
<1>2. CASE Stop
  BY <1>2 DEF TypeOK, Conn, Usage, Connection, SocketPhases, Stop, Invalidate, flags, tokens
<1>3. CASE Cancelled
  BY <1>3 DEF TypeOK, Conn, Usage, Connection, SocketPhases, Cancelled, Invalidate, flags, tokens
<1>4. CASE CheckToken
  BY <1>4 DEF TypeOK, Conn, Usage, Connection, SocketPhases, CheckToken, BeginConnect, flags, tokens
<1>5. CASE MintSucceeds
  BY <1>5 DEF TypeOK, Conn, Usage, Connection, SocketPhases, MintSucceeds, BeginConnect, flags, tokens
<1>6. CASE Wake
  BY <1>6 DEF TypeOK, Conn, Usage, Connection, SocketPhases, Wake, flags, tokens
<1>7. CASE Opened
  BY <1>7 DEF TypeOK, Conn, Usage, Connection, SocketPhases, Opened, flags, tokens
<1>8. CASE Authenticated
  BY <1>8 DEF TypeOK, Conn, Usage, Connection, SocketPhases, Authenticated, flags, tokens
<1>9. CASE HandshakeOutdated
  BY <1>9 DEF TypeOK, Conn, Usage, Connection, SocketPhases, HandshakeOutdated, Leave, Outdated, flags,
     tokens
<1>10. CASE StartJoin
  BY <1>10 DEF TypeOK, Conn, Usage, Connection, SocketPhases, StartJoin, Outdated, flags, tokens
<1>11. CASE JoinSent
  BY <1>11 DEF TypeOK, Conn, Usage, Connection, SocketPhases, JoinSent, Outdated, Leave, Unspent,
     flags, tokens
<1>12. CASE ClosedForRefresh
  BY <1>12 DEF TypeOK, Conn, Usage, Connection, SocketPhases, ClosedForRefresh, Leave, flags, tokens
<1>13. CASE Left
  BY <1>13 DEF TypeOK, Conn, Usage, Connection, SocketPhases, Left, Invalidate, flags, tokens
<1>14. CASE MintFails
  BY <1>14 DEF TypeOK, Conn, Usage, Connection, SocketPhases, MintFails, Fail, flags, tokens
<1>15. CASE RefreshWhenIdle
  BY <1>15 DEF TypeOK, Conn, Usage, Connection, SocketPhases, RefreshWhenIdle, Leave, flags, tokens
<1>16. CASE ConnectionLost
  BY <1>16 DEF TypeOK, Conn, Usage, Connection, SocketPhases, ConnectionLost, Leave, Fail, flags, tokens
<1>17. CASE OpenFails
  BY <1>17 DEF TypeOK, Conn, Usage, Connection, SocketPhases, OpenFails, Fail, Invalidate, flags, tokens
<1>18. ASSUME NEW s \in Sessions, NEW newToken \in BOOLEAN, NEW activate \in BOOLEAN,
             SetTokens(s, newToken, activate)
      PROVE  Connection'
  BY <1>18 DEF TypeOK, Conn, Usage, Connection, SocketPhases, SetTokens, Reconnect, Invalidate, Armed,
     flags, tokens
<1>19. CASE ReleaseExternalPlayback
  BY <1>19 DEF TypeOK, Conn, Usage, Connection, SocketPhases, ReleaseExternalPlayback, flags, tokens
<1>20. CASE TokenExpires
  BY <1>20 DEF TypeOK, Conn, Usage, Connection, SocketPhases, TokenExpires, flags, tokens
<1>21. ASSUME NEW active \in BOOLEAN, ReceiveSetActive(active)
      PROVE  Connection'
  BY <1>21 DEF TypeOK, Conn, Usage, Connection, SocketPhases, ReceiveSetActive, Listens, flags, tokens
<1>22. ASSUME NEW i \in SendIds, NEW kind \in Kinds, NEW needed \in BOOLEAN,
             StartSend(i, kind, needed)
      PROVE  Connection'
  BY <1>22 DEF TypeOK, Conn, Usage, Connection, SocketPhases, StartSend, Allowed, LockFree, Queued,
     IsRendererActive, flags, tokens
<1>23. ASSUME NEW i \in SendIds, NEW needed \in BOOLEAN, TakeSendLock(i, needed)
      PROVE  Connection'
  BY <1>23 DEF TypeOK, Conn, Usage, Connection, SocketPhases, TakeSendLock, Allowed, LockFree,
     IsRendererActive, flags, tokens
<1>24. ASSUME NEW i \in SendIds, FinishSend(i)
      PROVE  Connection'
  BY <1>24 DEF TypeOK, Conn, Usage, Connection, SocketPhases, FinishSend, flags, tokens
<1>25. CASE DeviceSend
  BY <1>25 DEF TypeOK, Conn, Usage, Connection, SocketPhases, DeviceSend, flags, tokens
<1>26. CASE UNCHANGED vars
  BY <1>26 DEF TypeOK, Conn, Usage, Connection, SocketPhases, vars, flags, tokens
<1>27. QED
  BY <1>1, <1>2, <1>3, <1>4, <1>5, <1>6, <1>7, <1>8, <1>9, <1>10, <1>11, <1>12, <1>13,
     <1>14, <1>15, <1>16, <1>17, <1>18, <1>19, <1>20, <1>21, <1>22, <1>23, <1>24, <1>25,
     <1>26 DEF Next, Transport, Progress, Environment, Senders

\* Ownership follows the server's last word, and a takeover ends it.
LEMMA OwnershipStep ==
  ASSUME TypeOK, Connection, Ownership, [Next]_vars
  PROVE  Ownership'
<1>1. CASE Start
  BY <1>1 DEF TypeOK, Conn, Usage, Connection, Ownership, IsRendererActive, SocketPhases, Start, flags,
     tokens
<1>2. CASE Stop
  BY <1>2 DEF TypeOK, Conn, Usage, Connection, Ownership, IsRendererActive, SocketPhases, Stop,
     Invalidate, flags, tokens
<1>3. CASE Cancelled
  BY <1>3 DEF TypeOK, Conn, Usage, Connection, Ownership, IsRendererActive, SocketPhases, Cancelled,
     Invalidate, flags, tokens
<1>4. CASE CheckToken
  BY <1>4 DEF TypeOK, Conn, Usage, Connection, Ownership, IsRendererActive, SocketPhases, CheckToken,
     BeginConnect, flags, tokens
<1>5. CASE MintSucceeds
  BY <1>5 DEF TypeOK, Conn, Usage, Connection, Ownership, IsRendererActive, SocketPhases, MintSucceeds,
     BeginConnect, flags, tokens
<1>6. CASE Wake
  BY <1>6 DEF TypeOK, Conn, Usage, Connection, Ownership, IsRendererActive, SocketPhases, Wake, flags,
     tokens
<1>7. CASE Opened
  BY <1>7 DEF TypeOK, Conn, Usage, Connection, Ownership, IsRendererActive, SocketPhases, Opened,
     flags, tokens
<1>8. CASE Authenticated
  BY <1>8 DEF TypeOK, Conn, Usage, Connection, Ownership, IsRendererActive, SocketPhases,
     Authenticated, flags, tokens
<1>9. CASE HandshakeOutdated
  BY <1>9 DEF TypeOK, Conn, Usage, Connection, Ownership, IsRendererActive, SocketPhases,
     HandshakeOutdated, Leave, Outdated, flags, tokens
<1>10. CASE StartJoin
  BY <1>10 DEF TypeOK, Conn, Usage, Connection, Ownership, IsRendererActive, SocketPhases, StartJoin,
     Outdated, flags, tokens
<1>11. CASE JoinSent
  BY <1>11 DEF TypeOK, Conn, Usage, Connection, Ownership, IsRendererActive, SocketPhases, JoinSent,
     Outdated, Leave, Unspent, flags, tokens
<1>12. CASE ClosedForRefresh
  BY <1>12 DEF TypeOK, Conn, Usage, Connection, Ownership, IsRendererActive, SocketPhases,
     ClosedForRefresh, Leave, flags, tokens
<1>13. CASE Left
  BY <1>13 DEF TypeOK, Conn, Usage, Connection, Ownership, IsRendererActive, SocketPhases, Left,
     Invalidate, flags, tokens
<1>14. CASE MintFails
  BY <1>14 DEF TypeOK, Conn, Usage, Connection, Ownership, IsRendererActive, SocketPhases, MintFails,
     Fail, flags, tokens
<1>15. CASE RefreshWhenIdle
  BY <1>15 DEF TypeOK, Conn, Usage, Connection, Ownership, IsRendererActive, SocketPhases,
     RefreshWhenIdle, Leave, flags, tokens
<1>16. CASE ConnectionLost
  BY <1>16 DEF TypeOK, Conn, Usage, Connection, Ownership, IsRendererActive, SocketPhases,
     ConnectionLost, Leave, Fail, flags, tokens
<1>17. CASE OpenFails
  BY <1>17 DEF TypeOK, Conn, Usage, Connection, Ownership, IsRendererActive, SocketPhases, OpenFails,
     Fail, Invalidate, flags, tokens
<1>18. ASSUME NEW s \in Sessions, NEW newToken \in BOOLEAN, NEW activate \in BOOLEAN,
             SetTokens(s, newToken, activate)
      PROVE  Ownership'
  BY <1>18 DEF TypeOK, Conn, Usage, Connection, Ownership, IsRendererActive, SocketPhases, SetTokens,
     Reconnect, Invalidate, Armed, flags, tokens
<1>19. CASE ReleaseExternalPlayback
  BY <1>19 DEF TypeOK, Conn, Usage, Connection, Ownership, IsRendererActive, SocketPhases,
     ReleaseExternalPlayback, flags, tokens
<1>20. CASE TokenExpires
  BY <1>20 DEF TypeOK, Conn, Usage, Connection, Ownership, IsRendererActive, SocketPhases,
     TokenExpires, flags, tokens
<1>21. ASSUME NEW active \in BOOLEAN, ReceiveSetActive(active)
      PROVE  Ownership'
  BY <1>21 DEF TypeOK, Conn, Usage, Connection, Ownership, IsRendererActive, SocketPhases,
     ReceiveSetActive, Listens, flags, tokens
<1>22. ASSUME NEW i \in SendIds, NEW kind \in Kinds, NEW needed \in BOOLEAN,
             StartSend(i, kind, needed)
      PROVE  Ownership'
  BY <1>22 DEF TypeOK, Conn, Usage, Connection, Ownership, IsRendererActive, SocketPhases, StartSend,
     Allowed, LockFree, Queued, flags, tokens
<1>23. ASSUME NEW i \in SendIds, NEW needed \in BOOLEAN, TakeSendLock(i, needed)
      PROVE  Ownership'
  BY <1>23 DEF TypeOK, Conn, Usage, Connection, Ownership, IsRendererActive, SocketPhases,
     TakeSendLock, Allowed, LockFree, flags, tokens
<1>24. ASSUME NEW i \in SendIds, FinishSend(i)
      PROVE  Ownership'
  BY <1>24 DEF TypeOK, Conn, Usage, Connection, Ownership, IsRendererActive, SocketPhases, FinishSend,
     flags, tokens
<1>25. CASE DeviceSend
  BY <1>25 DEF TypeOK, Conn, Usage, Connection, Ownership, IsRendererActive, SocketPhases, DeviceSend,
     flags, tokens
<1>26. CASE UNCHANGED vars
  BY <1>26 DEF TypeOK, Conn, Usage, Connection, Ownership, IsRendererActive, SocketPhases, vars, flags,
     tokens
<1>27. QED
  BY <1>1, <1>2, <1>3, <1>4, <1>5, <1>6, <1>7, <1>8, <1>9, <1>10, <1>11, <1>12, <1>13,
     <1>14, <1>15, <1>16, <1>17, <1>18, <1>19, <1>20, <1>21, <1>22, <1>23, <1>24, <1>25,
     <1>26 DEF Next, Transport, Progress, Environment, Senders

\* A step that invalidates the connection leaves no queued send current.
LEMMA InvalidateCaptured ==
  ASSUME TypeOK, Captured, Invalidate
  PROVE  Captured'
BY DEF TypeOK, Conn, Usage, Captured, Invalidate, Disowned, IsRendererActive, Send

\* A step that changes neither the sends nor what they are compared with, or that
\* only takes ownership away, keeps what the queued sends captured.
LEMMA KeepCaptured ==
  ASSUME Captured, UNCHANGED <<sends, ownershipGeneration>>,
         IsRendererActive' => IsRendererActive
  PROVE  Captured'
BY DEF Captured

\* Every step keeps what the queued sends captured.
LEMMA CapturedStep ==
  ASSUME TypeOK, Connection, Ownership, Captured, [Next]_vars
  PROVE  Captured'
<1>1. CASE Start
  BY <1>1, KeepCaptured DEF IsRendererActive, Start, flags
<1>2. CASE Stop
  BY <1>2, InvalidateCaptured DEF Stop
<1>3. CASE Cancelled
  <2>1. CASE Invalidate
    BY <2>1, InvalidateCaptured
  <2>2. CASE UNCHANGED <<isConnected, activeConfirmed, ownershipGeneration, sends>>
    BY <1>3, <2>2, KeepCaptured DEF IsRendererActive, Cancelled
  <2>3. QED
    BY <1>3, <2>1, <2>2 DEF Cancelled
<1>4. CASE CheckToken
  BY <1>4, KeepCaptured DEF IsRendererActive, CheckToken, BeginConnect, flags
<1>5. CASE MintSucceeds
  BY <1>5, KeepCaptured DEF IsRendererActive, MintSucceeds, BeginConnect, flags
<1>6. CASE Wake
  BY <1>6, KeepCaptured DEF IsRendererActive, Wake, flags
<1>7. CASE Opened
  BY <1>7, KeepCaptured DEF IsRendererActive, Opened, flags
<1>8. CASE Authenticated
  BY <1>8, KeepCaptured DEF IsRendererActive, Authenticated, flags
<1>9. CASE HandshakeOutdated
  BY <1>9, KeepCaptured DEF IsRendererActive, HandshakeOutdated, Leave, Outdated, flags
<1>10. CASE StartJoin
  BY <1>10, KeepCaptured DEF IsRendererActive, StartJoin, Outdated, flags
<1>11. CASE JoinSent
  <2>1. ~activeConfirmed'
    BY <1>11 DEF Connection, JoinSent
  <2>2. QED
    BY <1>11, <2>1, KeepCaptured DEF IsRendererActive, JoinSent
<1>12. CASE ClosedForRefresh
  BY <1>12, KeepCaptured DEF IsRendererActive, ClosedForRefresh, Leave, SocketPhases, flags
<1>13. CASE Left
  BY <1>13, InvalidateCaptured DEF Left
<1>14. CASE MintFails
  BY <1>14, KeepCaptured DEF IsRendererActive, MintFails, Fail, flags
<1>15. CASE RefreshWhenIdle
  BY <1>15, KeepCaptured DEF IsRendererActive, RefreshWhenIdle, Leave, flags
<1>16. CASE ConnectionLost
  BY <1>16, KeepCaptured DEF IsRendererActive, ConnectionLost, Leave, Fail, SocketPhases,
     flags
<1>17. CASE OpenFails
  BY <1>17, InvalidateCaptured DEF OpenFails
<1>18. ASSUME NEW s \in Sessions, NEW newToken \in BOOLEAN, NEW activate \in BOOLEAN,
             SetTokens(s, newToken, activate)
      PROVE  Captured'
  <2>1. CASE Reconnect
    BY <2>1, InvalidateCaptured DEF Reconnect
  <2>2. CASE UNCHANGED <<isConnected, activeConfirmed, ownershipGeneration, sends, closing>>
    BY <1>18, <2>2, KeepCaptured DEF IsRendererActive, SetTokens
  <2>3. QED
    BY <1>18, <2>1, <2>2 DEF SetTokens
<1>19. CASE ReleaseExternalPlayback
  BY <1>19 DEF TypeOK, Conn, Usage, Captured, Send, NoSend, IsRendererActive, Ownership,
     ReleaseExternalPlayback, Disowned, flags, tokens
<1>20. CASE TokenExpires
  BY <1>20, KeepCaptured DEF IsRendererActive, TokenExpires, flags
<1>21. ASSUME NEW active \in BOOLEAN, ReceiveSetActive(active)
      PROVE  Captured'
  BY <1>21 DEF TypeOK, Conn, Usage, Captured, Send, NoSend, IsRendererActive, Ownership,
     ReceiveSetActive, Disowned, Listens, flags, tokens
<1>22. ASSUME NEW i \in SendIds, NEW kind \in Kinds, NEW needed \in BOOLEAN,
             StartSend(i, kind, needed)
      PROVE  Captured'
  BY <1>22 DEF TypeOK, Conn, Usage, Captured, Send, NoSend, IsRendererActive, Ownership, StartSend,
     Allowed, LockFree, Queued, flags, tokens
<1>23. ASSUME NEW i \in SendIds, NEW needed \in BOOLEAN, TakeSendLock(i, needed)
      PROVE  Captured'
  BY <1>23 DEF TypeOK, Conn, Usage, Captured, Send, NoSend, IsRendererActive, Ownership, TakeSendLock,
     Allowed, LockFree, flags, tokens
<1>24. ASSUME NEW i \in SendIds, FinishSend(i)
      PROVE  Captured'
  BY <1>24 DEF TypeOK, Conn, Usage, Captured, Send, NoSend, IsRendererActive, Ownership, FinishSend,
     flags, tokens
<1>25. CASE DeviceSend
  BY <1>25, KeepCaptured DEF IsRendererActive, DeviceSend, flags
<1>26. CASE UNCHANGED vars
  BY <1>26, KeepCaptured DEF IsRendererActive, vars, flags
<1>27. QED
  BY <1>1, <1>2, <1>3, <1>4, <1>5, <1>6, <1>7, <1>8, <1>9, <1>10, <1>11, <1>12, <1>13,
     <1>14, <1>15, <1>16, <1>17, <1>18, <1>19, <1>20, <1>21, <1>22, <1>23, <1>24, <1>25,
     <1>26 DEF Next, Transport, Progress, Environment, Senders

\* What a handshake captured is current as long as the token version is.
LEMMA HandshakeStep ==
  ASSUME TypeOK, Ownership, Handshake, [Next]_vars
  PROVE  Handshake'
<1>1. CASE Start
  BY <1>1 DEF TypeOK, Conn, Usage, Handshake, Ownership, Outdated, NoConn, SocketPhases, Start, flags,
     tokens
<1>2. CASE Stop
  BY <1>2 DEF TypeOK, Conn, Usage, Handshake, Ownership, Outdated, NoConn, SocketPhases, Stop,
     Invalidate, flags, tokens
<1>3. CASE Cancelled
  BY <1>3 DEF TypeOK, Conn, Usage, Handshake, Ownership, Outdated, NoConn, SocketPhases, Cancelled,
     Invalidate, flags, tokens
<1>4. CASE CheckToken
  BY <1>4 DEF TypeOK, Conn, Usage, Handshake, Ownership, Outdated, NoConn, SocketPhases, CheckToken,
     BeginConnect, flags, tokens
<1>5. CASE MintSucceeds
  BY <1>5 DEF TypeOK, Conn, Usage, Handshake, Ownership, Outdated, NoConn, SocketPhases, MintSucceeds,
     BeginConnect, flags, tokens
<1>6. CASE Wake
  BY <1>6 DEF TypeOK, Conn, Usage, Handshake, Ownership, Outdated, NoConn, SocketPhases, Wake, flags,
     tokens
<1>7. CASE Opened
  BY <1>7 DEF TypeOK, Conn, Usage, Handshake, Ownership, Outdated, NoConn, SocketPhases, Opened, flags,
     tokens
<1>8. CASE Authenticated
  BY <1>8 DEF TypeOK, Conn, Usage, Handshake, Ownership, Outdated, NoConn, SocketPhases, Authenticated,
     flags, tokens
<1>9. CASE HandshakeOutdated
  BY <1>9 DEF TypeOK, Conn, Usage, Handshake, Ownership, Outdated, NoConn, SocketPhases,
     HandshakeOutdated, Leave, flags, tokens
<1>10. CASE StartJoin
  BY <1>10 DEF TypeOK, Conn, Usage, Handshake, Ownership, Outdated, NoConn, SocketPhases, StartJoin,
     flags, tokens
<1>11. CASE JoinSent
  BY <1>11 DEF TypeOK, Conn, Usage, Handshake, Ownership, Outdated, NoConn, SocketPhases, JoinSent,
     Leave, Unspent, flags, tokens
<1>12. CASE ClosedForRefresh
  BY <1>12 DEF TypeOK, Conn, Usage, Handshake, Ownership, Outdated, NoConn, SocketPhases,
     ClosedForRefresh, Leave, flags, tokens
<1>13. CASE Left
  BY <1>13 DEF TypeOK, Conn, Usage, Handshake, Ownership, Outdated, NoConn, SocketPhases, Left,
     Invalidate, flags, tokens
<1>14. CASE MintFails
  BY <1>14 DEF TypeOK, Conn, Usage, Handshake, Ownership, Outdated, NoConn, SocketPhases, MintFails,
     Fail, flags, tokens
<1>15. CASE RefreshWhenIdle
  BY <1>15 DEF TypeOK, Conn, Usage, Handshake, Ownership, Outdated, NoConn, SocketPhases,
     RefreshWhenIdle, Leave, flags, tokens
<1>16. CASE ConnectionLost
  BY <1>16 DEF TypeOK, Conn, Usage, Handshake, Ownership, Outdated, NoConn, SocketPhases,
     ConnectionLost, Leave, Fail, flags, tokens
<1>17. CASE OpenFails
  BY <1>17 DEF TypeOK, Conn, Usage, Handshake, Ownership, Outdated, NoConn, SocketPhases, OpenFails,
     Fail, Invalidate, flags, tokens
<1>18. ASSUME NEW s \in Sessions, NEW newToken \in BOOLEAN, NEW activate \in BOOLEAN,
             SetTokens(s, newToken, activate)
      PROVE  Handshake'
  BY <1>18 DEF TypeOK, Conn, Usage, Handshake, Ownership, Outdated, NoConn, SocketPhases, SetTokens,
     Reconnect, Invalidate, Armed, flags, tokens
<1>19. CASE ReleaseExternalPlayback
  BY <1>19 DEF TypeOK, Conn, Usage, Handshake, Ownership, Outdated, NoConn, SocketPhases,
     ReleaseExternalPlayback, flags, tokens
<1>20. CASE TokenExpires
  BY <1>20 DEF TypeOK, Conn, Usage, Handshake, Ownership, Outdated, NoConn, SocketPhases, TokenExpires,
     flags, tokens
<1>21. ASSUME NEW active \in BOOLEAN, ReceiveSetActive(active)
      PROVE  Handshake'
  BY <1>21 DEF TypeOK, Conn, Usage, Handshake, Ownership, Outdated, NoConn, SocketPhases,
     ReceiveSetActive, Listens, flags, tokens
<1>22. ASSUME NEW i \in SendIds, NEW kind \in Kinds, NEW needed \in BOOLEAN,
             StartSend(i, kind, needed)
      PROVE  Handshake'
  BY <1>22 DEF TypeOK, Conn, Usage, Handshake, Ownership, Outdated, NoConn, SocketPhases, StartSend,
     Allowed, LockFree, Queued, IsRendererActive, flags, tokens
<1>23. ASSUME NEW i \in SendIds, NEW needed \in BOOLEAN, TakeSendLock(i, needed)
      PROVE  Handshake'
  BY <1>23 DEF TypeOK, Conn, Usage, Handshake, Ownership, Outdated, NoConn, SocketPhases, TakeSendLock,
     Allowed, LockFree, IsRendererActive, flags, tokens
<1>24. ASSUME NEW i \in SendIds, FinishSend(i)
      PROVE  Handshake'
  BY <1>24 DEF TypeOK, Conn, Usage, Handshake, Ownership, Outdated, NoConn, SocketPhases, FinishSend,
     flags, tokens
<1>25. CASE DeviceSend
  BY <1>25 DEF TypeOK, Conn, Usage, Handshake, Ownership, Outdated, NoConn, SocketPhases, DeviceSend,
     flags, tokens
<1>26. CASE UNCHANGED vars
  BY <1>26 DEF TypeOK, Conn, Usage, Handshake, Ownership, Outdated, NoConn, SocketPhases, vars, flags,
     tokens
<1>27. QED
  BY <1>1, <1>2, <1>3, <1>4, <1>5, <1>6, <1>7, <1>8, <1>9, <1>10, <1>11, <1>12, <1>13,
     <1>14, <1>15, <1>16, <1>17, <1>18, <1>19, <1>20, <1>21, <1>22, <1>23, <1>24, <1>25,
     <1>26 DEF Next, Transport, Progress, Environment, Senders

\* A selection that a sent join carried is armed by nobody and sent by nobody again.
LEMMA SelectionsStep ==
  ASSUME TypeOK, Selections, SelectionSpentOnce, [Next]_vars
  PROVE  (Selections /\ SelectionSpentOnce)'
<1>1. CASE Start
  BY <1>1 DEF TypeOK, Conn, Usage, Selections, SelectionSpentOnce, NoConn, SocketPhases, Start, flags,
     tokens
<1>2. CASE Stop
  BY <1>2 DEF TypeOK, Conn, Usage, Selections, SelectionSpentOnce, NoConn, SocketPhases, Stop,
     Invalidate, flags, tokens
<1>3. CASE Cancelled
  BY <1>3 DEF TypeOK, Conn, Usage, Selections, SelectionSpentOnce, NoConn, SocketPhases, Cancelled,
     Invalidate, flags, tokens
<1>4. CASE CheckToken
  BY <1>4 DEF TypeOK, Conn, Usage, Selections, SelectionSpentOnce, NoConn, SocketPhases, CheckToken,
     BeginConnect, flags, tokens
<1>5. CASE MintSucceeds
  BY <1>5 DEF TypeOK, Conn, Usage, Selections, SelectionSpentOnce, NoConn, SocketPhases, MintSucceeds,
     BeginConnect, flags, tokens
<1>6. CASE Wake
  BY <1>6 DEF TypeOK, Conn, Usage, Selections, SelectionSpentOnce, NoConn, SocketPhases, Wake, flags,
     tokens
<1>7. CASE Opened
  BY <1>7 DEF TypeOK, Conn, Usage, Selections, SelectionSpentOnce, NoConn, SocketPhases, Opened, flags,
     tokens
<1>8. CASE Authenticated
  BY <1>8 DEF TypeOK, Conn, Usage, Selections, SelectionSpentOnce, NoConn, SocketPhases, Authenticated,
     flags, tokens
<1>9. CASE HandshakeOutdated
  BY <1>9 DEF TypeOK, Conn, Usage, Selections, SelectionSpentOnce, NoConn, SocketPhases,
     HandshakeOutdated, Leave, Outdated, flags, tokens
<1>10. CASE StartJoin
  BY <1>10 DEF TypeOK, Conn, Usage, Selections, SelectionSpentOnce, NoConn, SocketPhases, StartJoin,
     Outdated, flags, tokens
<1>11. CASE JoinSent
  BY <1>11 DEF TypeOK, Conn, Usage, Selections, SelectionSpentOnce, NoConn, SocketPhases, JoinSent,
     Outdated, Leave, Unspent, flags, tokens
<1>12. CASE ClosedForRefresh
  BY <1>12 DEF TypeOK, Conn, Usage, Selections, SelectionSpentOnce, NoConn, SocketPhases,
     ClosedForRefresh, Leave, flags, tokens
<1>13. CASE Left
  BY <1>13 DEF TypeOK, Conn, Usage, Selections, SelectionSpentOnce, NoConn, SocketPhases, Left,
     Invalidate, flags, tokens
<1>14. CASE MintFails
  BY <1>14 DEF TypeOK, Conn, Usage, Selections, SelectionSpentOnce, NoConn, SocketPhases, MintFails,
     Fail, flags, tokens
<1>15. CASE RefreshWhenIdle
  BY <1>15 DEF TypeOK, Conn, Usage, Selections, SelectionSpentOnce, NoConn, SocketPhases,
     RefreshWhenIdle, Leave, flags, tokens
<1>16. CASE ConnectionLost
  BY <1>16 DEF TypeOK, Conn, Usage, Selections, SelectionSpentOnce, NoConn, SocketPhases,
     ConnectionLost, Leave, Fail, flags, tokens
<1>17. CASE OpenFails
  BY <1>17 DEF TypeOK, Conn, Usage, Selections, SelectionSpentOnce, NoConn, SocketPhases, OpenFails,
     Fail, Invalidate, flags, tokens
<1>18. ASSUME NEW s \in Sessions, NEW newToken \in BOOLEAN, NEW activate \in BOOLEAN,
             SetTokens(s, newToken, activate)
      PROVE  (Selections /\ SelectionSpentOnce)'
  BY <1>18 DEF TypeOK, Conn, Usage, Selections, SelectionSpentOnce, NoConn, SocketPhases, SetTokens,
     Reconnect, Invalidate, Armed, flags, tokens
<1>19. CASE ReleaseExternalPlayback
  BY <1>19 DEF TypeOK, Conn, Usage, Selections, SelectionSpentOnce, NoConn, SocketPhases,
     ReleaseExternalPlayback, flags, tokens
<1>20. CASE TokenExpires
  BY <1>20 DEF TypeOK, Conn, Usage, Selections, SelectionSpentOnce, NoConn, SocketPhases, TokenExpires,
     flags, tokens
<1>21. ASSUME NEW active \in BOOLEAN, ReceiveSetActive(active)
      PROVE  (Selections /\ SelectionSpentOnce)'
  BY <1>21 DEF TypeOK, Conn, Usage, Selections, SelectionSpentOnce, NoConn, SocketPhases,
     ReceiveSetActive, Listens, flags, tokens
<1>22. ASSUME NEW i \in SendIds, NEW kind \in Kinds, NEW needed \in BOOLEAN,
             StartSend(i, kind, needed)
      PROVE  (Selections /\ SelectionSpentOnce)'
  BY <1>22 DEF TypeOK, Conn, Usage, Selections, SelectionSpentOnce, NoConn, SocketPhases, StartSend,
     Allowed, LockFree, Queued, IsRendererActive, flags, tokens
<1>23. ASSUME NEW i \in SendIds, NEW needed \in BOOLEAN, TakeSendLock(i, needed)
      PROVE  (Selections /\ SelectionSpentOnce)'
  BY <1>23 DEF TypeOK, Conn, Usage, Selections, SelectionSpentOnce, NoConn, SocketPhases, TakeSendLock,
     Allowed, LockFree, IsRendererActive, flags, tokens
<1>24. ASSUME NEW i \in SendIds, FinishSend(i)
      PROVE  (Selections /\ SelectionSpentOnce)'
  BY <1>24 DEF TypeOK, Conn, Usage, Selections, SelectionSpentOnce, NoConn, SocketPhases, FinishSend,
     flags, tokens
<1>25. CASE DeviceSend
  BY <1>25 DEF TypeOK, Conn, Usage, Selections, SelectionSpentOnce, NoConn, SocketPhases, DeviceSend,
     flags, tokens
<1>26. CASE UNCHANGED vars
  BY <1>26 DEF TypeOK, Conn, Usage, Selections, SelectionSpentOnce, NoConn, SocketPhases, vars, flags,
     tokens
<1>27. QED
  BY <1>1, <1>2, <1>3, <1>4, <1>5, <1>6, <1>7, <1>8, <1>9, <1>10, <1>11, <1>12, <1>13,
     <1>14, <1>15, <1>16, <1>17, <1>18, <1>19, <1>20, <1>21, <1>22, <1>23, <1>24, <1>25,
     <1>26 DEF Next, Transport, Progress, Environment, Senders

\* An established connection stays on the current session and token.
LEMMA CurrentStep ==
  ASSUME TypeOK, Connection, Handshake, ConnectedToCurrentSession, [Next]_vars
  PROVE  ConnectedToCurrentSession'
<1>1. CASE Start
  BY <1>1 DEF TypeOK, Conn, Usage, Connection, Handshake, ConnectedToCurrentSession, NoConn,
     SocketPhases, Start, flags, tokens
<1>2. CASE Stop
  BY <1>2 DEF TypeOK, Conn, Usage, Connection, Handshake, ConnectedToCurrentSession, NoConn,
     SocketPhases, Stop, Invalidate, flags, tokens
<1>3. CASE Cancelled
  BY <1>3 DEF TypeOK, Conn, Usage, Connection, Handshake, ConnectedToCurrentSession, NoConn,
     SocketPhases, Cancelled, Invalidate, flags, tokens
<1>4. CASE CheckToken
  BY <1>4 DEF TypeOK, Conn, Usage, Connection, Handshake, ConnectedToCurrentSession, NoConn,
     SocketPhases, CheckToken, BeginConnect, flags, tokens
<1>5. CASE MintSucceeds
  BY <1>5 DEF TypeOK, Conn, Usage, Connection, Handshake, ConnectedToCurrentSession, NoConn,
     SocketPhases, MintSucceeds, BeginConnect, flags, tokens
<1>6. CASE Wake
  BY <1>6 DEF TypeOK, Conn, Usage, Connection, Handshake, ConnectedToCurrentSession, NoConn,
     SocketPhases, Wake, flags, tokens
<1>7. CASE Opened
  BY <1>7 DEF TypeOK, Conn, Usage, Connection, Handshake, ConnectedToCurrentSession, NoConn,
     SocketPhases, Opened, flags, tokens
<1>8. CASE Authenticated
  BY <1>8 DEF TypeOK, Conn, Usage, Connection, Handshake, ConnectedToCurrentSession, NoConn,
     SocketPhases, Authenticated, flags, tokens
<1>9. CASE HandshakeOutdated
  BY <1>9 DEF TypeOK, Conn, Usage, Connection, Handshake, ConnectedToCurrentSession, NoConn,
     SocketPhases, HandshakeOutdated, Leave, Outdated, flags, tokens
<1>10. CASE StartJoin
  BY <1>10 DEF TypeOK, Conn, Usage, Connection, Handshake, ConnectedToCurrentSession, NoConn,
     SocketPhases, StartJoin, Outdated, flags, tokens
<1>11. CASE JoinSent
  BY <1>11 DEF TypeOK, Conn, Usage, Connection, Handshake, ConnectedToCurrentSession, NoConn,
     SocketPhases, JoinSent, Outdated, Leave, Unspent, flags, tokens
<1>12. CASE ClosedForRefresh
  BY <1>12 DEF TypeOK, Conn, Usage, Connection, Handshake, ConnectedToCurrentSession, NoConn,
     SocketPhases, ClosedForRefresh, Leave, flags, tokens
<1>13. CASE Left
  BY <1>13 DEF TypeOK, Conn, Usage, Connection, Handshake, ConnectedToCurrentSession, NoConn,
     SocketPhases, Left, Invalidate, flags, tokens
<1>14. CASE MintFails
  BY <1>14 DEF TypeOK, Conn, Usage, Connection, Handshake, ConnectedToCurrentSession, NoConn,
     SocketPhases, MintFails, Fail, flags, tokens
<1>15. CASE RefreshWhenIdle
  BY <1>15 DEF TypeOK, Conn, Usage, Connection, Handshake, ConnectedToCurrentSession, NoConn,
     SocketPhases, RefreshWhenIdle, Leave, flags, tokens
<1>16. CASE ConnectionLost
  BY <1>16 DEF TypeOK, Conn, Usage, Connection, Handshake, ConnectedToCurrentSession, NoConn,
     SocketPhases, ConnectionLost, Leave, Fail, flags, tokens
<1>17. CASE OpenFails
  BY <1>17 DEF TypeOK, Conn, Usage, Connection, Handshake, ConnectedToCurrentSession, NoConn,
     SocketPhases, OpenFails, Fail, Invalidate, flags, tokens
<1>18. ASSUME NEW s \in Sessions, NEW newToken \in BOOLEAN, NEW activate \in BOOLEAN,
             SetTokens(s, newToken, activate)
      PROVE  ConnectedToCurrentSession'
  BY <1>18 DEF TypeOK, Conn, Usage, Connection, Handshake, ConnectedToCurrentSession, NoConn,
     SocketPhases, SetTokens, Reconnect, Invalidate, Armed, flags, tokens
<1>19. CASE ReleaseExternalPlayback
  BY <1>19 DEF TypeOK, Conn, Usage, Connection, Handshake, ConnectedToCurrentSession, NoConn,
     SocketPhases, ReleaseExternalPlayback, flags, tokens
<1>20. CASE TokenExpires
  BY <1>20 DEF TypeOK, Conn, Usage, Connection, Handshake, ConnectedToCurrentSession, NoConn,
     SocketPhases, TokenExpires, flags, tokens
<1>21. ASSUME NEW active \in BOOLEAN, ReceiveSetActive(active)
      PROVE  ConnectedToCurrentSession'
  BY <1>21 DEF TypeOK, Conn, Usage, Connection, Handshake, ConnectedToCurrentSession, NoConn,
     SocketPhases, ReceiveSetActive, Listens, flags, tokens
<1>22. ASSUME NEW i \in SendIds, NEW kind \in Kinds, NEW needed \in BOOLEAN,
             StartSend(i, kind, needed)
      PROVE  ConnectedToCurrentSession'
  BY <1>22 DEF TypeOK, Conn, Usage, Connection, Handshake, ConnectedToCurrentSession, NoConn,
     SocketPhases, StartSend, Allowed, LockFree, Queued, IsRendererActive, flags, tokens
<1>23. ASSUME NEW i \in SendIds, NEW needed \in BOOLEAN, TakeSendLock(i, needed)
      PROVE  ConnectedToCurrentSession'
  BY <1>23 DEF TypeOK, Conn, Usage, Connection, Handshake, ConnectedToCurrentSession, NoConn,
     SocketPhases, TakeSendLock, Allowed, LockFree, IsRendererActive, flags, tokens
<1>24. ASSUME NEW i \in SendIds, FinishSend(i)
      PROVE  ConnectedToCurrentSession'
  BY <1>24 DEF TypeOK, Conn, Usage, Connection, Handshake, ConnectedToCurrentSession, NoConn,
     SocketPhases, FinishSend, flags, tokens
<1>25. CASE DeviceSend
  BY <1>25 DEF TypeOK, Conn, Usage, Connection, Handshake, ConnectedToCurrentSession, NoConn,
     SocketPhases, DeviceSend, flags, tokens
<1>26. CASE UNCHANGED vars
  BY <1>26 DEF TypeOK, Conn, Usage, Connection, Handshake, ConnectedToCurrentSession, NoConn,
     SocketPhases, vars, flags, tokens
<1>27. QED
  BY <1>1, <1>2, <1>3, <1>4, <1>5, <1>6, <1>7, <1>8, <1>9, <1>10, <1>11, <1>12, <1>13,
     <1>14, <1>15, <1>16, <1>17, <1>18, <1>19, <1>20, <1>21, <1>22, <1>23, <1>24, <1>25,
     <1>26 DEF Next, Transport, Progress, Environment, Senders

\* No step arms a selection on an established connection.
LEMMA NoArmedStep ==
  ASSUME TypeOK, Connection, Handshake, NoArmedTakeover, [Next]_vars
  PROVE  NoArmedTakeover'
<1>1. CASE Start
  BY <1>1 DEF TypeOK, Conn, Usage, Connection, Handshake, NoArmedTakeover, SocketPhases, Start, flags,
     tokens
<1>2. CASE Stop
  BY <1>2 DEF TypeOK, Conn, Usage, Connection, Handshake, NoArmedTakeover, SocketPhases, Stop,
     Invalidate, flags, tokens
<1>3. CASE Cancelled
  BY <1>3 DEF TypeOK, Conn, Usage, Connection, Handshake, NoArmedTakeover, SocketPhases, Cancelled,
     Invalidate, flags, tokens
<1>4. CASE CheckToken
  BY <1>4 DEF TypeOK, Conn, Usage, Connection, Handshake, NoArmedTakeover, SocketPhases, CheckToken,
     BeginConnect, flags, tokens
<1>5. CASE MintSucceeds
  BY <1>5 DEF TypeOK, Conn, Usage, Connection, Handshake, NoArmedTakeover, SocketPhases, MintSucceeds,
     BeginConnect, flags, tokens
<1>6. CASE Wake
  BY <1>6 DEF TypeOK, Conn, Usage, Connection, Handshake, NoArmedTakeover, SocketPhases, Wake, flags,
     tokens
<1>7. CASE Opened
  BY <1>7 DEF TypeOK, Conn, Usage, Connection, Handshake, NoArmedTakeover, SocketPhases, Opened, flags,
     tokens
<1>8. CASE Authenticated
  BY <1>8 DEF TypeOK, Conn, Usage, Connection, Handshake, NoArmedTakeover, SocketPhases, Authenticated,
     flags, tokens
<1>9. CASE HandshakeOutdated
  BY <1>9 DEF TypeOK, Conn, Usage, Connection, Handshake, NoArmedTakeover, SocketPhases,
     HandshakeOutdated, Leave, Outdated, flags, tokens
<1>10. CASE StartJoin
  BY <1>10 DEF TypeOK, Conn, Usage, Connection, Handshake, NoArmedTakeover, SocketPhases, StartJoin,
     Outdated, flags, tokens
<1>11. CASE JoinSent
  BY <1>11 DEF TypeOK, Conn, Usage, Connection, Handshake, NoArmedTakeover, SocketPhases, JoinSent,
     Outdated, Leave, Unspent, flags, tokens
<1>12. CASE ClosedForRefresh
  BY <1>12 DEF TypeOK, Conn, Usage, Connection, Handshake, NoArmedTakeover, SocketPhases,
     ClosedForRefresh, Leave, flags, tokens
<1>13. CASE Left
  BY <1>13 DEF TypeOK, Conn, Usage, Connection, Handshake, NoArmedTakeover, SocketPhases, Left,
     Invalidate, flags, tokens
<1>14. CASE MintFails
  BY <1>14 DEF TypeOK, Conn, Usage, Connection, Handshake, NoArmedTakeover, SocketPhases, MintFails,
     Fail, flags, tokens
<1>15. CASE RefreshWhenIdle
  BY <1>15 DEF TypeOK, Conn, Usage, Connection, Handshake, NoArmedTakeover, SocketPhases,
     RefreshWhenIdle, Leave, flags, tokens
<1>16. CASE ConnectionLost
  BY <1>16 DEF TypeOK, Conn, Usage, Connection, Handshake, NoArmedTakeover, SocketPhases,
     ConnectionLost, Leave, Fail, flags, tokens
<1>17. CASE OpenFails
  BY <1>17 DEF TypeOK, Conn, Usage, Connection, Handshake, NoArmedTakeover, SocketPhases, OpenFails,
     Fail, Invalidate, flags, tokens
<1>18. ASSUME NEW s \in Sessions, NEW newToken \in BOOLEAN, NEW activate \in BOOLEAN,
             SetTokens(s, newToken, activate)
      PROVE  NoArmedTakeover'
  BY <1>18 DEF TypeOK, Conn, Usage, Connection, Handshake, NoArmedTakeover, SocketPhases, SetTokens,
     Reconnect, Invalidate, Armed, flags, tokens
<1>19. CASE ReleaseExternalPlayback
  BY <1>19 DEF TypeOK, Conn, Usage, Connection, Handshake, NoArmedTakeover, SocketPhases,
     ReleaseExternalPlayback, flags, tokens
<1>20. CASE TokenExpires
  BY <1>20 DEF TypeOK, Conn, Usage, Connection, Handshake, NoArmedTakeover, SocketPhases, TokenExpires,
     flags, tokens
<1>21. ASSUME NEW active \in BOOLEAN, ReceiveSetActive(active)
      PROVE  NoArmedTakeover'
  BY <1>21 DEF TypeOK, Conn, Usage, Connection, Handshake, NoArmedTakeover, SocketPhases,
     ReceiveSetActive, Listens, flags, tokens
<1>22. ASSUME NEW i \in SendIds, NEW kind \in Kinds, NEW needed \in BOOLEAN,
             StartSend(i, kind, needed)
      PROVE  NoArmedTakeover'
  BY <1>22 DEF TypeOK, Conn, Usage, Connection, Handshake, NoArmedTakeover, SocketPhases, StartSend,
     Allowed, LockFree, Queued, IsRendererActive, flags, tokens
<1>23. ASSUME NEW i \in SendIds, NEW needed \in BOOLEAN, TakeSendLock(i, needed)
      PROVE  NoArmedTakeover'
  BY <1>23 DEF TypeOK, Conn, Usage, Connection, Handshake, NoArmedTakeover, SocketPhases, TakeSendLock,
     Allowed, LockFree, IsRendererActive, flags, tokens
<1>24. ASSUME NEW i \in SendIds, FinishSend(i)
      PROVE  NoArmedTakeover'
  BY <1>24 DEF TypeOK, Conn, Usage, Connection, Handshake, NoArmedTakeover, SocketPhases, FinishSend,
     flags, tokens
<1>25. CASE DeviceSend
  BY <1>25 DEF TypeOK, Conn, Usage, Connection, Handshake, NoArmedTakeover, SocketPhases, DeviceSend,
     flags, tokens
<1>26. CASE UNCHANGED vars
  BY <1>26 DEF TypeOK, Conn, Usage, Connection, Handshake, NoArmedTakeover, SocketPhases, vars, flags,
     tokens
<1>27. QED
  BY <1>1, <1>2, <1>3, <1>4, <1>5, <1>6, <1>7, <1>8, <1>9, <1>10, <1>11, <1>12, <1>13,
     <1>14, <1>15, <1>16, <1>17, <1>18, <1>19, <1>20, <1>21, <1>22, <1>23, <1>24, <1>25,
     <1>26 DEF Next, Transport, Progress, Environment, Senders

-----------------------------------------------------------------------------
\* The inductive invariant holds initially ...
LEMMA InitIndInv ==
  ASSUME Init
  PROVE  IndInv
<1>1. /\ phase \in Phases
      /\ conn \in Conn
      /\ used \in Usage
      /\ sends \in [SendIds -> Send]
  BY DEF Init, Phases, Conn, Usage, NoConn, NoSend, Send, Kinds
<1>2. TypeOK
  BY <1>1 DEF Init, TypeOK
<1>3. Connection /\ Ownership /\ Captured /\ Handshake /\ Selections
  BY DEF Init, Connection, Ownership, Captured, Handshake, Selections, IsRendererActive,
         NoConn, NoSend
<1>4. ConnectedToCurrentSession /\ NoArmedTakeover /\ SelectionSpentOnce
  BY DEF Init, ConnectedToCurrentSession, NoArmedTakeover, SelectionSpentOnce
<1>5. QED
  BY <1>2, <1>3, <1>4 DEF IndInv

\* ... and is kept by every step.
LEMMA NextIndInv ==
  ASSUME IndInv, [Next]_vars
  PROVE  IndInv'
<1>1. TypeOK'
  BY TypeStep DEF IndInv
<1>2. Connection' /\ Ownership'
  BY ConnectionStep, OwnershipStep DEF IndInv
<1>3. Captured' /\ Handshake'
  BY CapturedStep, HandshakeStep DEF IndInv
<1>4. Selections' /\ SelectionSpentOnce'
  BY SelectionsStep DEF IndInv
<1>5. ConnectedToCurrentSession' /\ NoArmedTakeover'
  BY CurrentStep, NoArmedStep DEF IndInv
<1>6. QED
  BY <1>1, <1>2, <1>3, <1>4, <1>5 DEF IndInv

\* The strengthened invariant holds in every reachable state.
THEOREM Invariance == Spec => []IndInv
<1>1. Init => IndInv
  BY InitIndInv
<1>2. IndInv /\ [Next]_vars => IndInv'
  BY NextIndInv
<1>3. QED
  BY <1>1, <1>2, PTL DEF Spec

-----------------------------------------------------------------------------
\* The variables of ws_manager.py keep their types.
THEOREM TypeCorrect == Spec => []TypeOK
<1>1. IndInv => TypeOK
  BY DEF IndInv
<1>2. QED
  BY <1>1, Invariance, PTL

\* No report and no NEXT request reaches the wire on behalf of a renderer that
\* lost ownership after the caller asked for it.
THEOREM ReportsAreOwned == Spec => []OnlyTheOwnerReports
<1>1. IndInv => OnlyTheOwnerReports
  BY DEF IndInv, Captured, OnlyTheOwnerReports
<1>2. QED
  BY <1>1, Invariance, PTL

\* A connection in use belongs to the token and the session set_tokens left.
THEOREM ConnectionIsCurrent == Spec => []ConnectedToCurrentSession
<1>1. IndInv => ConnectedToCurrentSession
  BY DEF IndInv
<1>2. QED
  BY <1>1, Invariance, PTL

\* No selection stays armed on an established connection or over a takeover.
THEOREM TakeoverIsDisarmed == Spec => []NoArmedTakeover
<1>1. IndInv => NoArmedTakeover
  BY DEF IndInv
<1>2. QED
  BY <1>1, Invariance, PTL

\* A reconnect never claims playback because of a selection that an earlier
\* connection already carried or that the user has replaced.
THEOREM SelectionIsSpentOnce == Spec => []SelectionSpentOnce
<1>1. IndInv => SelectionSpentOnce
  BY DEF IndInv
<1>2. QED
  BY <1>1, Invariance, PTL

\* While another source plays, the renderer neither claims playback in a join nor
\* becomes the owner.
THEOREM ExternalPassive == Spec => ExternalStaysPassive
<1> DEFINE Passive == externalPlayback =>
       /\ phase # "joining" /\ phase' = "joining" => ~conn'.claims
       /\ externalPlayback' => ~IsRendererActive'
<1>1. IndInv /\ IndInv' /\ [Next]_vars => Passive \/ UNCHANGED vars
  <2> SUFFICES ASSUME IndInv, IndInv', Next, externalPlayback
               PROVE  /\ phase # "joining" /\ phase' = "joining" => ~conn'.claims
                      /\ externalPlayback' => ~IsRendererActive'
    OBVIOUS
  <2>1. externalPlayback' => ~IsRendererActive'
    BY DEF IndInv, Ownership, IsRendererActive
  <2>2. ASSUME phase # "joining", phase' = "joining"
        PROVE  ~conn'.claims
    <3>1. StartJoin
      BY <2>2 DEF Next, Transport, Progress, Environment, Senders, Start, Stop, Cancelled, CheckToken,
        MintSucceeds, BeginConnect, Wake, Opened, Authenticated, HandshakeOutdated, Leave,
        StartJoin, JoinSent, ClosedForRefresh, Left, MintFails, RefreshWhenIdle,
        ConnectionLost, OpenFails, SetTokens, ReleaseExternalPlayback, TokenExpires,
        ReceiveSetActive, StartSend, TakeSendLock, FinishSend, DeviceSend
    <3>2. QED
      BY <3>1 DEF StartJoin, IndInv, Ownership, TypeOK
  <2>3. QED
    BY <2>1, <2>2
<1>2. QED
  BY <1>1, Invariance, PTL DEF Spec, ExternalStaysPassive

-----------------------------------------------------------------------------
(***************************************************************************)
(* The manager with the command handler and its message tasks.             *)
(***************************************************************************)
Entry == [msg : Messages, gen : Nat, tag : Nat]

HandlerType ==
  /\ handlerActive \in BOOLEAN /\ generation \in Nat
  /\ inbox \in Seq(Entry)
  /\ tenure \in Nat /\ owedStop \in BOOLEAN

\* Ownership is confirmed only while the manager runs.
ActiveRuns ==
  /\ activeConfirmed => shouldRun
  /\ isConnected /\ phase = "running" => shouldRun

\* Tasks of the current generation were created under the current ownership.
Recorded ==
  \A k \in 1..Len(inbox) :
    /\ inbox[k].gen <= generation
    /\ inbox[k].gen = generation /\ inbox[k].msg.kind = "active"
         => inbox[k].msg.on = handlerActive
    /\ inbox[k].gen = generation /\ handlerActive => inbox[k].tag = tenure

\* The task k stands for the last deactivation.
Deactivates(k) ==
  /\ inbox[k].msg.kind = "active" /\ ~inbox[k].msg.on
  /\ inbox[k].gen = deactivation

\* A stop that is owed has its task, and nobody has activated the renderer since.
Owed ==
  owedStop => ~handlerActive /\ \E k \in 1..Len(inbox) : Deactivates(k)

SessionInv ==
  /\ IndInv /\ HandlerType /\ ActiveRuns /\ OwnershipAgrees /\ Recorded /\ Owed

-----------------------------------------------------------------------------
(* The manager's part *)

\* Senders do not touch the connection.
LEMMA SendersKeep ==
  ASSUME Senders
  PROVE  UNCHANGED <<phase, shouldRun, flags, ownershipGeneration>>
<1>1. PICK i \in SendIds :
        \/ \E kind \in Kinds, needed \in BOOLEAN : StartSend(i, kind, needed)
        \/ \E needed \in BOOLEAN : TakeSendLock(i, needed)
        \/ FinishSend(i)
  BY DEF Senders
<1>2. CASE \E kind \in Kinds, needed \in BOOLEAN : StartSend(i, kind, needed)
  BY <1>2 DEF StartSend
<1>3. CASE \E needed \in BOOLEAN : TakeSendLock(i, needed)
  BY <1>3 DEF TakeSendLock
<1>4. CASE FinishSend(i)
  BY <1>4 DEF FinishSend
<1>5. QED
  BY <1>1, <1>2, <1>3, <1>4

\* A step of the manager other than a message either calls the handler back, and then
\* leaves this renderer without ownership, or does not touch ownership at all.
LEMMA TransportOwnership ==
  ASSUME IndInv, ActiveRuns, Transport
  PROVE  /\ CallsBack => ~IsRendererActive'
         /\ ~CallsBack => (IsRendererActive' <=> IsRendererActive)
<1> USE DEF IndInv, TypeOK, Connection, ActiveRuns, CallsBack, IsRendererActive, flags, tokens
<1>1. CASE Start
  BY <1>1 DEF Start
<1>2. CASE Stop
  BY <1>2 DEF Stop, Invalidate
<1>3. CASE Cancelled
  BY <1>3 DEF Cancelled, Invalidate, SocketPhases
<1>4. CASE CheckToken
  BY <1>4 DEF CheckToken
<1>5. CASE MintSucceeds
  BY <1>5 DEF MintSucceeds
<1>6. CASE Wake
  BY <1>6 DEF Wake
<1>7. CASE Opened
  BY <1>7 DEF Opened
<1>8. CASE Authenticated
  BY <1>8 DEF Authenticated
<1>9. CASE HandshakeOutdated
  BY <1>9 DEF HandshakeOutdated
<1>10. CASE StartJoin
  BY <1>10 DEF StartJoin
<1>11. CASE JoinSent
  BY <1>11 DEF JoinSent
<1>12. CASE ClosedForRefresh
  BY <1>12 DEF ClosedForRefresh
<1>13. CASE Left
  BY <1>13 DEF Left, Invalidate
<1>14. CASE MintFails
  BY <1>14 DEF MintFails
<1>15. CASE RefreshWhenIdle
  BY <1>15 DEF RefreshWhenIdle
<1>16. CASE ConnectionLost
  BY <1>16 DEF ConnectionLost
<1>17. CASE OpenFails
  BY <1>17 DEF OpenFails, Invalidate
<1>18. ASSUME NEW s \in Sessions, NEW newToken \in BOOLEAN, NEW activate \in BOOLEAN,
              SetTokens(s, newToken, activate)
       PROVE  /\ CallsBack => ~IsRendererActive'
              /\ ~CallsBack => (IsRendererActive' <=> IsRendererActive)
  BY <1>18 DEF SetTokens, Reconnect, Invalidate, SocketPhases
<1>19. CASE ReleaseExternalPlayback
  BY <1>19 DEF ReleaseExternalPlayback
<1>20. CASE TokenExpires
  BY <1>20 DEF TokenExpires
<1>21. CASE Senders
  BY <1>21, SendersKeep
<1>22. CASE DeviceSend
  BY <1>22 DEF DeviceSend
<1> HIDE DEF IndInv, TypeOK, Connection, ActiveRuns, CallsBack, IsRendererActive, flags, tokens
<1>23. QED
  BY <1>1, <1>2, <1>3, <1>4, <1>5, <1>6, <1>7, <1>8, <1>9, <1>10, <1>11, <1>12, <1>13,
     <1>14, <1>15, <1>16, <1>17, <1>18, <1>19, <1>20, <1>21, <1>22
     DEF Transport, Progress, Environment

\* Ownership is not confirmed again after stop.
LEMMA ActiveRunsStep ==
  ASSUME IndInv, ActiveRuns, [Next]_vars
  PROVE  ActiveRuns'
<1> USE DEF IndInv, TypeOK, Connection, ActiveRuns, flags, tokens
<1>1. CASE Start
  BY <1>1 DEF Start
<1>2. CASE Stop
  BY <1>2 DEF Stop, Invalidate
<1>3. CASE Cancelled
  BY <1>3 DEF Cancelled, Invalidate, SocketPhases
<1>4. CASE CheckToken
  BY <1>4 DEF CheckToken, BeginConnect
<1>5. CASE MintSucceeds
  BY <1>5 DEF MintSucceeds, BeginConnect
<1>6. CASE Wake
  BY <1>6 DEF Wake
<1>7. CASE Opened
  BY <1>7 DEF Opened
<1>8. CASE Authenticated
  BY <1>8 DEF Authenticated
<1>9. CASE HandshakeOutdated
  BY <1>9 DEF HandshakeOutdated, Leave
<1>10. CASE StartJoin
  BY <1>10 DEF StartJoin
<1>11. CASE JoinSent
  BY <1>11 DEF JoinSent, Leave
<1>12. CASE ClosedForRefresh
  BY <1>12 DEF ClosedForRefresh, Leave
<1>13. CASE Left
  BY <1>13 DEF Left, Invalidate
<1>14. CASE MintFails
  BY <1>14 DEF MintFails
<1>15. CASE RefreshWhenIdle
  BY <1>15 DEF RefreshWhenIdle, Leave
<1>16. CASE ConnectionLost
  BY <1>16 DEF ConnectionLost, Leave
<1>17. CASE OpenFails
  BY <1>17 DEF OpenFails, Invalidate
<1>18. ASSUME NEW s \in Sessions, NEW newToken \in BOOLEAN, NEW activate \in BOOLEAN,
              SetTokens(s, newToken, activate)
       PROVE  ActiveRuns'
  BY <1>18 DEF SetTokens, Reconnect, Invalidate
<1>19. CASE ReleaseExternalPlayback
  BY <1>19 DEF ReleaseExternalPlayback
<1>20. CASE TokenExpires
  BY <1>20 DEF TokenExpires
<1>21. ASSUME NEW active \in BOOLEAN, ReceiveSetActive(active)
       PROVE  ActiveRuns'
  BY <1>21 DEF ReceiveSetActive, Listens
<1>22. CASE Senders
  BY <1>22, SendersKeep
<1>23. CASE DeviceSend
  BY <1>23 DEF DeviceSend
<1>24. CASE UNCHANGED vars
  BY <1>24 DEF vars
<1> HIDE DEF IndInv, TypeOK, Connection, ActiveRuns, flags, tokens
<1>25. QED
  BY <1>1, <1>2, <1>3, <1>4, <1>5, <1>6, <1>7, <1>8, <1>9, <1>10, <1>11, <1>12, <1>13,
     <1>14, <1>15, <1>16, <1>17, <1>18, <1>19, <1>20, <1>21, <1>22, <1>23, <1>24
     DEF Next, Transport, Progress, Environment

\* A message without payload for the manager keeps its invariant.
LEMMA OtherMessageKeeps ==
  ASSUME IndInv, ReceiveCommand
  PROVE  IndInv'
<1>1. used' \in Usage
  BY UsedType DEF IndInv, ReceiveCommand
<1>2. UNCHANGED <<phase, conn, shouldRun, closing, flags, ownershipGeneration,
                  activationRequest, tokens, sends, lockHeld, heard, consumed>>
  BY DEF ReceiveCommand
<1>3. TypeOK'
  BY <1>1, <1>2 DEF IndInv, TypeOK, flags, tokens
<1>4. (Connection /\ Ownership /\ Captured)'
  BY <1>2 DEF IndInv, Connection, Ownership, Captured, IsRendererActive, flags, tokens
<1>5. (Handshake /\ Selections /\ ConnectedToCurrentSession /\ NoArmedTakeover
       /\ SelectionSpentOnce)'
  BY <1>2 DEF IndInv, Handshake, Outdated, Selections, ConnectedToCurrentSession,
     NoArmedTakeover, SelectionSpentOnce, flags, tokens
<1>6. QED
  BY <1>3, <1>4, <1>5 DEF IndInv

-----------------------------------------------------------------------------
(* The handler's part *)

\* A message is of one of three kinds.
LEMMA MessageKind ==
  ASSUME NEW m \in Messages
  PROVE  /\ m.kind \in {"state", "active", "quality"}
         /\ m.kind = "active" => m.on \in BOOLEAN
BY DEF Messages, StateMessages, OwnershipMessages, QualityMessages

\* What a waiting task recorded.
LEMMA EntryType ==
  ASSUME HandlerType, NEW k \in 1..Len(inbox)
  PROVE  inbox[k] \in Entry /\ inbox[k].gen \in Nat
<1>1. inbox[k] \in Entry
  BY DEF HandlerType
<1>2. QED
  BY <1>1 DEF Entry

\* A command applied to the player is of the present generation.
LEMMA AppliedIsCurrent ==
  ASSUME NEW entry \in Entry, PlayerCall(entry) = "apply"
  PROVE  handlerActive /\ entry.gen = generation
<1>1. entry.msg.kind \in {"state", "active", "quality"}
  BY MessageKind DEF Entry
<1>2. IsCurrent(entry)
  BY DEF PlayerCall
<1>3. entry.msg.kind = "state" /\ handlerActive
  BY <1>1, <1>2 DEF PlayerCall
<1>4. QED
  BY <1>2, <1>3 DEF IsCurrent

\* The task of the last deactivation asks for a stop.
LEMMA DeactivationStops ==
  ASSUME NEW k \in 1..Len(inbox), Deactivates(k), ~handlerActive
  PROVE  PlayerCall(inbox[k]) = "stop"
<1>1. IsCurrent(inbox[k])
  BY DEF Deactivates, IsCurrent
<1>2. QED
  BY <1>1 DEF Deactivates, PlayerCall

\* Losing the connection makes every recorded generation an old one.
LEMMA DisconnectKeeps ==
  ASSUME HandlerType, Recorded, Owed, NoteDisconnected, UNCHANGED owedStop, tenure' \in Nat
  PROVE  (HandlerType /\ Recorded /\ Owed)' /\ ~handlerActive'
<1>1. generation' = generation + 1 /\ UNCHANGED inbox /\ ~handlerActive'
  BY DEF NoteDisconnected
<1>2. generation' \in Nat /\ inbox' \in Seq(Entry)
  BY <1>1 DEF HandlerType
<1>3. handlerActive' \in BOOLEAN /\ owedStop' \in BOOLEAN
  BY Zenon DEF HandlerType, NoteDisconnected
<1>4. HandlerType'
  BY <1>2, <1>3 DEF HandlerType
<1>5. Recorded'
  <2> SUFFICES ASSUME NEW k \in 1..Len(inbox)
               PROVE  inbox[k].gen <= generation' /\ inbox[k].gen # generation'
    BY <1>1 DEF Recorded
  <2>1. inbox[k].gen \in Nat
    BY EntryType
  <2>2. QED
    BY <1>1, <2>1 DEF HandlerType, Recorded
<1>6. Owed'
  BY DEF Owed, Deactivates, NoteDisconnected
<1>7. QED
  BY <1>1, <1>4, <1>5, <1>6

\* A message that arrives adds a task of the present generation.
LEMMA DispatchKeeps ==
  ASSUME HandlerType, Recorded, NEW msg \in Messages, Dispatch(msg, tenure),
         handlerActive' => tenure' = tenure, tenure' \in Nat, owedStop' \in BOOLEAN
  PROVE  (HandlerType /\ Recorded)'
<1> DEFINE e == [msg |-> msg, gen |-> generation', tag |-> tenure]
<1>1. msg.kind = "active" => msg.on \in BOOLEAN
  BY MessageKind
<1>2. /\ handlerActive' \in BOOLEAN /\ generation' \in Nat
      /\ generation <= generation'
      /\ generation' = generation => handlerActive' = handlerActive
      /\ msg.kind = "active" => msg.on = handlerActive'
  BY <1>1 DEF HandlerType, Dispatch, NoteActive
<1>3. e \in Entry /\ inbox' = Append(inbox, e)
  BY <1>2 DEF HandlerType, Dispatch, Entry
<1>4. HandlerType'
  BY <1>2, <1>3 DEF HandlerType
<1>5. Recorded'
  <2> SUFFICES ASSUME NEW k \in 1..Len(inbox')
               PROVE  /\ inbox'[k].gen <= generation'
                      /\ inbox'[k].gen = generation' /\ inbox'[k].msg.kind = "active"
                           => inbox'[k].msg.on = handlerActive'
                      /\ inbox'[k].gen = generation' /\ handlerActive'
                           => inbox'[k].tag = tenure'
    BY DEF Recorded
  <2>1. CASE k \in 1..Len(inbox)
    <3>1. inbox[k].gen \in Nat
      BY <2>1, EntryType
    <3>2. inbox'[k] = inbox[k]
      BY <1>3, <2>1 DEF HandlerType
    <3>3. QED
      BY <1>2, <2>1, <3>1, <3>2 DEF Recorded, HandlerType
  <2>2. CASE k = Len(inbox) + 1
    <3>1. inbox'[k] = e
      BY <1>3, <2>2 DEF HandlerType
    <3>2. QED
      BY <1>2, <3>1
  <2>3. QED
    BY <1>3, <2>1, <2>2 DEF HandlerType
<1>6. QED
  BY <1>4, <1>5

\* A task that runs finds what the handler already knows.
LEMMA RunKeeps ==
  ASSUME HandlerType, Recorded, Owed, RunCommand
  PROVE  (HandlerType /\ Recorded /\ Owed)' /\ handlerActive' = handlerActive
<1> DEFINE head == Head(inbox)
<1>1. inbox # <<>> /\ inbox' = Tail(inbox)
  BY DEF RunCommand, RunTask
<1>2. /\ Len(inbox) \in Nat \ {0} /\ Len(inbox') = Len(inbox) - 1
      /\ head = inbox[1] /\ head \in Entry /\ inbox' \in Seq(Entry)
      /\ \A k \in 1..Len(inbox') : inbox'[k] = inbox[k + 1] /\ k + 1 \in 1..Len(inbox)
  BY <1>1 DEF HandlerType
<1>3. IsCurrent(head) /\ head.msg.kind = "active" => head.msg.on = handlerActive
  <2>1. head.msg.kind = "active" => head.msg.on \in BOOLEAN
    BY <1>2, MessageKind DEF Entry
  <2>2. QED
    BY <1>2, <2>1 DEF IsCurrent, Recorded, HandlerType
<1>4. UNCHANGED <<handlerActive, generation, tenure>>
  BY <1>3 DEF RunCommand, RunTask, NoteActive, HandlerType
<1>5. HandlerType'
  BY <1>2, <1>4 DEF HandlerType, RunCommand
<1>6. Recorded'
  BY <1>2, <1>4 DEF Recorded
<1>7. Owed'
  <2> SUFFICES ASSUME owedStop'
               PROVE  ~handlerActive' /\ \E k \in 1..Len(inbox') : Deactivates(k)'
    BY DEF Owed
  <2>1. owedStop /\ PlayerCall(head) # "stop"
    BY DEF RunCommand
  <2>2. ~handlerActive
    BY <2>1 DEF Owed
  <2>3. PICK k \in 1..Len(inbox) : Deactivates(k)
    BY <2>1 DEF Owed
  <2>4. k # 1
    BY <1>2, <2>1, <2>2, <2>3, DeactivationStops
  <2>5. ~(IsCurrent(head) /\ head.msg.kind = "active")
    BY <1>3, <2>1, <2>2 DEF PlayerCall
  <2>6. UNCHANGED deactivation
    BY <2>5 DEF RunCommand, RunTask
  <2>7. k - 1 \in 1..Len(inbox') /\ inbox'[k - 1] = inbox[k]
    BY <1>2, <2>4
  <2>8. Deactivates(k - 1)'
    BY <2>3, <2>6, <2>7 DEF Deactivates
  <2>9. QED
    BY <1>4, <2>2, <2>7, <2>8
<1>8. QED
  BY <1>4, <1>5, <1>6, <1>7

-----------------------------------------------------------------------------
(* The composition *)

\* A new session satisfies the invariant.
LEMMA SessionStart ==
  ASSUME SessionInit
  PROVE  SessionInv
<1>1. IndInv
  BY InitIndInv DEF SessionInit
<1>2. HandlerType
  <2>1. <<>> \in Seq(Entry)
    OBVIOUS
  <2>2. QED
    BY <2>1 DEF SessionInit, HandlerInit, HandlerType
<1>3. ActiveRuns /\ OwnershipAgrees
  BY DEF SessionInit, Init, HandlerInit, ActiveRuns, OwnershipAgrees, IsRendererActive
<1>4. Recorded /\ Owed
  BY DEF SessionInit, HandlerInit, Recorded, Owed
<1>5. QED
  BY <1>1, <1>2, <1>3, <1>4 DEF SessionInv

\* The count of tenures is a number.
LEMMA TenureType ==
  ASSUME tenure \in Nat
  PROVE  EndsTenure \in Nat
BY DEF EndsTenure

\* A step of the manager, with the handler's part of it where the manager calls back.
LEMMA TransportKeeps ==
  ASSUME SessionInv, TransportStep
  PROVE  SessionInv'
<1>1. IndInv /\ ActiveRuns /\ HandlerType /\ OwnershipAgrees /\ Recorded /\ Owed
  BY DEF SessionInv
<1>2. Transport /\ UNCHANGED owedStop /\ tenure' = EndsTenure
  BY DEF TransportStep
<1>3. IndInv' /\ ActiveRuns'
  BY <1>1, <1>2, NextIndInv, ActiveRunsStep DEF Next
<1>4. tenure' \in Nat
  BY <1>1, <1>2, TenureType DEF HandlerType
<1>5. CASE CallsBack
  <2>1. NoteDisconnected
    BY <1>5 DEF TransportStep
  <2>2. (HandlerType /\ Recorded /\ Owed)' /\ ~handlerActive'
    BY <1>1, <1>2, <1>4, <2>1, DisconnectKeeps
  <2>3. ~IsRendererActive'
    BY <1>1, <1>2, <1>5, TransportOwnership
  <2>4. QED
    BY <1>3, <2>2, <2>3 DEF SessionInv, OwnershipAgrees
<1>6. CASE ~CallsBack
  <2>1. UNCHANGED handlerVars
    BY <1>6 DEF TransportStep
  <2>2. IsRendererActive' <=> IsRendererActive
    BY <1>1, <1>2, <1>6, TransportOwnership
  <2>3. tenure' = tenure
    BY <1>2, <2>2 DEF EndsTenure
  <2>4. (HandlerType /\ Recorded /\ Owed)'
    BY <1>1, <1>2, <2>1, <2>3 DEF HandlerType, Recorded, Owed, Deactivates, handlerVars
  <2>5. OwnershipAgrees'
    BY <1>1, <2>1, <2>2 DEF OwnershipAgrees, handlerVars
  <2>6. QED
    BY <1>3, <2>4, <2>5 DEF SessionInv
<1>7. QED
  BY <1>5, <1>6

\* SET_ACTIVE: the manager records it first, then the handler does.
LEMMA OwnershipMessageKeeps ==
  ASSUME SessionInv, NEW on \in BOOLEAN, ReceiveOwnership(on)
  PROVE  SessionInv'
<1> DEFINE msg == [kind |-> "active", on |-> on]
<1>1. IndInv /\ ActiveRuns /\ HandlerType /\ OwnershipAgrees /\ Recorded /\ Owed
  BY DEF SessionInv
<1>2. ReceiveSetActive(on) /\ tenure' = EndsTenure
  BY DEF ReceiveOwnership
<1>3. IndInv' /\ ActiveRuns'
  BY <1>1, <1>2, NextIndInv, ActiveRunsStep DEF Next
<1>4. tenure' \in Nat
  BY <1>1, <1>2, TenureType DEF HandlerType
<1>5. CASE Listens
  <2>1. Dispatch(msg, tenure) /\ owedStop' = ~on
    BY <1>5 DEF ReceiveOwnership
  <2>2. msg \in Messages
    BY DEF Messages, OwnershipMessages
  <2>3. handlerActive' = on
    BY <2>1 DEF Dispatch, NoteActive
  <2>4. IsRendererActive' <=> on
    BY <1>2, <1>5 DEF ReceiveSetActive, Listens, IsRendererActive
  <2>5. OwnershipAgrees'
    BY <2>3, <2>4 DEF OwnershipAgrees
  <2>6. handlerActive' => tenure' = tenure
    BY <1>2, <2>3, <2>4 DEF EndsTenure
  <2>7. (HandlerType /\ Recorded)'
    BY <1>1, <1>4, <2>1, <2>2, <2>6, DispatchKeeps
  <2>8. Owed'
    <3> SUFFICES ASSUME ~on
                 PROVE  ~handlerActive' /\ \E k \in 1..Len(inbox') : Deactivates(k)'
      BY <2>1 DEF Owed
    <3>1. ~handlerActive'
      BY <2>3
    <3>2. deactivation' = generation'
      BY <2>1 DEF Dispatch, NoteActive
    <3>3. inbox' = Append(inbox, [msg |-> msg, gen |-> generation', tag |-> tenure])
      BY <2>1 DEF Dispatch
    <3>4. PICK n \in 1..Len(inbox') :
            inbox'[n] = [msg |-> msg, gen |-> generation', tag |-> tenure]
      <4>1. Len(inbox) + 1 \in 1..Len(inbox')
        BY <1>1, <3>3 DEF HandlerType
      <4>2. inbox'[Len(inbox) + 1] = [msg |-> msg, gen |-> generation', tag |-> tenure]
        BY <1>1, <3>3 DEF HandlerType
      <4>3. QED
        BY <4>1, <4>2
    <3>5. Deactivates(n)'
      BY <3>2, <3>4 DEF Deactivates
    <3>6. QED
      BY <3>1, <3>4, <3>5
  <2>9. QED
    BY <1>3, <2>5, <2>7, <2>8 DEF SessionInv
<1>6. CASE ~Listens
  <2>1. UNCHANGED handlerVars /\ UNCHANGED owedStop
    BY <1>6 DEF ReceiveOwnership
  <2>2. IsRendererActive' <=> IsRendererActive
    BY <1>2, <1>6 DEF ReceiveSetActive, IsRendererActive
  <2>3. tenure' = tenure
    BY <1>2, <2>2 DEF EndsTenure
  <2>4. (HandlerType /\ Recorded /\ Owed)'
    BY <1>1, <2>1, <2>3 DEF HandlerType, Recorded, Owed, Deactivates, handlerVars
  <2>5. OwnershipAgrees'
    BY <1>1, <2>1, <2>2 DEF OwnershipAgrees, handlerVars
  <2>6. QED
    BY <1>3, <2>4, <2>5 DEF SessionInv
<1>7. QED
  BY <1>5, <1>6

\* A SET_STATE or quality message becomes a task of the present tenure.
LEMMA CommandKeeps ==
  ASSUME SessionInv, ReceiveCommand
  PROVE  SessionInv'
<1>1. IndInv /\ ActiveRuns /\ HandlerType /\ OwnershipAgrees /\ Recorded /\ Owed
  BY DEF SessionInv
<1>2. IndInv'
  BY <1>1, OtherMessageKeeps
<1>3. UNCHANGED <<phase, shouldRun, flags, tenure, owedStop>>
  BY DEF ReceiveCommand
<1>4. PICK msg \in StateMessages \cup QualityMessages : Dispatch(msg, tenure)
  BY DEF ReceiveCommand
<1>5. msg \in Messages
  BY DEF Messages
<1>6. msg.kind # "active"
  BY DEF StateMessages, QualityMessages
<1>7. /\ UNCHANGED <<handlerActive, generation, deactivation>>
      /\ inbox' = Append(inbox, [msg |-> msg, gen |-> generation', tag |-> tenure])
  BY <1>4, <1>6 DEF Dispatch
<1>8. (HandlerType /\ Recorded)'
  <2>1. tenure' = tenure /\ tenure' \in Nat /\ owedStop' \in BOOLEAN
    BY <1>1, <1>3 DEF HandlerType
  <2>2. QED
    BY <1>1, <1>4, <1>5, <2>1, DispatchKeeps
<1>9. ActiveRuns' /\ OwnershipAgrees'
  BY <1>1, <1>3, <1>7 DEF ActiveRuns, OwnershipAgrees, IsRendererActive, flags
<1>10. Owed'
  <2>1. \A k \in 1..Len(inbox) : k \in 1..Len(inbox') /\ inbox'[k] = inbox[k]
    BY <1>1, <1>7 DEF HandlerType
  <2>2. \A k \in 1..Len(inbox) : Deactivates(k) =>
          /\ inbox'[k].msg.kind = "active" /\ ~inbox'[k].msg.on
          /\ inbox'[k].gen = deactivation'
    BY <1>7, <2>1 DEF Deactivates
  <2>3. QED
    BY <1>1, <1>3, <1>7, <2>1, <2>2 DEF Owed, Deactivates
<1>11. QED
  BY <1>2, <1>8, <1>9, <1>10 DEF SessionInv

\* A task of the handler runs; the manager does not notice.
LEMMA TaskKeeps ==
  ASSUME SessionInv, RunCommand
  PROVE  SessionInv'
<1>1. (HandlerType /\ Recorded /\ Owed)' /\ handlerActive' = handlerActive
  BY RunKeeps DEF SessionInv
<1>2. UNCHANGED vars
  BY DEF RunCommand
<1>3. IndInv' /\ ActiveRuns'
  BY <1>2, NextIndInv, ActiveRunsStep DEF SessionInv
<1>4. OwnershipAgrees'
  BY <1>1, <1>2 DEF SessionInv, OwnershipAgrees, IsRendererActive, vars, flags
<1>5. QED
  BY <1>1, <1>3, <1>4 DEF SessionInv

\* Nothing happens.
LEMMA StutterKeeps ==
  ASSUME SessionInv, UNCHANGED sessionVars
  PROVE  SessionInv'
<1>1. UNCHANGED vars /\ UNCHANGED handlerVars /\ UNCHANGED <<tenure, owedStop>>
  BY DEF sessionVars
<1>2. IndInv' /\ ActiveRuns'
  BY <1>1, NextIndInv, ActiveRunsStep DEF SessionInv
<1>3. (HandlerType /\ Recorded /\ Owed)'
  BY <1>1 DEF SessionInv, HandlerType, Recorded, Owed, Deactivates, handlerVars
<1>4. OwnershipAgrees'
  BY <1>1 DEF SessionInv, OwnershipAgrees, IsRendererActive, handlerVars, vars, flags
<1>5. QED
  BY <1>2, <1>3, <1>4 DEF SessionInv

\* Manager and handler together keep the strengthened invariant.
THEOREM SessionInvariance == SessionSpec => []SessionInv
<1>1. SessionInit => SessionInv
  BY SessionStart
<1>2. SessionInv /\ [SessionNext]_sessionVars => SessionInv'
  BY TransportKeeps, OwnershipMessageKeeps, CommandKeeps, TaskKeeps, StutterKeeps
     DEF SessionNext
<1>3. QED
  BY <1>1, <1>2, PTL DEF SessionSpec

-----------------------------------------------------------------------------
\* The handler accepts commands exactly while the manager holds confirmed ownership.
THEOREM OwnershipAgreement == SessionSpec => []OwnershipAgrees
<1>1. SessionInv => OwnershipAgrees
  BY DEF SessionInv
<1>2. QED
  BY <1>1, SessionInvariance, PTL

\* No task of an earlier connection or an earlier tenure applies its command.
THEOREM StaleCommandsAreDead == SessionSpec => []StaleCommandsDie
<1>1. SessionInv => StaleCommandsDie
  <2> SUFFICES ASSUME SessionInv, inbox # <<>>, PlayerCall(Head(inbox)) = "apply"
               PROVE  IsRendererActive /\ Head(inbox).tag = tenure
    BY DEF StaleCommandsDie
  <2>1. 1 \in 1..Len(inbox) /\ Head(inbox) = inbox[1]
    BY DEF SessionInv, HandlerType
  <2>2. inbox[1] \in Entry
    BY <2>1, EntryType DEF SessionInv
  <2>3. handlerActive /\ inbox[1].gen = generation
    BY <2>1, <2>2, AppliedIsCurrent
  <2>4. QED
    BY <2>1, <2>3 DEF SessionInv, OwnershipAgrees, Recorded
<1>2. QED
  BY <1>1, SessionInvariance, PTL

\* A stop that a received deactivation owes always has a task that will ask for it.
THEOREM DeactivationsAreKept == SessionSpec => []DeactivationIsKept
<1>1. SessionInv => DeactivationIsKept
  BY DeactivationStops DEF SessionInv, Owed, DeactivationIsKept
<1>2. QED
  BY <1>1, SessionInvariance, PTL
=============================================================================

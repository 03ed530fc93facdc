-------------------------- MODULE IncidentGateway --------------------------
(***************************************************************************)
(* One voice websocket session (internal/discord/voice_gateway.go): Open   *)
(* dials and waits for the session to be ready, a reader goroutine owns    *)
(* every failure, a heartbeat goroutine breaks the reader when the server  *)
(* falls silent, Close may come at any time.  There is no reconnect.  The  *)
(* server (external) greets with Hello, then Ready, and answers heartbeats *)
(* until it falls silent or resets the connection.  DAVE and the meaning   *)
(* of the other messages are left out.                                     *)
(***************************************************************************)
EXTENDS Naturals

VARIABLES
  opener,    \* Open: "idle", "dialing", "leaving" (no channel), "waiting", "ended"
  ctxDone,   \* the context of Open is done
  socket,    \* "none", "open", "closed"
  gconn,     \* g.conn is set
  gclosed,    \* g.closed
  lifeDone,  \* the context of the goroutines
  toClose,   \* CloseWithCode has yet to close the socket
  reader,    \* the listener: "none", "reading", "failed", "reported", "closing",
             \* "telling", "done"
  ready,     \* the ready channel holds a result
  beat,      \* the heartbeat: "none", "running", "done"
  awaiting,  \* awaitingACK
  asked,     \* heartbeats the server has received and not answered
  greeted,   \* messages so far: 0, 1 (Hello), 2 (Ready)
  server,    \* "alive", "silent", "reset"
  told,      \* times closeHandler was called
  owner      \* the owner called Close, or Open gave up: "no", "before" or "after"
             \* the reader looked whether somebody had

gatewayVars == <<opener, ctxDone, socket, gconn, gclosed, lifeDone, toClose, reader,
                 ready, beat, awaiting, asked, greeted, server, told, owner>>

-----------------------------------------------------------------------------
\* CloseWithCode under g.mu; the socket is closed after the unlock.
Close ==
  IF gclosed
    THEN UNCHANGED <<gclosed, lifeDone, toClose>>
    ELSE gclosed' = TRUE /\ lifeDone' = TRUE /\ toClose' = gconn

SocketCloses ==
  /\ toClose /\ toClose' = FALSE /\ socket' = "closed"
  /\ UNCHANGED <<opener, ctxDone, gconn, gclosed, lifeDone, reader, ready, beat, awaiting,
                 asked, greeted, server, told, owner>>

\* The close of the owner, seen from the reader.
OwnerClose ==
  /\ Close
  /\ owner' = IF owner # "no" THEN owner
              ELSE IF reader \in {"closing", "telling", "done"} THEN "after" ELSE "before"

OwnerCloses ==
  /\ OwnerClose
  /\ UNCHANGED <<opener, ctxDone, socket, gconn, reader, ready, beat, awaiting, asked,
                 greeted, server, told>>

-----------------------------------------------------------------------------
OpenBegins ==
  /\ opener = "idle"
  /\ opener' = IF gclosed THEN "ended" ELSE "dialing"
  /\ UNCHANGED <<ctxDone, socket, gconn, gclosed, lifeDone, toClose, reader, ready, beat,
                 awaiting, asked, greeted, server, told, owner>>

DialFails ==
  /\ opener = "dialing" /\ opener' = "ended"
  /\ UNCHANGED <<ctxDone, socket, gconn, gclosed, lifeDone, toClose, reader, ready, beat,
                 awaiting, asked, greeted, server, told, owner>>

\* Mutant of DialDone: a Close during the dial goes unnoticed.
DialDoneUnchecked ==
  /\ opener = "dialing" /\ ~ctxDone
  /\ opener' = "waiting" /\ socket' = "open" /\ gconn' = TRUE /\ reader' = "reading"
  /\ UNCHANGED <<ctxDone, gclosed, lifeDone, toClose, ready, beat, awaiting, asked,
                 greeted, server, told, owner>>

\* The dial succeeds: a session closed meanwhile drops the socket, otherwise
\* the reader starts, unless the state names no channel.
DialDone ==
  /\ opener = "dialing" /\ ~ctxDone
  /\ \/ gclosed /\ opener' = "ended" /\ socket' = "closed" /\ UNCHANGED <<gconn, reader>>
     \/ /\ ~gclosed /\ socket' = "open" /\ gconn' = TRUE
        /\ \/ opener' = "waiting" /\ reader' = "reading"
           \/ opener' = "leaving" /\ UNCHANGED reader
  /\ UNCHANGED <<ctxDone, gclosed, lifeDone, toClose, ready, beat, awaiting, asked,
                 greeted, server, told, owner>>

\* Open refuses the missing channel and closes the session.
ChannelMissing ==
  /\ opener = "leaving" /\ opener' = "ended"
  /\ OwnerClose
  /\ UNCHANGED <<ctxDone, socket, gconn, reader, ready, beat, awaiting, asked, greeted,
                 server, told>>

\* select of Open: the session is ready or has failed, or the context is done.
OpenReturns ==
  /\ opener = "waiting" /\ opener' = "ended"
  /\ \/ ready /\ UNCHANGED <<gclosed, lifeDone, toClose, owner>>
     \/ ctxDone /\ OwnerClose
  /\ UNCHANGED <<ctxDone, socket, gconn, reader, ready, beat, awaiting, asked, greeted,
                 server, told>>

CtxExpires ==
  /\ opener \in {"dialing", "waiting"} /\ ~ctxDone /\ ctxDone' = TRUE
  /\ UNCHANGED <<opener, socket, gconn, gclosed, lifeDone, toClose, reader, ready, beat,
                 awaiting, asked, greeted, server, told, owner>>

-----------------------------------------------------------------------------
\* listen.  Hello: Identify is sent, which may fail, and the heartbeat starts.
Reads == reader = "reading" /\ socket = "open" /\ server = "alive"
ReadHello ==
  /\ Reads /\ greeted = 0 /\ greeted' = 1
  /\ \/ ~gclosed /\ beat' = "running" /\ UNCHANGED reader
     \/ reader' = "failed" /\ UNCHANGED beat
  /\ UNCHANGED <<opener, ctxDone, socket, gconn, gclosed, lifeDone, toClose, ready,
                 awaiting, asked, server, told, owner>>

ReadReady ==
  /\ Reads /\ greeted = 1 /\ greeted' = 2 /\ ready' = TRUE
  /\ UNCHANGED <<opener, ctxDone, socket, gconn, gclosed, lifeDone, toClose, reader, beat,
                 awaiting, asked, server, told, owner>>

\* An ACK must answer the outstanding heartbeat.
ReadAck ==
  /\ Reads /\ asked > 0 /\ asked' = asked - 1
  /\ IF awaiting THEN awaiting' = FALSE /\ UNCHANGED reader
                 ELSE reader' = "failed" /\ UNCHANGED awaiting
  /\ UNCHANGED <<opener, ctxDone, socket, gconn, gclosed, lifeDone, toClose, ready, beat,
                 greeted, server, told, owner>>

\* A read error (the socket closed on either side) or a message against the
\* protocol (a second Hello, an ACK nobody asked for).
ReadFails ==
  /\ reader = "reading" /\ (socket = "closed" \/ server # "silent")
  /\ reader' = "failed"
  /\ UNCHANGED <<opener, ctxDone, socket, gconn, gclosed, lifeDone, toClose, ready, beat,
                 awaiting, asked, greeted, server, told, owner>>

\* listen has returned: Open is told...
ReaderReports ==
  /\ reader = "failed" /\ reader' = "reported" /\ ready' = TRUE
  /\ UNCHANGED <<opener, ctxDone, socket, gconn, gclosed, lifeDone, toClose, beat, awaiting,
                 asked, greeted, server, told, owner>>

\* Mutant of ReaderLooks: every end of the reader is unexpected.
ReaderNeverLooks ==
  /\ reader = "reported" /\ reader' = "closing"
  /\ UNCHANGED <<opener, ctxDone, socket, gconn, gclosed, lifeDone, toClose, ready, beat,
                 awaiting, asked, greeted, server, told, owner>>

\* ... and then a session that nobody has closed meanwhile...
ReaderLooks ==
  /\ reader = "reported" /\ reader' = IF gclosed THEN "done" ELSE "closing"
  /\ UNCHANGED <<opener, ctxDone, socket, gconn, gclosed, lifeDone, toClose, ready, beat,
                 awaiting, asked, greeted, server, told, owner>>

\* ... is closed by the reader...
ReaderCloses ==
  /\ reader = "closing" /\ reader' = "telling"
  /\ Close
  /\ UNCHANGED <<opener, ctxDone, socket, gconn, ready, beat, awaiting, asked, greeted,
                 server, told, owner>>

\* ... and reported to the connection.
ReaderTells ==
  /\ reader = "telling" /\ ~toClose
  /\ reader' = "done" /\ told' = told + 1
  /\ UNCHANGED <<opener, ctxDone, socket, gconn, gclosed, lifeDone, toClose, ready, beat,
                 awaiting, asked, greeted, server, owner>>

-----------------------------------------------------------------------------
\* heartbeat.
BeatCanceled ==
  /\ beat = "running" /\ lifeDone /\ beat' = "done"
  /\ UNCHANGED <<opener, ctxDone, socket, gconn, gclosed, lifeDone, toClose, reader, ready,
                 awaiting, asked, greeted, server, told, owner>>

BeatSends ==
  /\ beat = "running" /\ ~lifeDone /\ ~awaiting
  /\ awaiting' = TRUE
  /\ \/ ~gclosed /\ socket = "open" /\ asked' = asked + 1 /\ UNCHANGED <<beat, socket>>
     \/ beat' = "done" /\ socket' = "closed" /\ UNCHANGED asked
  /\ UNCHANGED <<opener, ctxDone, gconn, gclosed, lifeDone, toClose, reader, ready, greeted,
                 server, told, owner>>

\* Mutant of BeatTimesOut: the heartbeat closes the session itself.
BeatTimesOutCloses ==
  /\ beat = "running" /\ ~lifeDone /\ awaiting
  /\ beat' = "done" /\ Close
  /\ UNCHANGED <<opener, ctxDone, socket, gconn, reader, ready, awaiting, asked, greeted,
                 server, told, owner>>

\* Mutant of BeatTimesOut: the heartbeat ends and leaves the reader alone.
BeatTimesOutQuietly ==
  /\ beat = "running" /\ ~lifeDone /\ awaiting
  /\ beat' = "done"
  /\ UNCHANGED <<opener, ctxDone, socket, gconn, gclosed, lifeDone, toClose, reader, ready,
                 awaiting, asked, greeted, server, told, owner>>

\* No ACK for a whole interval: only the socket is closed, the reader does the
\* rest.
BeatTimesOut ==
  /\ beat = "running" /\ ~lifeDone /\ awaiting
  /\ beat' = "done" /\ socket' = "closed"
  /\ UNCHANGED <<opener, ctxDone, gconn, gclosed, lifeDone, toClose, reader, ready,
                 awaiting, asked, greeted, server, told, owner>>

-----------------------------------------------------------------------------
\* The server or the network between (external).
ServerDies ==
  /\ server = "alive" /\ server' \in {"silent", "reset"}
  /\ UNCHANGED <<opener, ctxDone, socket, gconn, gclosed, lifeDone, toClose, reader, ready,
                 beat, awaiting, asked, greeted, told, owner>>

GatewayInit ==
  /\ opener = "idle" /\ ctxDone = FALSE /\ socket = "none" /\ gconn = FALSE
  /\ gclosed = FALSE /\ lifeDone = FALSE /\ toClose = FALSE
  /\ reader = "none" /\ ready = FALSE /\ beat = "none" /\ awaiting = FALSE /\ asked = 0
  /\ greeted = 0 /\ server = "alive" /\ told = 0 /\ owner = "no"

ReaderStep ==
  \/ ReadHello \/ ReadReady \/ ReadAck
  \/ ReaderReports \/ ReaderLooks \/ ReaderCloses \/ ReaderTells
BeatStep == BeatCanceled \/ BeatSends \/ BeatTimesOut

GatewayNext ==
  \/ OpenBegins \/ DialFails \/ DialDone \/ ChannelMissing \/ OpenReturns \/ CtxExpires
  \/ OwnerCloses \/ SocketCloses \/ ReaderStep \/ ReadFails \/ BeatStep \/ ServerDies

\* Goroutines run, the ticker fires, every caller of Open sets a deadline, and
\* a dead socket makes the read return.
GatewayProgress ==
  \/ ChannelMissing \/ OpenReturns \/ CtxExpires \/ SocketCloses \/ ReaderStep \/ BeatStep
  \/ ReadFails /\ (socket = "closed" \/ server = "reset")
GatewayFairness == WF_gatewayVars(GatewayProgress)

GatewaySpec == GatewayInit /\ [][GatewayNext]_gatewayVars /\ GatewayFairness

-----------------------------------------------------------------------------
\* A session whose reader ended is reported, once, exactly if its owner had not
\* closed it by the time the reader looked: the heartbeat must not close it, or
\* the reader takes the loss for a wanted end, and the owner is not told of an
\* end it asked for.
LossIsTold ==
  /\ told <= 1
  /\ owner = "before" => told = 0
  /\ reader = "done" /\ owner # "before" => told = 1

\* Once nothing runs any more no socket is left open: a Close during the dial
\* is not lost.
NoSocketLeft ==
  opener = "ended" /\ reader \in {"none", "done"} /\ ~toClose => socket # "open"

\* The server is gone and the session still looks alive.
GatewayWaits == server # "alive" /\ socket = "open" /\ ~gclosed

\* A session ends told, unless its owner closed it first, and without a socket.
GatewaySound == LossIsTold /\ NoSocketLeft
=============================================================================

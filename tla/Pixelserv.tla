----------------------------- MODULE Pixelserv ------------------------------
(* pixelserv as it is built here (TEXT_REPLY, DROP_ROOT, READ_FILE,        *)
(* READ_GIF, without DO_COUNT): one child per connection, which reads the  *)
(* beginning of a request, answers, and reads on until the client is done, *)
(* because closing a connection with unread data resets it.                *)
EXTENDS Naturals, Sequences, FiniteSets, SequencesExt

CONSTANTS PixelLoads  \* a set of [file, faults, clients, terms]:
                      \*  file     "", or the response read from a file: "f" or "g"
                      \*  faults   the steps of the start-up that fail
                      \*  clients  a sequence of [asks, parts, slow, leaves]: the kind of
                      \*           request, of how many buffers; whether it pauses for more
                      \*           than two seconds, and may close before the answer
                      \*  terms    how often SIGTERM is sent at most

VARIABLES xload, px
pixelvars == <<xload, px>>

StartSteps == <<"file", "daemon", "listen", "handlers", "user">>
Kids == DOMAIN xload.clients
Client(c) == xload.clients[c]

NoKid == [at |-> "none", status |-> "FAILURE", resp |-> "", killed |-> FALSE]
NewWire == [left |-> 0, unread |-> 0, fin |-> FALSE, got |-> "", reset |-> FALSE, done |-> FALSE]

PixelInit ==
  /\ xload \in PixelLoads
  /\ px = [at |-> "file", kids |-> [c \in Kids |-> NoKid], backlog |-> <<>>, chld |-> FALSE,
           reaping |-> FALSE, terms |-> 0,
           wire |-> [c \in Kids |-> [NewWire EXCEPT !.left = Client(c).parts]]]

Update(c, k, w) == px' = [px EXCEPT !.kids[c] = k, !.wire[c] = w]

(* main, up to the loop: any step may fail and ends the program; after     *)
(* daemon nobody sees that.                                                *)
StartServer ==
  /\ px.at \in ToSet(StartSteps)
  /\ px' = [px EXCEPT !.at =
       IF px.at \in xload.faults /\ (px.at = "file" => xload.file # "") THEN "exited"
       ELSE IF px.at = Last(StartSteps) THEN "accept"
       ELSE StartSteps[SelectInSeq(StartSteps, LAMBDA s : s = px.at) + 1]]
  /\ UNCHANGED xload

-----------------------------------------------------------------------------
(* Clients (external): connect, send their request part by part, close.    *)
ClientConnects ==
  /\ px.at \notin {"exited"} \cup ToSet(SubSeq(StartSteps, 1, 3))
  /\ \E c \in Kids :
       /\ px.kids[c].at = "none" /\ ~px.wire[c].done /\ c \notin ToSet(px.backlog)
       /\ px' = [px EXCEPT !.backlog = Append(@, c)]
  /\ UNCHANGED xload

ClientSends ==
  /\ \E c \in Kids :
       LET w == px.wire[c]
       IN /\ w.left > 0 /\ ~w.fin /\ px.kids[c].at # "none"
          /\ Update(c, px.kids[c], IF w.done THEN [w EXCEPT !.left = 0, !.reset = TRUE]
                                ELSE [w EXCEPT !.left = @ - 1, !.unread = @ + 1])
  /\ UNCHANGED xload

ClientCloses ==
  /\ \E c \in Kids :
       /\ px.kids[c].at # "none" /\ ~px.wire[c].fin
       /\ px.wire[c].got # "" \/ px.wire[c].done \/ Client(c).leaves
       /\ Update(c, px.kids[c], [px.wire[c] EXCEPT !.fin = TRUE])
  /\ UNCHANGED xload

(* select comes to its two seconds: nothing is there, and the client is    *)
(* slow or has nothing more to send.                                       *)
TwoSeconds(c) ==
  LET w == px.wire[c] IN w.unread = 0 /\ ~w.fin /\ (w.left = 0 \/ Client(c).slow)

-----------------------------------------------------------------------------
(* The server accepts and forks; SIGTERM ends it at any time.  A           *)
(* connection whose child cannot be forked is closed.                      *)
AcceptAndFork ==
  /\ px.at = "accept" /\ ~px.reaping /\ px.backlog # <<>>
  /\ \E forked \in BOOLEAN :
       LET c == Head(px.backlog)
       IN px' = IF forked THEN [px EXCEPT !.backlog = Tail(@), !.kids[c].at = "new"]
                ELSE [px EXCEPT !.backlog = Tail(@), !.wire[c].done = TRUE, !.wire[c].reset = TRUE]
  /\ UNCHANGED xload

Exits(v, c) == [v EXCEPT !.kids[c].at = "zombie", !.chld = (v.at # "exited")]

(* Closing while data is unread resets the connection.                     *)
Closed(w) == [w EXCEPT !.done = TRUE, !.reset = @ \/ w.unread > 0, !.unread = 0]

Term ==
  /\ px.terms < xload.terms
  /\ \/ /\ px.at # "exited"
        /\ px' = [px EXCEPT !.at = "exited", !.terms = @ + 1, !.reaping = FALSE, !.chld = FALSE]
     \/ \E c \in Kids :
          /\ px.kids[c].at \notin {"none", "zombie", "gone"}
          /\ px' = Exits([px EXCEPT !.kids[c].killed = TRUE, !.wire[c] = Closed(@), !.terms = @ + 1], c)
  /\ UNCHANGED xload

(* signal_handler for SIGCHLD: waits for children while there are dead     *)
(* ones; one that dies later sets the signal again.                        *)
signal_handler ==
  /\ px.at # "exited" /\ px.chld /\ ~px.reaping
  /\ px' = [px EXCEPT !.chld = FALSE, !.reaping = TRUE]
  /\ UNCHANGED xload

Reaped(v, c) == [v EXCEPT !.kids[c].at = "gone"]

WaitChild ==
  /\ px.reaping
  /\ LET dead == {c \in Kids : px.kids[c].at = "zombie"}
     IN \/ \E c \in dead : px' = Reaped(px, c)
        \/ dead = {} /\ px' = [px EXCEPT !.reaping = FALSE]
  /\ UNCHANGED xload

(* A child's answer by the beginning of its request: its exit status and   *)
(* what it sends.                                                          *)
Pixel == IF xload.file = "" THEN "pixel" ELSE xload.file

ReplyTo(asks) ==
  CASE asks = "blank" -> [status |-> "FAILURE", resp |-> ""]
    [] asks = "POST" -> [status |-> "BAD", resp |-> "501"]
    [] asks \in {"GET", "GET path"} -> [status |-> "SUCCESS", resp |-> Pixel]
    [] asks = "GET /name" -> [status |-> "SUCCESS", resp |-> "501"]
    [] asks = "GET .js" -> [status |-> "TXT", resp |-> "js"]
    [] asks = "GET .htm" -> [status |-> "TXT", resp |-> "html"]
    [] asks = "GET .gif" -> [status |-> "SUCCESS", resp |-> Pixel]

(* select and recv, with the request; nothing came: no answer.             *)
ReadRequest ==
  /\ \E c \in Kids :
       LET k == px.kids[c] w == px.wire[c]
       IN /\ k.at = "new"
          /\ \/ /\ w.unread > 0
                /\ Update(c, [k EXCEPT !.at = IF ReplyTo(Client(c).asks).status = "FAILURE" THEN "drain" ELSE "send",
                                    !.status = ReplyTo(Client(c).asks).status, !.resp = ReplyTo(Client(c).asks).resp],
                       [w EXCEPT !.unread = @ - 1])
             \/ /\ TwoSeconds(c) \/ (w.fin /\ w.unread = 0)
                /\ Update(c, [k EXCEPT !.at = "drain"], w)
  /\ UNCHANGED xload

(* The answer; a client that has gone makes it fail with SIGPIPE.          *)
SendReply ==
  /\ \E c \in Kids :
       LET k == px.kids[c] w == px.wire[c]
       IN /\ k.at = "send"
          /\ \/ Update(c, [k EXCEPT !.at = "drain"], [w EXCEPT !.got = k.resp])
             \/ /\ w.fin /\ w.got = ""
                /\ px' = Exits([px EXCEPT !.kids[c].killed = TRUE, !.wire[c] = Closed(@)], c)
  /\ UNCHANGED xload

(* shutdown of the sending side, then reading on until nothing comes for   *)
(* two seconds or the client has closed.                                   *)
FaultyMayClose(c) == TRUE

MayClose(c) == TwoSeconds(c) \/ (px.wire[c].fin /\ px.wire[c].unread = 0)

Drain ==
  /\ \E c \in Kids :
       LET k == px.kids[c] w == px.wire[c]
       IN /\ k.at = "drain"
          /\ \/ /\ w.unread > 0
                /\ Update(c, k, [w EXCEPT !.unread = @ - 1])
             \/ /\ MayClose(c)
                /\ px' = Exits([px EXCEPT !.wire[c] = Closed(@)], c)
  /\ UNCHANGED xload

PixelNext ==
  \/ StartServer \/ ClientConnects \/ ClientSends \/ ClientCloses \/ AcceptAndFork \/ Term
  \/ signal_handler \/ WaitChild \/ ReadRequest \/ SendReply \/ Drain

-----------------------------------------------------------------------------
(* No child stays a zombie unseen: while one is dead, the server is in its *)
(* handler or SIGCHLD waits, though signals that fall together come once.  *)
(* A client that sends its request without pauses and waits for the answer *)
(* gets the one for its request, however long the request is, and its      *)
(* connection is not reset when its child closes it, unless SIGTERM or a   *)
(* failing fork came in between: the comment at pixelserv30.c:587 calls    *)
(* this a "clean way to flush read buffers and close connection".          *)
PixelsComplete ==
  /\ px.at # "exited" /\ (\E c \in Kids : px.kids[c].at = "zombie") => px.chld \/ px.reaping
  /\ \A c \in Kids :
       LET w == px.wire[c] patient == ~Client(c).slow /\ ~Client(c).leaves
       IN /\ w.done /\ patient /\ ~px.kids[c].killed /\ px.kids[c].at # "none" =>
               ~w.reset /\ w.got = ReplyTo(Client(c).asks).resp
          /\ w.got \in {"", ReplyTo(Client(c).asks).resp}
=============================================================================

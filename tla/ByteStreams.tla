----------------------------- MODULE ByteStreams -----------------------------
(***************************************************************************)
(* What a TCP redirector promises, with no buffers, slots or sockets in    *)
(* it.  A connection joins two ends and has one stream of bytes from each  *)
(* end to the other.  Bytes arrive in the order they were sent, each one   *)
(* once.  An end is told that its connection is over only when it has been *)
(* given everything the other end sent before finishing, or when it has    *)
(* finished itself, or when the connection was cut (reset, or it could not *)
(* be made).  Connections that are not admitted carry nothing.             *)
(***************************************************************************)
EXTENDS Naturals, Sequences

CONSTANTS Conns,          \* the connections
          Ends            \* the two ends of a connection

VARIABLES stream,   \* stream[c][e]: what end e sends on c, and what arrived
          admitted, \* admitted[c]: the rules let c be redirected
          served,   \* served[c]: the connection is being redirected
          cut       \* cut[c]: the connection was lost

far(e) == CHOOSE x \in Ends : x # e

(* The rules are the environment's; they are not part of the steps.  *)
Fresh == [sent |-> <<>>, got |-> <<>>, fin |-> FALSE, eof |-> FALSE]

Begin == /\ stream = [c \in Conns |-> [e \in Ends |-> Fresh]]
         /\ served = [c \in Conns |-> FALSE]
         /\ cut = [c \in Conns |-> FALSE]

Serve(c) == admitted[c] /\ ~served[c] /\ served' = [served EXCEPT ![c] = TRUE]
            /\ UNCHANGED <<stream, cut>>

Put(c, e) == /\ ~stream[c][e].fin
             /\ \E b \in 1..(Len(stream[c][e].sent) + 1) :
                  stream' = [stream EXCEPT ![c][e].sent = Append(@, b)]
             /\ UNCHANGED <<served, cut>>

Finish(c, e) == /\ ~stream[c][e].fin
                /\ stream' = [stream EXCEPT ![c][e].fin = TRUE]
                /\ UNCHANGED <<served, cut>>

Break(c) == ~cut[c] /\ cut' = [cut EXCEPT ![c] = TRUE]
            /\ UNCHANGED served
            /\ \E F \in SUBSET Ends :
                 stream' = [stream EXCEPT ![c] = [e \in Ends |->
                   IF e \in F THEN [@[e] EXCEPT !.fin = TRUE] ELSE @[e]]]

Deliver(c, e) ==
  LET w == stream[c][e] IN
  /\ served[c] /\ ~w.eof
  /\ \E k \in (Len(w.got) + 1)..Len(w.sent) :
       stream' = [stream EXCEPT ![c][e].got = SubSeq(w.sent, 1, k)]
  /\ UNCHANGED <<served, cut>>

(* The end that reads stream e may be told that it is over. *)
MayEnd(c, e) == \/ stream[c][e].fin /\ stream[c][e].got = stream[c][e].sent
                \/ stream[c][far(e)].fin
                \/ cut[c]
                \/ ~served[c]

End(c, e) == /\ ~stream[c][e].eof /\ MayEnd(c, e)
             /\ stream' = [stream EXCEPT ![c][e].eof = TRUE]
             /\ UNCHANGED <<served, cut>>

(* A connection that is never made ends both streams at once. *)
Refuse(c) == /\ ~served[c]
             /\ cut' \in {cut, [cut EXCEPT ![c] = TRUE]}
             /\ \E e \in Ends : stream' = [stream EXCEPT ![c][e].eof = TRUE]
             /\ UNCHANGED served

streams == <<stream, served, cut>>

Step == /\ streams' # streams
        /\ \E c \in Conns :
             \/ Serve(c) \/ Break(c) \/ Refuse(c)
             \/ \E e \in Ends :
                  Put(c, e) \/ Finish(c, e) \/ Deliver(c, e) \/ End(c, e)

Progress == \A c \in Conns : \A e \in Ends :
              /\ WF_streams(Deliver(c, e))
              /\ WF_streams(served[c] /\ End(c, e))

StreamSpec == Begin /\ [][Step]_streams /\ Progress
=============================================================================

------------------------------- MODULE Stream -------------------------------
(***************************************************************************)
(* The socket driver (src/src/ktli_socket.c) and the framing of received   *)
(* messages (ktli_recvmsg, src/src/ktli.c): the sender thread writes one   *)
(* message after the other with writev, the receiver thread polls and      *)
(* reads a header and then the message and the value it announces with     *)
(* readv, on a non-blocking socket that takes and gives any number of      *)
(* bytes at a time.                                                        *)
(*                                                                         *)
(* A byte is named by its message, its segment (header, message, value)    *)
(* and its place in the segment, so that a byte that is lost, repeated or  *)
(* put in the wrong place shows.                                           *)
(***************************************************************************)
EXTENDS Integers, SequencesExt

CONSTANTS
    Loads,       \* what is sent: for each message the lengths of its segments,
                 \* of the library (req) and of the device (rsp)
    KP_PLENGTH,  \* length of a header
    MaxConns     \* bound: connections made

ASSUME StreamAssumption ==
    /\ MaxConns \in Nat \ {0}
    /\ KP_PLENGTH \in Nat \ {0}
    /\ \A l \in Loads :
           /\ l.req \in Seq(Seq(Nat)) /\ l.rsp \in Seq(Seq(Nat))
           /\ \A m \in DOMAIN l.req : l.req[m][1] > 0
           /\ \A m \in DOMAIN l.rsp :
                  /\ Len(l.rsp[m]) = 3
                  /\ l.rsp[m][1] = KP_PLENGTH /\ l.rsp[m][2] > 0

VARIABLES
    load,     \* the messages of this behaviour
    conn,     \* the connection: how it ended, if it did, and its number
    tx,       \* ktli_socket_send: its message, what is left of the vector
    wire,     \* the bytes the socket took on this connection
    begun,    \* history: the messages sent on this connection
    okay,     \* history: how many of them were reported as sent
    rx,       \* ktli_recvmsg and ktli_socket_receive
    errno,    \* of the receiver thread
    arrived,  \* bytes of the device's stream that have reached the socket
    got       \* history: the messages received on this connection

sendvars == <<tx, wire, begun, okay>>
recvvars == <<rx, errno, got>>
vars == <<load, conn, sendvars, recvvars, arrived>>

----------------------------------------------------------------------------
\* A vector of segments as it is handed to writev and readv.
Iov(lens, first) ==
    [v \in DOMAIN lens |-> [seg |-> first + v - 1, base |-> 0, len |-> lens[v]]]

Places(iov) ==
    FlattenSeq([v \in DOMAIN iov |->
        [o \in 1 .. iov[v].len |-> <<iov[v].seg, iov[v].base + o>>]])

Bytes(m, places) == [i \in DOMAIN places |-> <<m, places[i][1], places[i][2]>>]

Whole(m, lens) == Bytes(m, Places(Iov(lens, 1)))

\* What the device sends on a connection.
DeviceStream ==
    FlattenSeq([m \in DOMAIN load.rsp |-> Whole(m, load.rsp[m])])

\* Mutant: the segment that was cut is not shortened.
AdvanceWhole(iov, b) ==
    LET Upto(j) == Len(Places(SubSeq(iov, 1, j)))
        curv == CHOOSE j \in 0 .. Len(iov) :
                    /\ Upto(j) <= b
                    /\ j < Len(iov) => Upto(j + 1) > b
    IN  SubSeq(iov, curv + 1, Len(iov))

\* The vector after b bytes: all segments that are done are passed over, the
\* empty ones too, and the one that is cut starts at the cut.
Advance(iov, b) ==
    LET Upto(j) == Len(Places(SubSeq(iov, 1, j)))
        curv == CHOOSE j \in 0 .. Len(iov) :
                    /\ Upto(j) <= b
                    /\ j < Len(iov) => Upto(j + 1) > b
        rest == SubSeq(iov, curv + 1, Len(iov))
    IN  IF rest = <<>> THEN rest
        ELSE [rest EXCEPT ![1].base = @ + (b - Upto(curv)),
                          ![1].len = @ - (b - Upto(curv))]

----------------------------------------------------------------------------
\* state: "open", or how it ended: "eof" (the device closed), "reset" (it
\* broke), "shut" (ktli_socket_disconnect); mixed: a transfer went on across
\* a reconnect.  okay: messages reported as sent on this connection.
NoTx == [pc |-> "idle", m |-> 0, iov |-> <<>>, tb |-> 0]
NoRx == [pc |-> "poll", rd |-> 0, iov |-> <<>>, tb |-> 0, mem |-> <<>>]

Init ==
    /\ load \in Loads
    /\ conn = [state |-> "open", n |-> 1, mixed |-> FALSE]
    /\ tx = NoTx /\ wire = <<>> /\ begun = <<>> /\ okay = 0
    /\ rx = NoRx /\ errno = "other" /\ got = <<>>
    /\ arrived = 0

Reading == rx.pc \in {"hdr", "body"}
Ended == conn.state # "open"
Unread == arrived - rx.rd
Wanted == Len(Places(rx.iov))

----------------------------------------------------------------------------
(* The socket and the device.                                              *)

DeviceSends ==
    /\ ~Ended
    /\ arrived' \in arrived + 1 .. Len(DeviceStream)
    /\ UNCHANGED <<conn, sendvars, recvvars>>

DeviceEnds ==
    /\ \/ conn.state = "open" /\ conn' = [conn EXCEPT !.state = "eof"]
       \/ conn.state \in {"open", "eof"} /\ conn' = [conn EXCEPT !.state = "reset"]
    /\ UNCHANGED <<sendvars, recvvars, arrived>>

ktli_socket_disconnect ==
    /\ conn.state # "shut"
    /\ conn' = [conn EXCEPT !.state = "shut"]
    /\ UNCHANGED <<sendvars, recvvars, arrived>>

\* A new socket in place of the old one, which both threads use at once; the
\* session has been drained, which takes a receiver that has not failed.
ktli_socket_connect ==
    /\ conn.state = "shut" /\ conn.n < MaxConns
    /\ rx.pc # "err"
    /\ conn' = [state |-> "open", n |-> conn.n + 1,
                mixed |-> tx.pc # "idle" \/ Reading]
    /\ wire' = <<>> /\ begun' = <<>> /\ okay' = 0
    /\ rx' = [rx EXCEPT !.rd = 0] /\ got' = <<>> /\ arrived' = 0
    /\ UNCHANGED <<tx, errno>>

----------------------------------------------------------------------------
(* ktli_socket_send, called by the sender for one message after the other. *)

ktli_socket_send ==
    /\ tx.pc = "idle" /\ tx.m < Len(load.req)
    /\ tx' = [pc |-> "writev", m |-> tx.m + 1, tb |-> 0,
              iov |-> Iov(load.req[tx.m + 1], 1)]
    /\ begun' = Append(begun, tx.m + 1)
    /\ UNCHANGED <<conn, wire, okay, recvvars, arrived>>

\* No memory for the vector: the sender goes on with the next message.
SendNoMemory ==
    /\ tx.pc = "idle" /\ tx.m < Len(load.req)
    /\ tx' = [tx EXCEPT !.m = @ + 1]
    /\ UNCHANGED <<conn, wire, begun, okay, recvvars, arrived>>

\* writev takes b bytes of what is left.  A full buffer, an interrupt: again
\* (no change of state).
Writev(b) ==
    LET iov == Advance(tx.iov, b)
        sent == tx.tb + b = Len(Whole(tx.m, load.req[tx.m]))
    IN  /\ tx.pc = "writev"
        /\ conn.state \in {"open", "eof"}
        /\ wire' = wire \o Bytes(tx.m, SubSeq(Places(tx.iov), 1, b))
        /\ tx' = [tx EXCEPT !.iov = iov, !.tb = @ + b,
                            !.pc = IF iov = <<>> THEN "idle" ELSE @]
        /\ okay' = okay + (IF iov = <<>> /\ sent THEN 1 ELSE 0)
        /\ UNCHANGED <<conn, begun, recvvars, arrived>>

WritevFails ==
    /\ tx.pc = "writev"
    /\ conn.state \in {"reset", "shut"}
    /\ tx' = [tx EXCEPT !.pc = "idle", !.iov = <<>>]
    /\ UNCHANGED <<conn, wire, begun, okay, recvvars, arrived>>

----------------------------------------------------------------------------
(* ktli_socket_poll, ktli_recvmsg and ktli_socket_receive.                 *)

ReceiverUnchanged == UNCHANGED <<conn, sendvars, arrived>>

\* Something to read, or the end of the stream: receive the header.
PollReady ==
    /\ rx.pc = "poll"
    /\ conn.state \in {"open", "eof"}
    /\ Unread > 0 \/ conn.state = "eof"
    /\ rx' = [rx EXCEPT !.pc = "hdr", !.tb = 0, !.mem = <<>>,
                        !.iov = Iov(<<KP_PLENGTH>>, 1)]
    /\ UNCHANGED <<errno, got>> /\ ReceiverUnchanged

\* A hangup, or an interrupted poll: the receiver polls again.
PollFails ==
    /\ rx.pc = "poll"
    /\ \/ conn.state \in {"reset", "shut"} /\ errno' = "other"
       \/ errno' = "again"
    /\ UNCHANGED <<rx, got>> /\ ReceiverUnchanged

\* The lengths in a header.  One that is put together from two connections
\* may say anything: neither its magic number nor its lengths are tested.
Lengths(mem) ==
    LET of == {m \in DOMAIN load.rsp :
                  \A p \in DOMAIN mem : mem[p] = <<m, p[1], p[2]>>}
    IN  {Tail(load.rsp[m]) : m \in IF of = {} THEN DOMAIN load.rsp ELSE of}

\* ktli_socket_receive has filled its vector: with the header the message
\* and the value are received, with them the message is complete.
Received(r) ==
    \/ /\ r.pc = "hdr"
       /\ \E lens \in Lengths(r.mem) :
              rx' = [r EXCEPT !.pc = "body", !.iov = Iov(lens, 2), !.tb = 0]
       /\ UNCHANGED got
    \/ /\ r.pc = "body"
       /\ rx' = [NoRx EXCEPT !.rd = r.rd]
       /\ got' = Append(got, r.mem)

Failed == rx' = [rx EXCEPT !.pc = "err"] /\ UNCHANGED got

\* What the buffers hold once the bytes are put in these places.
Fill(mem, places, bytes) ==
    [p \in DOMAIN mem \cup ToSet(places) |->
        IF p \in ToSet(places)
        THEN bytes[CHOOSE i \in DOMAIN places : places[i] = p] ELSE mem[p]]

\* readv gives b bytes.
Readv(b) ==
    LET places == SubSeq(Places(rx.iov), 1, b)
        bytes == SubSeq(DeviceStream, rx.rd + 1, rx.rd + b)
        r == [rx EXCEPT !.iov = Advance(@, b), !.tb = @ + b, !.rd = @ + b,
                        !.mem = Fill(@, places, bytes)]
    IN  /\ Reading
        /\ b <= Wanted
        /\ IF r.iov # <<>> THEN rx' = r /\ UNCHANGED got ELSE Received(r)
        /\ UNCHANGED errno /\ ReceiverUnchanged

\* Nothing there yet, or an interrupt: again.
ReadvAgain ==
    /\ Reading /\ ~Ended /\ Unread = 0
    /\ errno' = "again"
    /\ UNCHANGED <<rx, got>> /\ ReceiverUnchanged

\* Mutant: end of stream is never an error.
ReadvEndIgnored ==
    /\ Reading /\ conn.state = "reset" /\ Unread = 0
    /\ errno' = "other"
    /\ Failed
    /\ ReceiverUnchanged

\* The end of the stream gives 0 bytes and leaves errno alone: if it still
\* says "again", so does the loop, without end (no change of state).  A
\* connection that broke gives an error, once, to either thread.
ReadvEnd ==
    /\ Reading /\ Ended /\ Unread = 0
    /\ errno # "again" \/ conn.state = "reset"
    /\ errno' = "other"
    /\ Failed
    /\ ReceiverUnchanged

\* No memory for the buffers or the vector.
RecvNoMemory ==
    /\ rx.tb = 0 /\ Reading
    /\ errno' = "other"
    /\ Failed
    /\ ReceiverUnchanged

----------------------------------------------------------------------------
Sender ==
    \/ ktli_socket_send
    \/ SendNoMemory
    \/ \E b \in 1 .. Len(Places(tx.iov)) : Writev(b)
    \/ WritevFails

ReceiveStep ==
    \/ \E b \in 1 .. Unread : Readv(b)
    \/ ReadvAgain
    \/ ReadvEnd

Receiver ==
    \/ PollReady
    \/ PollFails
    \/ ReceiveStep
    \/ RecvNoMemory

Next ==
    /\ \/ Sender
       \/ Receiver
       \/ DeviceSends
       \/ DeviceEnds
       \/ ktli_socket_disconnect
       \/ ktli_socket_connect
    /\ UNCHANGED load

\* The receiver thread runs: a receive that has been started goes on.
Spec == Init /\ [][Next]_vars /\ WF_vars(ReceiveStep /\ UNCHANGED load)

----------------------------------------------------------------------------
Sent == FlattenSeq([i \in DOMAIN begun |-> Whole(begun[i], load.req[begun[i]])])
Upto(n) == FlattenSeq([i \in 1 .. n |-> Whole(begun[i], load.req[begun[i]])])
Exact(mem, m) ==
    /\ DOMAIN mem = ToSet(Places(Iov(load.rsp[m], 1)))
    /\ \A p \in DOMAIN mem : mem[p] = <<m, p[1], p[2]>>

\* ktli_socket.c: however the socket cuts the transfers, the bytes on a
\* connection are those of the messages in the order they were sent, with
\* every message that was reported as sent there in full; and what the
\* receiver takes for a message is one, in order, with each byte in its
\* place.  (Unless a transfer begun on an earlier connection was still going
\* on when the session reconnected: the rest of it then lands in this one.)
StreamExact ==
    ~conn.mixed =>
        /\ IsPrefix(wire, Sent)
        /\ Len(wire) >= Len(Upto(okay))
        /\ \A i \in DOMAIN got : i \in DOMAIN load.rsp /\ Exact(got[i], i)

Arrived ==
    /\ Len(got) < Len(load.rsp)
    /\ arrived >= Len(FlattenSeq([m \in 1 .. Len(got) + 1 |->
                                     Whole(m, load.rsp[m])]))

\* ktli_socket.c: a receive ends once the rest of the message is there or the
\* connection has ended, unless the end of the stream meets an errno that
\* still says EAGAIN (or the session has reconnected under it).
ReceiveEnds ==
    (Reading /\ (Ended \/ Arrived))
        ~> (\/ ~Reading
            \/ conn.mixed
            \/ Ended /\ Unread = 0 /\ errno = "again")
=============================================================================

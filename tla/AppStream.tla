------------------------------ MODULE AppStream ------------------------------
(***************************************************************************)
(* From the bytes an app writes to the frames its handler works on: TCP    *)
(* cuts the stream wherever it likes, the decoder keeps what it cannot use *)
(* yet, and text or half a header may stand between two frames.            *)
(*                                                                         *)
(* Nothing else touches a session's decoder while feed runs, so each turn  *)
(* of its loop is one action.                                              *)
(***************************************************************************)
EXTENDS Naturals, SequencesExt

CONSTANTS
    MaxPayload,  \* framing.MAX_PAYLOAD
    Payloads,    \* what the app may send
    Noise,       \* what may stand between its frames
    MaxItems     \* bound: frames and pieces of noise in one stream

START1 == 148
START2 == 195
HeaderLen == 4

Byte == 0 .. 255

ASSUME StreamAssumption ==
    /\ MaxPayload \in 0 .. 65535
    /\ Payloads \subseteq {p \in Seq(Byte) : Len(p) <= MaxPayload}
    /\ Noise \subseteq Seq(Byte)
    /\ MaxItems \in Nat

VARIABLES
    wire,     \* written by the app, not read yet
    lost,     \* the connection is gone: nothing more will be written
    at,       \* where the handler is: it reads, feed scans, the frames are handled
    buf,      \* FrameDecoder._buf
    out,      \* feed: out
    handled,  \* history: the payloads given to _handle_to_radio
    sent,     \* history: the payloads of the frames the app wrote
    items     \* what is left of MaxItems

vars == <<wire, lost, at, buf, out, handled, sent, items>>

(* encode_frame *)
Frame(p) == <<START1, START2, Len(p) \div 256, Len(p) % 256>> \o p

(* _find_start *)
Starts(b) == {i \in 1 .. Len(b) - 1 : b[i] = START1 /\ b[i + 1] = START2}
IsStart(b, i) == i \in Starts(b) /\ \A j \in Starts(b) : i <= j

From(b, i) == SubSeq(b, i, Len(b))

KeptNothing(b) == <<>>                              \* fault: a split header is lost
KeptAll(b) == b                                     \* fault: nothing is ever dropped

(* Without a start only a last START1 may still become one. *)
Kept(b) == IF b # <<>> /\ Last(b) = START1 THEN <<START1>> ELSE <<>>

Declared(f) == f[3] * 256 + f[4]

Init ==
    /\ wire = <<>> /\ lost = FALSE
    /\ at = "read" /\ buf = <<>> /\ out = <<>>
    /\ handled = <<>> /\ sent = <<>>
    /\ items = MaxItems

-----------------------------------------------------------------------------
Write(bytes) ==
    /\ ~lost
    /\ items > 0
    /\ items' = items - 1
    /\ wire' = wire \o bytes
    /\ UNCHANGED <<lost, at, buf, out, handled>>

WriteFrame(p) == Write(Frame(p)) /\ sent' = Append(sent, p)
WriteNoise(n) == Write(n) /\ UNCHANGED sent

(* The connection breaks: the first k unread bytes still arrive. *)
Lose(k) ==
    /\ ~lost
    /\ lost' = TRUE
    /\ wire' = SubSeq(wire, 1, k)
    /\ UNCHANGED <<at, buf, out, handled, sent, items>>

(* One read returns any first part of what is there. *)
Read(k) ==
    /\ at = "read"
    /\ at' = "feed"
    /\ buf' = buf \o SubSeq(wire, 1, k)
    /\ wire' = From(wire, k + 1)
    /\ UNCHANGED <<lost, out, handled, sent, items>>

(* feed returns what it has found so far. *)
NoStart ==
    /\ at = "feed"
    /\ Starts(buf) = {}
    /\ at' = "handle"
    /\ buf' = Kept(buf)
    /\ UNCHANGED <<wire, lost, out, handled, sent, items>>

Incomplete(i) ==
    /\ at = "feed"
    /\ IsStart(buf, i)
    /\ \/ Len(From(buf, i)) < HeaderLen
       \/ /\ Len(From(buf, i)) >= HeaderLen
          /\ Declared(From(buf, i)) <= MaxPayload
          /\ Len(From(buf, i)) < HeaderLen + Declared(From(buf, i))
    /\ at' = "handle"
    /\ buf' = From(buf, i)
    /\ UNCHANGED <<wire, lost, out, handled, sent, items>>

BogusHeader(i) ==                                   \* fault: throws the whole header away
    /\ at = "feed"
    /\ IsStart(buf, i)
    /\ Len(From(buf, i)) >= HeaderLen
    /\ Declared(From(buf, i)) > MaxPayload
    /\ buf' = From(buf, i + HeaderLen)
    /\ UNCHANGED <<wire, lost, at, out, handled, sent, items>>

(* The length cannot be one: this START1 goes, and the search again. *)
Bogus(i) ==
    /\ at = "feed"
    /\ IsStart(buf, i)
    /\ Len(From(buf, i)) >= HeaderLen
    /\ Declared(From(buf, i)) > MaxPayload
    /\ buf' = From(buf, i + 1)
    /\ UNCHANGED <<wire, lost, at, out, handled, sent, items>>

Complete(i) ==
    /\ at = "feed"
    /\ IsStart(buf, i)
    /\ Len(From(buf, i)) >= HeaderLen
    /\ Declared(From(buf, i)) <= MaxPayload
    /\ LET end == i + HeaderLen + Declared(From(buf, i))
       IN  /\ Len(buf) >= end - 1
           /\ out' = Append(out, SubSeq(buf, i + HeaderLen, end - 1))
           /\ buf' = From(buf, end)
    /\ UNCHANGED <<wire, lost, at, handled, sent, items>>

(* One frame after the other, each to its end. *)
Handle ==
    /\ at = "handle"
    /\ out # <<>>
    /\ handled' = Append(handled, Head(out))
    /\ out' = Tail(out)
    /\ UNCHANGED <<wire, lost, at, buf, sent, items>>

ReadOn ==
    /\ at = "handle"
    /\ out = <<>>
    /\ at' = "read"
    /\ UNCHANGED <<wire, lost, buf, out, handled, sent, items>>

Next ==
    \/ \E p \in Payloads : WriteFrame(p)
    \/ \E n \in Noise : WriteNoise(n)
    \/ \E k \in 0 .. Len(wire) : Lose(k)
    \/ \E k \in 1 .. Len(wire) : Read(k)
    \/ NoStart
    \/ \E i \in 1 .. Len(buf) : Incomplete(i) \/ Bogus(i) \/ Complete(i)
    \/ Handle \/ ReadOn

Spec == Init /\ [][Next]_vars

-----------------------------------------------------------------------------
(* What the theorems about the frames assume of what stands between them.  *)

(* A piece of noise does not end in the first bytes of a header ...        *)
ClosedNoise ==
    \A n \in Noise : \A j \in 1 .. Len(n) :
        n[j] = START1 => /\ j + 1 <= Len(n)
                         /\ n[j + 1] = START2 => j + 2 <= Len(n)

(* ... or what follows cannot complete it to one.                          *)
NoneCompletes ==
    \A n \in Noise : n # <<>> => n[1] # START2 /\ n[1] * 256 > MaxPayload

(* What looks like a header in the noise declares more than a frame holds. *)
(* Text, and the START2 bytes that wake a radio up, are harmless.          *)
HarmlessNoise ==
    /\ START1 * 256 > MaxPayload
    /\ \A n \in Noise : \A j \in Starts(n) : j + 2 <= Len(n) => n[j + 2] * 256 > MaxPayload
    /\ ClosedNoise \/ NoneCompletes

-----------------------------------------------------------------------------
(* Between reads the decoder keeps less than one frame, whatever was sent  *)
(* (framing.py:42-61).                                                     *)
BufferBounded == at # "feed" => Len(buf) < HeaderLen + MaxPayload

(* However the stream is cut and whatever stands between the frames, the   *)
(* handler works on the payloads the app sent, in that order, and on       *)
(* nothing else (framing.py:24-30).                                        *)
OnlyWhatWasSent == IsPrefix(handled \o out, sent)

(* When everything has been read, every frame has been found.              *)
EveryFrameFound == ~lost /\ wire = <<>> /\ at # "feed" => handled \o out = sent
=============================================================================

--------------------------- MODULE AppStreamProofs ----------------------------
(***************************************************************************)
(* However an app's stream is cut into reads, and wherever the connection  *)
(* breaks, the handler works on the payloads the app sent, in that order,  *)
(* and when all is read on all of them.  Proved for every set of payloads, *)
(* those that look like a start of a frame included, every length of the   *)
(* stream and every harmless noise: see HarmlessNoise.                     *)
(*                                                                         *)
(* The argument lays the frames still to be found over the stream still to *)
(* be decoded, buffer and wire together: each stands whole at its place,   *)
(* or would if the connection had not been cut, and no start of a frame    *)
(* outside of them declares a length a frame can have.  Whatever feed      *)
(* throws away then lies before the first of these places, and the first   *)
(* start with a possible length is the first of them.                      *)
(***************************************************************************)
EXTENDS AppStream, SequenceTheorems, TLAPS

-----------------------------------------------------------------------------
(* Where the frames stand: left are the payloads still to be found, place  *)
(* says where in s the frame of each begins.                               *)
End(left, place, i) == place[i] + HeaderLen + Len(left[i])

Outside(left, place, j) ==
    \A i \in 1 .. Len(left) : j < place[i] \/ j >= End(left, place, i)

Standing(s, left, place) ==
    /\ place \in [1 .. Len(left) -> Nat \ {0}]
    /\ \A i, j \in 1 .. Len(left) : i < j => End(left, place, i) <= place[j]
    /\ \A i \in 1 .. Len(left) : \A k \in 1 .. HeaderLen + Len(left[i]) :
           place[i] + k - 1 <= Len(s) => s[place[i] + k - 1] = Frame(left[i])[k]

NoOtherStart(s, left, place, cut) ==
    \A j \in 1 .. Len(s) : s[j] = START1 /\ Outside(left, place, j) =>
        /\ j + 2 <= Len(s) /\ s[j + 1] = START2 => s[j + 2] * 256 > MaxPayload
        /\ ClosedNoise /\ ~cut => /\ j + 1 <= Len(s)
                                  /\ s[j + 1] = START2 => j + 2 <= Len(s)

Layout(s, left, place, cut) ==
    /\ Standing(s, left, place)
    /\ NoOtherStart(s, left, place, cut)
    /\ ~cut => \A i \in 1 .. Len(left) : End(left, place, i) <= Len(s) + 1

Stream == buf \o wire
Found == handled \o out

StreamType ==
    /\ wire \in Seq(Byte) /\ buf \in Seq(Byte)
    /\ lost \in BOOLEAN
    /\ at \in {"read", "feed", "handle"}
    /\ handled \in Seq(Seq(Byte)) /\ out \in Seq(Seq(Byte))
    /\ sent \in Seq(Payloads)

(* Every frame the app wrote was found, or stands where it can be found.   *)
AllStand ==
    \E left \in Seq(Payloads) : \E place \in [1 .. Len(left) -> Nat \ {0}] :
        /\ sent = Found \o left
        /\ Layout(Stream, left, place, lost)

(* What feed keeps: at most a byte, or a header whose frame is not there.  *)
Partial(b) ==
    /\ Len(b) >= 2 /\ b[1] = START1 /\ b[2] = START2
    /\ Len(b) >= HeaderLen => /\ Declared(b) <= MaxPayload
                              /\ Len(b) < HeaderLen + Declared(b)

BufferInv == at # "feed" => Len(buf) <= 1 \/ Partial(buf)

StreamInv == StreamType /\ AllStand /\ BufferInv

-----------------------------------------------------------------------------
(* Frames and layouts.                                                     *)

LEMMA PayloadTypes ==
    ASSUME NEW p \in Payloads PROVE p \in Seq(Byte) /\ Len(p) \in Nat /\ Len(p) <= MaxPayload
<1>1. p \in Seq(Byte) /\ Len(p) <= MaxPayload
  BY StreamAssumption
<1>2. Len(p) \in Nat
  BY <1>1, LenProperties
<1> QED BY <1>1, <1>2, StreamAssumption

LEMMA LimitType == MaxPayload \in Nat /\ MaxPayload <= 65535
BY StreamAssumption

LEMMA Bytes == ASSUME NEW n \in Nat, n <= 255 PROVE n \in Byte
BY DEF Byte

LEMMA BytesAreNat == \A n \in Byte : n \in Nat
BY DEF Byte

(* The high and the low byte of a length. *)
LEMMA TwoBytes ==
    ASSUME NEW n \in Nat, n <= 65535
    PROVE  n \div 256 \in Byte /\ n % 256 \in Byte /\ n % 256 = n - 256 * (n \div 256)
<1>1. n \div 256 \in Nat /\ n \div 256 <= 255 /\ n % 256 \in Nat /\ n % 256 <= 255
  OBVIOUS
<1>2. n % 256 = n - 256 * (n \div 256)
  OBVIOUS
<1>5. n \div 256 \in Byte /\ n % 256 \in Byte
  BY <1>1, Bytes
<1> QED BY <1>2, <1>5

(* What encode_frame puts where. *)
LEMMA FrameElements ==
    ASSUME NEW p \in Payloads
    PROVE  /\ Frame(p) \in Seq(Byte) /\ Len(Frame(p)) = HeaderLen + Len(p)
           /\ Frame(p)[1] = START1 /\ Frame(p)[2] = START2
           /\ Frame(p)[3] * 256 + Frame(p)[4] = Len(p)
           /\ \A k \in 1 .. Len(p) : Frame(p)[HeaderLen + k] = p[k]
<1> DEFINE hi == Len(p) \div 256
           lo == Len(p) % 256
           head == <<START1, START2, hi, lo>>
<1>1. p \in Seq(Byte) /\ Len(p) \in Nat
  BY PayloadTypes
<1>2. hi \in Byte /\ lo \in Byte /\ hi * 256 + lo = Len(p)
  <2>1. Len(p) <= 65535
    BY PayloadTypes, LimitType
  <2>2. hi \in Byte /\ lo \in Byte /\ lo = Len(p) - 256 * hi
    BY <1>1, <2>1, TwoBytes
  <2> HIDE DEF hi, lo
  <2> QED BY <1>1, <2>2 DEF Byte
<1>3. Frame(p) = head \o p
  BY DEF Frame
<1> HIDE DEF hi, lo
<1>4. head \in Seq(Byte) /\ Len(head) = 4
  <2>1. START1 \in Byte /\ START2 \in Byte
    BY Bytes DEF START1, START2
  <2> QED BY <1>2, <2>1
<1>5. head[1] = START1 /\ head[2] = START2 /\ head[3] = hi /\ head[4] = lo
  OBVIOUS
<1> HIDE DEF head
<1>6. /\ head \o p \in Seq(Byte) /\ Len(head \o p) = Len(head) + Len(p)
      /\ \A i \in 1 .. Len(head) + Len(p) :
             (head \o p)[i] = IF i <= Len(head) THEN head[i] ELSE p[i - Len(head)]
  BY <1>1, <1>4, ConcatProperties
<1>7. \A i \in 1 .. 4 : (head \o p)[i] = head[i]
  BY <1>1, <1>4, <1>6
<1>8. \A k \in 1 .. Len(p) : (head \o p)[4 + k] = p[k]
  BY <1>1, <1>4, <1>6
<1> QED BY <1>2, <1>3, <1>4, <1>5, <1>6, <1>7, <1>8 DEF HeaderLen

LEMMA WithinBounds ==
    ASSUME NEW b \in Nat \ {0}, NEW k \in Nat, NEW m \in Nat, NEW n \in Nat,
           k >= 1, k <= m, b + m <= n + 1
    PROVE  b + k - 1 \in 1 .. n
OBVIOUS

LEMMA BeyondFirst ==
    ASSUME NEW m \in Nat, NEW n \in Nat, NEW j \in 1 .. m + n, j \notin 1 .. m
    PROVE  \E i \in 1 .. n : j = m + i
<1>1. j - m \in 1 .. n /\ j = m + (j - m)
  OBVIOUS
<1> QED BY <1>1

LEMMA EndType ==
    ASSUME NEW left \in Seq(Payloads), NEW place \in [1 .. Len(left) -> Nat \ {0}],
           NEW i \in 1 .. Len(left)
    PROVE  End(left, place, i) \in Nat /\ place[i] < End(left, place, i)
<1>1. left[i] \in Payloads
  BY ElementOfSeq
<1>2. Len(left[i]) \in Nat /\ place[i] \in Nat
  BY <1>1, PayloadTypes
<1> QED BY <1>2 DEF End, HeaderLen

(* What stands where when two sequences are joined. *)
LEMMA ConcatElements ==
    ASSUME NEW S, NEW s \in Seq(S), NEW t \in Seq(S)
    PROVE  /\ Len(s) \in Nat /\ Len(t) \in Nat
           /\ s \o t \in Seq(S) /\ Len(s \o t) = Len(s) + Len(t)
           /\ \A i \in 1 .. Len(s) : (s \o t)[i] = s[i]
           /\ \A i \in 1 .. Len(t) : (s \o t)[Len(s) + i] = t[i]
           /\ Len(t) >= 1 => t # <<>>
<1>1. Len(s) \in Nat /\ Len(t) \in Nat /\ Len(<<>>) = 0
  BY LenProperties
<1>2. /\ s \o t \in Seq(S) /\ Len(s \o t) = Len(s) + Len(t)
      /\ \A i \in 1 .. Len(s) + Len(t) :
             (s \o t)[i] = IF i <= Len(s) THEN s[i] ELSE t[i - Len(s)]
  BY ConcatProperties
<1>3. \A i \in 1 .. Len(s) : i \in 1 .. Len(s) + Len(t) /\ i <= Len(s)
  BY <1>1
<1>4. \A i \in 1 .. Len(t) : /\ Len(s) + i \in 1 .. Len(s) + Len(t) /\ ~(Len(s) + i <= Len(s))
                            /\ Len(s) + i - Len(s) = i
  BY <1>1
<1>5. \A i \in 1 .. Len(t) : (s \o t)[Len(s) + i] = t[i]
  BY <1>2, <1>4
<1>6. \A i \in 1 .. Len(s) : (s \o t)[i] = s[i]
  BY <1>2, <1>3
<1>7. Len(t) >= 1 => t # <<>>
  BY <1>1
<1> QED BY <1>1, <1>2, <1>5, <1>6, <1>7

LEMMA EndMoved ==
    ASSUME NEW b \in Nat, NEW n \in Nat, NEW d \in Nat
    PROVE  (b - d) + HeaderLen + n = (b + HeaderLen + n) - d
BY DEF HeaderLen

LEMMA InFrame ==
    ASSUME NEW i \in Nat, NEW n \in Nat, NEW d \in Nat, d = (i + HeaderLen + n) - 1,
           NEW j \in 1 .. n, NEW m \in Nat, d <= m
    PROVE  /\ HeaderLen + j \in 1 .. HeaderLen + n
           /\ i + (HeaderLen + j) - 1 = i + HeaderLen + j - 1
           /\ i + (HeaderLen + j) - 1 <= m
BY DEF HeaderLen

(* t is s without its first d elements. *)
Later(s, t, d) == Len(s) = Len(t) + d /\ \A j \in 1 .. Len(t) : t[j] = s[j + d]

(* The first d bytes of the stream go, and with them the frames that end   *)
(* there: f is their number.  The other frames begin later.                *)
LEMMA LayoutDropped ==
    ASSUME NEW s \in Seq(Byte), NEW t \in Seq(Byte), NEW cut,
           NEW left \in Seq(Payloads), NEW rest \in Seq(Payloads),
           NEW place \in [1 .. Len(left) -> Nat \ {0}],
           NEW d \in Nat, NEW f \in Nat,
           Later(s, t, d), Later(left, rest, f),
           \A i \in 1 .. f : End(left, place, i) <= d + 1,
           \A i \in f + 1 .. Len(left) : place[i] > d,
           Layout(s, left, place, cut)
    PROVE  \E moved \in [1 .. Len(rest) -> Nat \ {0}] : Layout(t, rest, moved, cut)
<1> DEFINE moved == [i \in 1 .. Len(rest) |-> place[i + f] - d]
<1>1. /\ Len(s) \in Nat /\ Len(t) \in Nat /\ Len(left) \in Nat /\ Len(rest) \in Nat
      /\ Len(s) = Len(t) + d /\ Len(left) = Len(rest) + f
  BY LenProperties DEF Later
<1>2. \A i \in 1 .. Len(left) : Len(left[i]) \in Nat /\ place[i] \in Nat
  BY ElementOfSeq, PayloadTypes
<1>3. \A i \in 1 .. Len(rest) : /\ i + f \in 1 .. Len(left) /\ i + f \in f + 1 .. Len(left)
                                /\ moved[i] = place[i + f] - d
  BY <1>1
<1>4. moved \in [1 .. Len(rest) -> Nat \ {0}]
  BY <1>1, <1>2, <1>3
<1>5. \A i \in 1 .. Len(rest) : End(rest, moved, i) = End(left, place, i + f) - d
  <2> TAKE i \in 1 .. Len(rest)
  <2>1. /\ moved[i] = place[i + f] - d /\ rest[i] = left[i + f]
        /\ place[i + f] \in Nat /\ Len(left[i + f]) \in Nat
    BY <1>1, <1>2, <1>3 DEF Later
  <2> HIDE DEF moved
  <2>2. (place[i + f] - d) + HeaderLen + Len(left[i + f])
           = (place[i + f] + HeaderLen + Len(left[i + f])) - d
    BY <2>1, EndMoved
  <2> QED BY <2>1, <2>2, Zenon DEF End
<1>6. \A i \in 1 .. Len(left) : End(left, place, i) \in Nat /\ place[i] < End(left, place, i)
  BY <1>2 DEF End, HeaderLen
<1> HIDE DEF moved
<1>7. ASSUME NEW i \in 1 .. Len(rest), NEW j \in 1 .. Len(rest), i < j
      PROVE  End(rest, moved, i) <= moved[j]
  <2>1. i + f < j + f /\ i + f \in 1 .. Len(left) /\ j + f \in 1 .. Len(left)
    BY <1>1, <1>3, <1>7
  <2>2. End(left, place, i + f) <= place[j + f]
    BY <2>1 DEF Layout, Standing
  <2>3. /\ End(rest, moved, i) = End(left, place, i + f) - d /\ moved[j] = place[j + f] - d
        /\ End(left, place, i + f) \in Nat /\ place[j + f] \in Nat
    BY <2>1, <1>2, <1>3, <1>5, <1>6
  <2> QED BY <2>2, <2>3
<1>8. ASSUME NEW i \in 1 .. Len(rest), NEW k \in 1 .. HeaderLen + Len(rest[i]),
             moved[i] + k - 1 <= Len(t)
      PROVE  t[moved[i] + k - 1] = Frame(rest[i])[k]
  <2>1. /\ i + f \in 1 .. Len(left) /\ rest[i] = left[i + f] /\ moved[i] = place[i + f] - d
        /\ moved[i] \in Nat \ {0}
    BY <1>3, <1>4 DEF Later
  <2>2. k \in Nat /\ k >= 1 /\ k \in 1 .. HeaderLen + Len(left[i + f])
    BY <2>1, <1>2 DEF HeaderLen
  <2>3. /\ moved[i] + k - 1 \in 1 .. Len(t)
        /\ moved[i] + k - 1 + d = place[i + f] + k - 1
        /\ place[i + f] + k - 1 <= Len(s)
    <3>1. PICK b \in Nat, m \in Nat \ {0} : b = place[i + f] /\ m = moved[i] /\ m = b - d
      BY <2>1, <1>2
    <3>2. m + k - 1 <= Len(t)
      BY <1>8, <3>1
    <3>3. m + k - 1 \in 1 .. Len(t) /\ m + k - 1 + d = b + k - 1 /\ b + k - 1 <= Len(s)
      <4>1. k \in Nat /\ k >= 1
        BY <2>2
      <4>2. b \in Nat /\ m \in Nat \ {0} /\ m = b - d /\ Len(t) \in Nat
        BY <3>1, <1>1
      <4>3. m + k - 1 \in 1 .. Len(t) /\ m + k - 1 + d = b + k - 1 /\ b + k - 1 <= Len(t) + d
        BY <3>2, <4>1, <4>2
      <4> QED BY <4>3, <1>1, Zenon
    <3> QED BY <3>1, <3>3
  <2>4. s[place[i + f] + k - 1] = Frame(left[i + f])[k]
    BY <2>1, <2>2, <2>3 DEF Layout, Standing
  <2> QED BY <2>1, <2>3, <2>4 DEF Later
<1>9. ASSUME NEW j \in 1 .. Len(t), Outside(rest, moved, j)
      PROVE  Outside(left, place, j + d)
  <2> SUFFICES ASSUME NEW i \in 1 .. Len(left)
               PROVE  j + d < place[i] \/ j + d >= End(left, place, i)
    BY DEF Outside
  <2>1. CASE i \in 1 .. f
    BY <2>1, <1>1, <1>6
  <2>2. CASE i \in f + 1 .. Len(left)
    <3>1. i - f \in 1 .. Len(rest) /\ (i - f) + f = i
      BY <2>2, <1>1
    <3>2. j < moved[i - f] \/ j >= End(rest, moved, i - f)
      BY <3>1, <1>9 DEF Outside
    <3>3. moved[i - f] = place[i] - d /\ End(rest, moved, i - f) = End(left, place, i) - d
      BY <3>1, <1>3, <1>5
    <3> QED BY <3>2, <3>3, <1>1, <1>2, <1>6
  <2> QED BY <2>1, <2>2, <1>1
<1>10. ASSUME NEW j \in 1 .. Len(t), t[j] = START1, Outside(rest, moved, j)
       PROVE  /\ j + 2 <= Len(t) /\ t[j + 1] = START2 => t[j + 2] * 256 > MaxPayload
              /\ ClosedNoise /\ ~cut => /\ j + 1 <= Len(t)
                                        /\ t[j + 1] = START2 => j + 2 <= Len(t)
  <2>1. j + d \in 1 .. Len(s) /\ s[j + d] = START1 /\ Outside(left, place, j + d)
    BY <1>1, <1>9, <1>10 DEF Later
  <2>2. /\ j + d + 2 <= Len(s) /\ s[j + d + 1] = START2 => s[j + d + 2] * 256 > MaxPayload
        /\ ClosedNoise /\ ~cut => /\ j + d + 1 <= Len(s)
                                  /\ s[j + d + 1] = START2 => j + d + 2 <= Len(s)
    BY <2>1 DEF Layout, NoOtherStart
  <2>3. j + 1 <= Len(t) <=> j + d + 1 <= Len(s)
    BY <1>1
  <2>4. j + 2 <= Len(t) <=> j + d + 2 <= Len(s)
    BY <1>1
  <2>5. j + 1 <= Len(t) => t[j + 1] = s[j + d + 1]
    <3>1. j + 1 <= Len(t) => j + 1 \in 1 .. Len(t) /\ (j + 1) + d = j + d + 1
      BY <1>1
    <3> QED BY <3>1 DEF Later
  <2>6. j + 2 <= Len(t) => t[j + 2] = s[j + d + 2] /\ j + 1 <= Len(t)
    <3>1. j + 2 <= Len(t) => j + 2 \in 1 .. Len(t) /\ (j + 2) + d = j + d + 2 /\ j + 1 <= Len(t)
      BY <1>1
    <3> QED BY <3>1 DEF Later
  <2> QED BY <2>2, <2>3, <2>4, <2>5, <2>6
<1>11. ASSUME ~cut, NEW i \in 1 .. Len(rest) PROVE End(rest, moved, i) <= Len(t) + 1
  <2>1. i + f \in 1 .. Len(left)
    BY <1>3
  <2>2. PICK e \in Nat : e = End(left, place, i + f) /\ End(rest, moved, i) = e - d
    BY <2>1, <1>5, <1>6
  <2>3. e <= Len(s) + 1
    BY <2>1, <2>2, <1>11 DEF Layout
  <2>4. e - d <= Len(t) + 1
    BY <2>3, <1>1
  <2> QED BY <2>2, <2>4
<1>12. Layout(t, rest, moved, cut)
  BY <1>4, <1>7, <1>8, <1>10, <1>11 DEF Layout, Standing, NoOtherStart
<1> QED BY <1>4, <1>12

(* The connection breaks: what does not arrive leaves the frames where     *)
(* they were.                                                              *)
LEMMA LayoutCut ==
    ASSUME NEW s \in Seq(Byte), NEW t \in Seq(Byte), NEW left \in Seq(Payloads),
           NEW place \in [1 .. Len(left) -> Nat \ {0}], NEW cut,
           Len(t) <= Len(s), \A j \in 1 .. Len(t) : t[j] = s[j],
           Layout(s, left, place, cut)
    PROVE  Layout(t, left, place, TRUE)
<1>1. Len(s) \in Nat /\ Len(t) \in Nat
  BY LenProperties
<1>2. ASSUME NEW i \in 1 .. Len(left), NEW k \in 1 .. HeaderLen + Len(left[i]),
             place[i] + k - 1 <= Len(t)
      PROVE  t[place[i] + k - 1] = Frame(left[i])[k]
  <2>1. place[i] + k - 1 \in 1 .. Len(t) /\ place[i] + k - 1 <= Len(s)
    <3>1. place[i] \in Nat /\ place[i] >= 1 /\ k \in Nat /\ k >= 1
      <4>1. left[i] \in Payloads
        BY ElementOfSeq
      <4>2. Len(left[i]) \in Nat
        BY <4>1, PayloadTypes
      <4> QED BY <4>2 DEF HeaderLen
    <3> QED BY <3>1, <1>1, <1>2
  <2>2. s[place[i] + k - 1] = Frame(left[i])[k]
    BY <2>1 DEF Layout, Standing
  <2> QED BY <2>1, <2>2
<1>3. ASSUME NEW j \in 1 .. Len(t), t[j] = START1, Outside(left, place, j),
             j + 2 <= Len(t), t[j + 1] = START2
      PROVE  t[j + 2] * 256 > MaxPayload
  <2>1. j \in 1 .. Len(s) /\ j + 1 \in 1 .. Len(t) /\ j + 2 \in 1 .. Len(t) /\ j + 2 <= Len(s)
    BY <1>1, <1>3
  <2> QED BY <2>1, <1>3 DEF Layout, NoOtherStart
<1> QED BY <1>2, <1>3 DEF Layout, Standing, NoOtherStart

(* More bytes follow: what could still become a start does not.            *)
LEMMA OldStarts ==
    ASSUME NEW s \in Seq(Byte), NEW more \in Seq(Byte),
           NEW left \in Seq(Payloads), NEW place \in [1 .. Len(left) -> Nat \ {0}],
           \/ ClosedNoise
           \/ more # <<>> => more[1] # START2 /\ more[1] * 256 > MaxPayload,
           NoOtherStart(s, left, place, FALSE),
           NEW j \in 1 .. Len(s), Outside(left, place, j), (s \o more)[j] = START1
    PROVE  /\ j + 2 <= Len(s \o more) /\ (s \o more)[j + 1] = START2
                => (s \o more)[j + 2] * 256 > MaxPayload
           /\ ClosedNoise => /\ j + 1 <= Len(s \o more)
                             /\ (s \o more)[j + 1] = START2 => j + 2 <= Len(s \o more)
<1> DEFINE t == s \o more
<1>1. /\ Len(s) \in Nat /\ Len(more) \in Nat /\ Len(t) = Len(s) + Len(more)
      /\ \A i \in 1 .. Len(s) : t[i] = s[i]
      /\ \A i \in 1 .. Len(more) : t[Len(s) + i] = more[i]
      /\ Len(more) >= 1 => more # <<>>
  BY ConcatElements
<1> HIDE DEF t
<1>2. /\ j + 2 <= Len(s) /\ s[j + 1] = START2 => s[j + 2] * 256 > MaxPayload
      /\ ClosedNoise => j + 1 <= Len(s) /\ (s[j + 1] = START2 => j + 2 <= Len(s))
  <2>1. s[j] = START1
    BY <1>1 DEF t
  <2> QED BY <2>1 DEF NoOtherStart
<1>3. j \in Nat /\ j >= 1 /\ j <= Len(s)
  BY <1>1
<1>4. CASE j + 2 <= Len(s)
  <2>1. j + 1 \in 1 .. Len(s) /\ j + 2 \in 1 .. Len(s) /\ j + 2 <= Len(t) /\ j + 1 <= Len(t)
    BY <1>1, <1>3, <1>4
  <2>2. t[j + 1] = s[j + 1] /\ t[j + 2] = s[j + 2]
    BY <1>1, <2>1
  <2> QED BY <1>2, <1>4, <2>1, <2>2 DEF t
<1>5. CASE j + 1 = Len(s)
  <2>1. /\ j + 1 \in 1 .. Len(s) /\ j + 1 <= Len(t) /\ ~(j + 2 <= Len(s)) /\ j + 2 = Len(s) + 1
        /\ j + 2 <= Len(t) => Len(more) >= 1 /\ 1 \in 1 .. Len(more)
    BY <1>1, <1>3, <1>5
  <2>2. t[j + 1] = s[j + 1]
    BY <1>1, <2>1
  <2>3. j + 2 <= Len(t) => more # <<>> /\ t[j + 2] = more[1]
    BY <1>1, <2>1
  <2> QED BY <1>2, <2>1, <2>2, <2>3 DEF t
<1>6. CASE j = Len(s)
  <2>1. /\ ~(j + 1 <= Len(s))
        /\ j + 2 <= Len(t) => Len(more) >= 1 /\ 1 \in 1 .. Len(more)
    BY <1>1, <1>3, <1>6
  <2>2. j + 2 <= Len(t) => more # <<>> /\ t[j + 1] = more[1]
    BY <1>1, <1>6, <2>1
  <2> QED BY <1>2, <2>1, <2>2 DEF t
<1>7. j + 2 <= Len(s) \/ j + 1 = Len(s) \/ j = Len(s)
  BY <1>1, <1>3
<1> QED BY <1>4, <1>5, <1>6, <1>7

(* The frames that stood stand.                                            *)
LEMMA StandOn ==
    ASSUME NEW s \in Seq(Byte), NEW more \in Seq(Byte),
           NEW left \in Seq(Payloads), NEW place \in [1 .. Len(left) -> Nat \ {0}],
           Standing(s, left, place), \A i \in 1 .. Len(left) : End(left, place, i) <= Len(s) + 1
    PROVE  \A i \in 1 .. Len(left) : \A k \in 1 .. HeaderLen + Len(left[i]) :
               (s \o more)[place[i] + k - 1] = Frame(left[i])[k]
<1> SUFFICES ASSUME NEW i \in 1 .. Len(left), NEW k \in 1 .. HeaderLen + Len(left[i])
             PROVE  (s \o more)[place[i] + k - 1] = Frame(left[i])[k]
  OBVIOUS
<1>1. Len(s) \in Nat /\ \A j \in 1 .. Len(s) : (s \o more)[j] = s[j]
  BY ConcatElements
<1>2. left[i] \in Payloads
  BY ElementOfSeq
<1>3. Len(left[i]) \in Nat /\ place[i] \in Nat \ {0}
  BY <1>2, PayloadTypes
<1>4. place[i] + k - 1 \in 1 .. Len(s)
  <2>1. k \in Nat /\ k >= 1 /\ k <= HeaderLen + Len(left[i])
    BY <1>3 DEF HeaderLen
  <2>2. place[i] + HeaderLen + Len(left[i]) <= Len(s) + 1
    BY DEF End
  <2> QED BY <1>1, <1>3, <2>1, <2>2, WithinBounds DEF HeaderLen
<1>5. place[i] + k - 1 <= Len(s)
  BY <1>1, <1>4
<1> QED BY <1>1, <1>4, <1>5 DEF Standing

(* Noise brings no frame and no start with a possible length.              *)
LEMMA LayoutNoise ==
    ASSUME HarmlessNoise, NEW s \in Seq(Byte), NEW n \in Noise,
           NEW left \in Seq(Payloads), NEW place \in [1 .. Len(left) -> Nat \ {0}],
           Layout(s, left, place, FALSE)
    PROVE  Layout(s \o n, left, place, FALSE)
<1> DEFINE t == s \o n
<1>1. n \in Seq(Byte)
  BY StreamAssumption
<1>2. /\ Len(s) \in Nat /\ Len(n) \in Nat /\ Len(t) = Len(s) + Len(n)
      /\ \A i \in 1 .. Len(n) : t[Len(s) + i] = n[i]
  BY <1>1, ConcatElements
<1>3. Standing(t, left, place)
  <2>1. /\ Standing(s, left, place)
        /\ \A i \in 1 .. Len(left) : End(left, place, i) <= Len(s) + 1
    BY DEF Layout
  <2>2. \A i \in 1 .. Len(left) : \A k \in 1 .. HeaderLen + Len(left[i]) :
           (s \o n)[place[i] + k - 1] = Frame(left[i])[k]
    <3> HIDE DEF t
    <3> QED BY <1>1, <2>1, StandOn
  <2> QED BY <2>1, <2>2 DEF Standing
<1>4. \A i \in 1 .. Len(left) : End(left, place, i) <= Len(t) + 1
  <2> TAKE i \in 1 .. Len(left)
  <2>1. End(left, place, i) <= Len(s) + 1
    BY DEF Layout
  <2>2. End(left, place, i) \in Nat
    BY EndType
  <2> QED BY <2>1, <2>2, <1>2
<1>5. ASSUME NEW j \in 1 .. Len(t), t[j] = START1, Outside(left, place, j)
      PROVE  /\ j + 2 <= Len(t) /\ t[j + 1] = START2 => t[j + 2] * 256 > MaxPayload
             /\ ClosedNoise => /\ j + 1 <= Len(t)
                               /\ t[j + 1] = START2 => j + 2 <= Len(t)
  <2>1. CASE j \in 1 .. Len(s)
    <3>1. \/ ClosedNoise
          \/ n # <<>> => n[1] # START2 /\ n[1] * 256 > MaxPayload
      BY DEF HarmlessNoise, NoneCompletes
    <3> QED BY <1>1, <1>5, <2>1, <3>1, OldStarts DEF Layout
  <2>2. CASE j \notin 1 .. Len(s)
    <3>1. PICK i \in 1 .. Len(n) : j = Len(s) + i
      <4>1. j \in 1 .. Len(s) + Len(n)
        BY <1>2
      <4> QED BY <4>1, <2>2, <1>2, BeyondFirst
    <3> HIDE DEF t
    <3>2. n[i] = START1
      BY <1>2, <1>5, <3>1
    <3>3. /\ j + 1 <= Len(t) <=> i + 1 <= Len(n)
          /\ j + 2 <= Len(t) <=> i + 2 <= Len(n)
          /\ i + 2 <= Len(n) => i + 1 <= Len(n) /\ i \in 1 .. Len(n) - 1
      BY <1>2, <3>1
    <3>4. i + 1 <= Len(n) => t[j + 1] = n[i + 1]
      <4>1. i + 1 <= Len(n) => i + 1 \in 1 .. Len(n) /\ j + 1 = Len(s) + (i + 1)
        BY <1>2, <3>1
      <4> QED BY <1>2, <4>1
    <3>5. i + 2 <= Len(n) => t[j + 2] = n[i + 2]
      <4>1. i + 2 <= Len(n) => i + 2 \in 1 .. Len(n) /\ j + 2 = Len(s) + (i + 2)
        BY <1>2, <3>1
      <4> QED BY <1>2, <4>1
    <3>6. i + 2 <= Len(n) /\ n[i + 1] = START2 => n[i + 2] * 256 > MaxPayload
      BY <3>2, <3>3 DEF HarmlessNoise, Starts
    <3> QED BY <3>2, <3>3, <3>4, <3>5, <3>6 DEF ClosedNoise
  <2> QED BY <2>1, <2>2
<1> QED BY <1>3, <1>4, <1>5 DEF Layout, NoOtherStart

(* A frame is written behind all that stand.                               *)
LEMMA LayoutFrame ==
    ASSUME HarmlessNoise, NEW s \in Seq(Byte), NEW p \in Payloads,
           NEW left \in Seq(Payloads), NEW place \in [1 .. Len(left) -> Nat \ {0}],
           Layout(s, left, place, FALSE)
    PROVE  \E longer \in [1 .. Len(Append(left, p)) -> Nat \ {0}] :
               Layout(s \o Frame(p), Append(left, p), longer, FALSE)
<1>0. \A i \in 1 .. Len(left) : \A k \in 1 .. HeaderLen + Len(left[i]) :
         (s \o Frame(p))[place[i] + k - 1] = Frame(left[i])[k]
  <2>1. Frame(p) \in Seq(Byte)
    BY FrameElements
  <2>2. /\ Standing(s, left, place)
        /\ \A i \in 1 .. Len(left) : End(left, place, i) <= Len(s) + 1
    BY DEF Layout
  <2> DEFINE more == Frame(p)
  <2>3. more \in Seq(Byte)
    BY <2>1
  <2> HIDE DEF more
  <2>4. \A i \in 1 .. Len(left) : \A k \in 1 .. HeaderLen + Len(left[i]) :
           (s \o more)[place[i] + k - 1] = Frame(left[i])[k]
    BY <2>2, <2>3, StandOn
  <2> QED BY <2>4 DEF more
<1> DEFINE t == s \o Frame(p)
           both == Append(left, p)
           n == Len(left)
           longer == [i \in 1 .. n + 1 |-> IF i <= n THEN place[i] ELSE Len(s) + 1]
<1>1. /\ Frame(p) \in Seq(Byte) /\ Len(Frame(p)) = HeaderLen + Len(p) /\ Len(p) \in Nat
      /\ Frame(p)[1] = START1
  BY FrameElements, PayloadTypes
<1>2. /\ Len(s) \in Nat /\ Len(t) = Len(s) + HeaderLen + Len(p) /\ t \in Seq(Byte)
      /\ \A k \in 1 .. HeaderLen + Len(p) : t[Len(s) + k] = Frame(p)[k]
  <2>1. /\ Len(s) \in Nat /\ Len(t) = Len(s) + Len(Frame(p)) /\ t \in Seq(Byte)
        /\ \A k \in 1 .. Len(Frame(p)) : t[Len(s) + k] = Frame(p)[k]
    <3>1. Frame(p) \in Seq(Byte)
      BY <1>1
    <3> QED BY <3>1, ConcatElements
  <2> QED BY <1>1, <2>1 DEF HeaderLen
<1>3. /\ n \in Nat /\ both \in Seq(Payloads) /\ Len(both) = n + 1 /\ both[n + 1] = p
      /\ \A i \in 1 .. n : both[i] = left[i]
  BY AppendProperties, LenProperties
<1>4. /\ longer \in [1 .. n + 1 -> Nat \ {0}] /\ longer[n + 1] = Len(s) + 1
      /\ \A i \in 1 .. n : longer[i] = place[i]
  BY <1>2, <1>3
<1> HIDE DEF both, longer
<1>5. /\ \A i \in 1 .. n : End(both, longer, i) = End(left, place, i)
      /\ End(both, longer, n + 1) = Len(t) + 1
  <2>1. \A i \in 1 .. n : End(both, longer, i) = End(left, place, i)
    BY <1>3, <1>4 DEF End
  <2>2. End(both, longer, n + 1) = Len(t) + 1
    BY <1>1, <1>2, <1>3, <1>4 DEF End, HeaderLen
  <2> QED BY <2>1, <2>2
<1> HIDE DEF t
<1>6. /\ \A i \in 1 .. n : End(left, place, i) \in Nat /\ End(left, place, i) <= Len(s) + 1
      /\ \A i \in 1 .. n + 1 : i \in 1 .. n \/ i = n + 1
      /\ n + 1 \in 1 .. n + 1
  <2>1. \A i \in 1 .. n : End(left, place, i) \in Nat
    BY EndType
  <2>2. \A i \in 1 .. n : End(left, place, i) <= Len(s) + 1
    BY DEF Layout
  <2>3. (\A i \in 1 .. n + 1 : i \in 1 .. n \/ i = n + 1) /\ n + 1 \in 1 .. n + 1
    BY <1>3
  <2> QED BY <2>1, <2>2, <2>3
<1>7. ASSUME NEW i \in 1 .. n + 1, NEW j \in 1 .. n + 1, i < j
      PROVE  End(both, longer, i) <= longer[j]
  <2>1. i \in 1 .. n
    BY <1>3, <1>7
  <2>2. CASE j \in 1 .. n
    BY <2>1, <2>2, <1>4, <1>5, <1>7 DEF Layout, Standing
  <2>3. CASE j = n + 1
    BY <2>1, <2>3, <1>4, <1>5, <1>6
  <2> QED BY <1>6, <2>2, <2>3
<1>8. ASSUME NEW i \in 1 .. n + 1, NEW k \in 1 .. HeaderLen + Len(both[i])
      PROVE  t[longer[i] + k - 1] = Frame(both[i])[k]
  <2>1. CASE i \in 1 .. n
    <3>1. both[i] = left[i] /\ longer[i] = place[i]
      BY <2>1, <1>3, <1>4
    <3>2. k \in 1 .. HeaderLen + Len(left[i])
      BY <1>8, <3>1
    <3>3. t[place[i] + k - 1] = Frame(left[i])[k]
      BY <2>1, <3>2, <1>0 DEF t
    <3> QED BY <3>1, <3>3
  <2>2. CASE i = n + 1
    <3>1. both[i] = p /\ longer[i] = Len(s) + 1
      BY <2>2, <1>3, <1>4
    <3>2. k \in 1 .. HeaderLen + Len(p)
      BY <1>8, <3>1
    <3>3. k \in Nat
      BY <3>2, <1>1 DEF HeaderLen
    <3>4. longer[i] + k - 1 = Len(s) + k
      BY <3>1, <3>3, <1>2
    <3> QED BY <3>1, <3>2, <3>4, <1>2
  <2> QED BY <1>6, <2>1, <2>2
<1>9. ASSUME NEW j \in 1 .. Len(t), t[j] = START1, Outside(both, longer, j)
      PROVE  /\ j + 2 <= Len(t) /\ t[j + 1] = START2 => t[j + 2] * 256 > MaxPayload
             /\ ClosedNoise => /\ j + 1 <= Len(t)
                               /\ t[j + 1] = START2 => j + 2 <= Len(t)
  <2>1. j < Len(s) + 1
    <3>1. j < longer[n + 1] \/ j >= End(both, longer, n + 1)
      BY <1>3, <1>6, <1>9 DEF Outside
    <3>2. j \in Nat /\ j <= Len(t) /\ Len(t) \in Nat
      BY <1>1, <1>2 DEF HeaderLen
    <3> QED BY <3>1, <3>2, <1>4, <1>5
  <2>2. j \in 1 .. Len(s)
    BY <2>1, <1>2
  <2>3. Outside(left, place, j)
    <3>1. ASSUME NEW i \in 1 .. n PROVE j < place[i] \/ j >= End(left, place, i)
      <4>1. i \in 1 .. Len(both)
        BY <1>3
      <4> QED BY <4>1, <1>4, <1>5, <1>9 DEF Outside
    <3> QED BY <3>1 DEF Outside
  <2>4. START1 # START2
    BY DEF START1, START2
  <2> QED BY <1>1, <1>9, <2>2, <2>3, <2>4, OldStarts DEF Layout, t, HarmlessNoise
<1>10. \A i \in 1 .. n + 1 : End(both, longer, i) <= Len(t) + 1
  <2> TAKE i \in 1 .. n + 1
  <2>1. Len(t) \in Nat /\ Len(s) <= Len(t)
    BY <1>1, <1>2 DEF HeaderLen
  <2>2. CASE i \in 1 .. n
    BY <2>1, <2>2, <1>2, <1>5, <1>6
  <2>3. CASE i = n + 1
    BY <2>1, <2>3, <1>5
  <2> QED BY <1>6, <2>2, <2>3
<1>11. Layout(t, both, longer, FALSE)
  BY <1>3, <1>4, <1>7, <1>8, <1>9, <1>10 DEF Layout, Standing, NoOtherStart
<1> QED BY <1>3, <1>4, <1>11 DEF t, both

-----------------------------------------------------------------------------
(* The buffer and the stream.                                              *)

LEMMA StreamElements ==
    ASSUME StreamType
    PROVE  /\ Stream \in Seq(Byte) /\ Len(Stream) = Len(buf) + Len(wire)
           /\ Len(buf) \in Nat /\ Len(wire) \in Nat
           /\ \A j \in 1 .. Len(buf) : Stream[j] = buf[j]
           /\ \A j \in 1 .. Len(wire) : Stream[Len(buf) + j] = wire[j]
BY ConcatElements DEF Stream, StreamType

(* What is left from a place on. *)
LEMMA SuffixElements ==
    ASSUME NEW S, NEW b \in Seq(S), NEW d \in Nat, d <= Len(b)
    PROVE  /\ From(b, d + 1) \in Seq(S) /\ Len(b) \in Nat
           /\ Len(From(b, d + 1)) = Len(b) - d
           /\ \A j \in 1 .. Len(b) - d : From(b, d + 1)[j] = b[j + d]
<1>1. Len(b) \in Nat /\ d + 1 \in Nat
  BY LenProperties
<1>2. \A i \in d + 1 .. Len(b) : b[i] \in S
  <2>1. \A i \in d + 1 .. Len(b) : i \in 1 .. Len(b)
    BY <1>1
  <2> QED BY <2>1, ElementOfSeq
<1>3. /\ From(b, d + 1) \in Seq(S)
      /\ Len(From(b, d + 1)) = IF d + 1 <= Len(b) THEN Len(b) - (d + 1) + 1 ELSE 0
      /\ \A i \in 1 .. Len(b) - (d + 1) + 1 : From(b, d + 1)[i] = b[d + 1 + i - 1]
  BY <1>1, <1>2, SubSeqProperties DEF From
<1>4. Len(From(b, d + 1)) = Len(b) - d
  BY <1>1, <1>3
<1>5. ASSUME NEW j \in 1 .. Len(b) - d PROVE From(b, d + 1)[j] = b[j + d]
  <2>1. j \in 1 .. Len(b) - (d + 1) + 1 /\ d + 1 + j - 1 = j + d
    BY <1>1
  <2> QED BY <2>1, <1>3
<1> QED BY <1>1, <1>3, <1>4, <1>5

(* feed takes bytes off the front of the stream. *)
LEMMA BufferCut ==
    ASSUME StreamType, NEW d \in Nat, d <= Len(buf), buf' = From(buf, d + 1), wire' = wire
    PROVE  /\ buf' \in Seq(Byte) /\ Len(buf') = Len(buf) - d
           /\ \A j \in 1 .. Len(buf) - d : buf'[j] = buf[j + d]
           /\ Stream' \in Seq(Byte) /\ Later(Stream, Stream', d)
<1>1. /\ Stream \in Seq(Byte) /\ Len(Stream) = Len(buf) + Len(wire)
      /\ Len(buf) \in Nat /\ Len(wire) \in Nat
      /\ \A j \in 1 .. Len(buf) : Stream[j] = buf[j]
      /\ \A j \in 1 .. Len(wire) : Stream[Len(buf) + j] = wire[j]
  BY StreamElements
<1>2. /\ buf' \in Seq(Byte) /\ Len(buf') = Len(buf) - d
      /\ \A j \in 1 .. Len(buf) - d : buf'[j] = buf[j + d]
  BY SuffixElements DEF StreamType
<1>3. /\ Stream' \in Seq(Byte) /\ Len(Stream') = Len(buf') + Len(wire)
      /\ \A j \in 1 .. Len(buf') : Stream'[j] = buf'[j]
      /\ \A j \in 1 .. Len(wire) : Stream'[Len(buf') + j] = wire[j]
  <2>1. Stream' = buf' \o wire
    BY DEF Stream
  <2>2. wire \in Seq(Byte)
    BY DEF StreamType
  <2> QED BY <1>2, <2>1, <2>2, ConcatElements
<1>4. Len(Stream) = Len(Stream') + d
  BY <1>1, <1>2, <1>3
<1>5. ASSUME NEW j \in 1 .. Len(Stream') PROVE Stream'[j] = Stream[j + d]
  <2>1. CASE j \in 1 .. Len(buf')
    <3>1. j \in 1 .. Len(buf) - d /\ j + d \in 1 .. Len(buf)
      BY <1>1, <1>2, <2>1
    <3> QED BY <3>1, <2>1, <1>1, <1>2, <1>3
  <2>2. CASE j \notin 1 .. Len(buf')
    <3>1. PICK i \in 1 .. Len(wire) : j = Len(buf') + i
      <4>1. Len(buf') \in Nat /\ j \in 1 .. Len(buf') + Len(wire)
        BY <1>1, <1>2, <1>3
      <4> QED BY <4>1, <1>1, <2>2, BeyondFirst
    <3>2. j + d = Len(buf) + i
      <4>1. i \in Nat /\ j = Len(buf') + i /\ Len(buf') = Len(buf) - d
        BY <3>1, <1>1, <1>2
      <4>2. Len(buf) \in Nat
        BY <1>1
      <4> QED BY <4>1, <4>2
    <3> QED BY <3>1, <3>2, <1>1, <1>3
  <2> QED BY <2>1, <2>2
<1>6. Later(Stream, Stream', d)
  BY <1>4, <1>5 DEF Later
<1> QED BY <1>2, <1>3, <1>6

(* The part of a frame that is in the buffer. *)
LEMMA FrameInBuffer ==
    ASSUME StreamType, NEW left \in Seq(Payloads), NEW place \in [1 .. Len(left) -> Nat \ {0}],
           Standing(Stream, left, place), NEW h \in 1 .. Len(left)
    PROVE  /\ place[h] \in Nat \ {0} /\ Len(left[h]) \in Nat /\ left[h] \in Payloads
           /\ \A k \in 1 .. HeaderLen + Len(left[h]) :
                  place[h] + k - 1 <= Len(buf) => buf[place[h] + k - 1] = Frame(left[h])[k]
<1>1. /\ Len(Stream) = Len(buf) + Len(wire)
      /\ Len(buf) \in Nat /\ Len(wire) \in Nat
      /\ \A j \in 1 .. Len(buf) : Stream[j] = buf[j]
  BY StreamElements
<1>2. left[h] \in Payloads
  BY ElementOfSeq
<1>3. Len(left[h]) \in Nat /\ place[h] \in Nat \ {0}
  BY <1>2, PayloadTypes
<1>4. ASSUME NEW k \in 1 .. HeaderLen + Len(left[h]), place[h] + k - 1 <= Len(buf)
      PROVE  buf[place[h] + k - 1] = Frame(left[h])[k]
  <2>1. k \in Nat /\ k >= 1
    BY <1>3 DEF HeaderLen
  <2>2. place[h] + k - 1 \in 1 .. Len(buf) /\ place[h] + k - 1 <= Len(Stream)
    BY <2>1, <1>1, <1>3, <1>4
  <2>3. Stream[place[h] + k - 1] = Frame(left[h])[k]
    BY <2>2 DEF Standing
  <2> QED BY <2>2, <2>3, <1>1
<1> QED BY <1>2, <1>3, <1>4

(* A frame begins with a start, and its header tells its length.           *)
LEMMA HeaderInBuffer ==
    ASSUME StreamType, NEW left \in Seq(Payloads), NEW place \in [1 .. Len(left) -> Nat \ {0}],
           Standing(Stream, left, place), NEW h \in 1 .. Len(left)
    PROVE  /\ place[h] <= Len(buf) => buf[place[h]] = START1
           /\ place[h] < Len(buf) => place[h] \in Starts(buf)
           /\ place[h] + 3 <= Len(buf) => buf[place[h] + 2] * 256 + buf[place[h] + 3] = Len(left[h])
<1>1. /\ place[h] \in Nat \ {0} /\ Len(left[h]) \in Nat /\ left[h] \in Payloads
      /\ \A k \in 1 .. HeaderLen + Len(left[h]) :
             place[h] + k - 1 <= Len(buf) => buf[place[h] + k - 1] = Frame(left[h])[k]
  BY FrameInBuffer
<1>2. Len(buf) \in Nat
  BY StreamElements
<1>3. /\ Frame(left[h])[1] = START1 /\ Frame(left[h])[2] = START2
      /\ Frame(left[h])[3] * 256 + Frame(left[h])[4] = Len(left[h])
  BY <1>1, FrameElements
<1> DEFINE b == place[h]
<1>4. /\ 1 \in 1 .. HeaderLen + Len(left[h]) /\ 2 \in 1 .. HeaderLen + Len(left[h])
      /\ 3 \in 1 .. HeaderLen + Len(left[h]) /\ 4 \in 1 .. HeaderLen + Len(left[h])
  BY <1>1 DEF HeaderLen
<1>5. b + 1 - 1 = b /\ b + 2 - 1 = b + 1 /\ b + 3 - 1 = b + 2 /\ b + 4 - 1 = b + 3
  BY <1>1
<1>6. /\ b <= Len(buf) => buf[b] = START1
      /\ b + 1 <= Len(buf) => buf[b + 1] = START2
      /\ b + 2 <= Len(buf) => buf[b + 2] = Frame(left[h])[3]
      /\ b + 3 <= Len(buf) => buf[b + 3] = Frame(left[h])[4]
  BY <1>1, <1>3, <1>4, <1>5
<1>7. /\ b < Len(buf) => b <= Len(buf) /\ b + 1 <= Len(buf) /\ b \in 1 .. Len(buf) - 1
      /\ b + 3 <= Len(buf) => b + 2 <= Len(buf)
  BY <1>1, <1>2
<1>8. b < Len(buf) => b \in Starts(buf)
  BY <1>6, <1>7 DEF Starts
<1>9. b + 3 <= Len(buf) => buf[b + 2] * 256 + buf[b + 3] = Len(left[h])
  BY <1>3, <1>6, <1>7
<1> QED BY <1>6, <1>8, <1>9

-----------------------------------------------------------------------------
(* Each step.                                                              *)

(* The frames as AllStand finds them. *)
Frames(left, place) ==
    /\ left \in Seq(Payloads) /\ place \in [1 .. Len(left) -> Nat \ {0}]
    /\ sent = Found \o left
    /\ Layout(Stream, left, place, lost)

(* No frame begins before the first start in the buffer.                   *)
LEMMA NoneBefore ==
    ASSUME StreamType, NEW left, NEW place, Frames(left, place),
           NEW i \in 1 .. Len(buf), IsStart(buf, i), NEW h \in 1 .. Len(left)
    PROVE  place[h] >= i
<1>1. place[h] < Len(buf) => place[h] \in Starts(buf)
  BY HeaderInBuffer DEF Frames, Layout
<1>2. \A j \in Starts(buf) : i <= j
  BY DEF IsStart
<1>3. place[h] \in Nat /\ i \in Nat /\ i <= Len(buf) /\ Len(buf) \in Nat
  <2>1. Len(buf) \in Nat
    BY StreamElements
  <2>2. place[h] \in Nat
    BY DEF Frames
  <2> QED BY <2>1, <2>2
<1>4. CASE place[h] < Len(buf)
  BY <1>1, <1>2, <1>3, <1>4
<1>5. CASE ~(place[h] < Len(buf))
  BY <1>3, <1>5
<1> QED BY <1>4, <1>5

(* Bytes before the first frame go. *)
LEMMA NothingLost ==
    ASSUME StreamType, NEW left, NEW place, Frames(left, place),
           NEW d \in Nat, d <= Len(buf), \A h \in 1 .. Len(left) : place[h] > d,
           buf' = From(buf, d + 1), UNCHANGED <<wire, lost, out, handled, sent>>
    PROVE  AllStand'
<1>1. Stream \in Seq(Byte) /\ Stream' \in Seq(Byte) /\ Later(Stream, Stream', d)
  BY BufferCut, StreamElements
<1>2. /\ left \in Seq(Payloads) /\ place \in [1 .. Len(left) -> Nat \ {0}]
      /\ Layout(Stream, left, place, lost) /\ lost \in BOOLEAN
  BY DEF Frames, StreamType
<1>3. Len(left) \in Nat
  BY <1>2, LenProperties
<1>4. /\ Later(left, left, 0)
      /\ \A i \in 1 .. 0 : End(left, place, i) <= d + 1
      /\ \A i \in 0 + 1 .. Len(left) : place[i] > d
  BY <1>3 DEF Later
<1>5. \E moved \in [1 .. Len(left) -> Nat \ {0}] : Layout(Stream', left, moved, lost)
  BY <1>1, <1>2, <1>4, LayoutDropped
<1>6. sent' = Found' \o left
  BY DEF Frames, Found
<1> QED BY <1>2, <1>5, <1>6 DEF AllStand

LEMMA NoStartStep ==
    ASSUME StreamType, NEW left, NEW place, Frames(left, place), NoStart
    PROVE  AllStand'
<1>1. /\ Starts(buf) = {} /\ buf' = Kept(buf) /\ at' = "handle"
      /\ UNCHANGED <<wire, lost, out, handled, sent>>
  BY DEF NoStart
<1>2. buf \in Seq(Byte) /\ Len(buf) \in Nat
  BY StreamElements DEF StreamType
<1>3. ASSUME NEW h \in 1 .. Len(left)
      PROVE  /\ place[h] \in Nat \ {0} /\ place[h] >= Len(buf)
             /\ place[h] <= Len(buf) => buf[place[h]] = START1
  <2>1. /\ place[h] <= Len(buf) => buf[place[h]] = START1
        /\ place[h] < Len(buf) => place[h] \in Starts(buf)
    BY HeaderInBuffer DEF Frames, Layout
  <2>2. place[h] \in Nat \ {0}
    BY DEF Frames
  <2> QED BY <1>1, <1>2, <2>1, <2>2
<1>4. CASE buf # <<>> /\ Last(buf) = START1
  <2>1. Len(buf) >= 1 /\ buf[Len(buf)] = START1 /\ buf' = <<START1>>
    BY <1>1, <1>2, <1>4, EmptySeq DEF Kept, Last
  <2> DEFINE d == Len(buf) - 1
  <2>2. /\ From(buf, d + 1) \in Seq(Byte) /\ Len(From(buf, d + 1)) = 1
        /\ From(buf, d + 1)[1] = START1 /\ d \in Nat /\ d <= Len(buf) /\ d < Len(buf)
    <3>1. d \in Nat /\ d <= Len(buf) /\ d < Len(buf) /\ Len(buf) - d = 1 /\ 1 + d = Len(buf)
          /\ 1 \in 1 .. Len(buf) - d
      BY <1>2, <2>1
    <3> HIDE DEF d
    <3>2. /\ From(buf, d + 1) \in Seq(Byte) /\ Len(From(buf, d + 1)) = Len(buf) - d
          /\ \A j \in 1 .. Len(buf) - d : From(buf, d + 1)[j] = buf[j + d]
      BY <1>2, <3>1, SuffixElements
    <3> QED BY <2>1, <3>1, <3>2
  <2>3. buf' = From(buf, d + 1)
    BY <2>1, <2>2
  <2>4. \A h \in 1 .. Len(left) : place[h] > d
    BY <1>2, <1>3, <2>2
  <2> HIDE DEF d
  <2>5. AllStand'
    BY <1>1, <2>2, <2>3, <2>4, NothingLost
  <2> QED BY <2>5
<1>5. CASE ~(buf # <<>> /\ Last(buf) = START1)
  <2>1. buf' = <<>> /\ (buf = <<>> \/ Last(buf) # START1)
    BY <1>1, <1>5 DEF Kept
  <2>2. buf' = From(buf, Len(buf) + 1)
    BY <1>2, <2>1 DEF From
  <2>3. ASSUME NEW h \in 1 .. Len(left) PROVE place[h] > Len(buf)
    <3>1. CASE buf = <<>>
      BY <3>1, <1>3
    <3>2. CASE buf # <<>> /\ Last(buf) # START1
      <4>1. Len(buf) >= 1 /\ buf[Len(buf)] # START1
        BY <1>2, <3>2, EmptySeq DEF Last
      <4> QED BY <4>1, <1>2, <1>3
    <3> QED BY <2>1, <3>1, <3>2
  <2>4. AllStand'
    BY <1>1, <1>2, <2>2, <2>3, NothingLost
  <2> QED BY <2>4
<1> QED BY <1>4, <1>5

(* The buffer from its first start on. *)
LEMMA FromStart ==
    ASSUME StreamType, NEW i \in 1 .. Len(buf), IsStart(buf, i)
    PROVE  /\ i - 1 \in Nat /\ i - 1 <= Len(buf) /\ (i - 1) + 1 = i /\ i + 1 <= Len(buf)
           /\ buf[i] = START1 /\ buf[i + 1] = START2 /\ Len(buf) \in Nat
           /\ From(buf, i) \in Seq(Byte) /\ Len(From(buf, i)) = Len(buf) - (i - 1)
           /\ \A j \in 1 .. Len(buf) - (i - 1) : From(buf, i)[j] = buf[j + (i - 1)]
<1>1. buf \in Seq(Byte) /\ Len(buf) \in Nat
  BY StreamElements DEF StreamType
<1>2. i \in 1 .. Len(buf) - 1 /\ buf[i] = START1 /\ buf[i + 1] = START2
  BY DEF IsStart, Starts
<1> DEFINE d == i - 1
<1>3. d \in Nat /\ d <= Len(buf) /\ d + 1 = i /\ i + 1 <= Len(buf)
  BY <1>1, <1>2
<1>4. /\ From(buf, d + 1) \in Seq(Byte) /\ Len(From(buf, d + 1)) = Len(buf) - d
      /\ \A j \in 1 .. Len(buf) - d : From(buf, d + 1)[j] = buf[j + d]
  <2> HIDE DEF d
  <2> QED BY <1>1, <1>3, SuffixElements
<1> QED BY <1>1, <1>2, <1>3, <1>4

(* The first four bytes there. *)
LEMMA HeaderFromStart ==
    ASSUME StreamType, NEW i \in 1 .. Len(buf), IsStart(buf, i)
    PROVE  /\ Len(From(buf, i)) >= 2 /\ From(buf, i)[1] = START1 /\ From(buf, i)[2] = START2
           /\ Len(From(buf, i)) >= HeaderLen =>
                  /\ i + 3 <= Len(buf)
                  /\ Declared(From(buf, i)) = buf[i + 2] * 256 + buf[i + 3]
                  /\ Declared(From(buf, i)) \in Nat
                  /\ Declared(From(buf, i)) >= buf[i + 2] * 256
<1>1. /\ i - 1 \in Nat /\ i + 1 <= Len(buf) /\ Len(buf) \in Nat
      /\ buf[i] = START1 /\ buf[i + 1] = START2
      /\ Len(From(buf, i)) = Len(buf) - (i - 1)
      /\ \A j \in 1 .. Len(buf) - (i - 1) : From(buf, i)[j] = buf[j + (i - 1)]
  BY FromStart
<1>2. /\ 1 \in 1 .. Len(buf) - (i - 1) /\ 1 + (i - 1) = i
      /\ 2 \in 1 .. Len(buf) - (i - 1) /\ 2 + (i - 1) = i + 1
      /\ Len(From(buf, i)) >= 2
  BY <1>1
<1>3. ASSUME Len(From(buf, i)) >= HeaderLen
      PROVE  /\ i + 3 <= Len(buf)
             /\ Declared(From(buf, i)) = buf[i + 2] * 256 + buf[i + 3]
             /\ Declared(From(buf, i)) \in Nat
             /\ Declared(From(buf, i)) >= buf[i + 2] * 256
  <2>1. /\ i + 3 <= Len(buf) /\ i + 2 \in 1 .. Len(buf) /\ i + 3 \in 1 .. Len(buf)
        /\ 3 \in 1 .. Len(buf) - (i - 1) /\ 3 + (i - 1) = i + 2
        /\ 4 \in 1 .. Len(buf) - (i - 1) /\ 4 + (i - 1) = i + 3
    <3>1. Len(buf) - (i - 1) >= 4 /\ i \in Nat /\ i >= 1 /\ Len(buf) \in Nat
      BY <1>1, <1>3 DEF HeaderLen
    <3> QED BY <3>1
  <2>2. From(buf, i)[3] = buf[i + 2] /\ From(buf, i)[4] = buf[i + 3]
    BY <1>1, <2>1
  <2>3. buf[i + 2] \in Byte /\ buf[i + 3] \in Byte
    BY <2>1, ElementOfSeq DEF StreamType
  <2>4. Declared(From(buf, i)) = buf[i + 2] * 256 + buf[i + 3]
    BY <2>2 DEF Declared
  <2>5. \A hi, lo \in Byte : hi * 256 + lo \in Nat /\ hi * 256 + lo >= hi * 256
    BY DEF Byte
  <2> QED BY <2>1, <2>3, <2>4, <2>5
<1>4. From(buf, i)[1] = START1 /\ From(buf, i)[2] = START2
  BY <1>1, <1>2
<1> QED BY <1>2, <1>3, <1>4

LEMMA IncompleteStep ==
    ASSUME StreamType, NEW left, NEW place, Frames(left, place),
           NEW i \in 1 .. Len(buf), Incomplete(i)
    PROVE  AllStand'
<1>1. /\ IsStart(buf, i) /\ buf' = From(buf, i)
      /\ UNCHANGED <<wire, lost, out, handled, sent>>
      /\ Len(From(buf, i)) >= HeaderLen =>
             /\ Declared(From(buf, i)) <= MaxPayload
             /\ Len(From(buf, i)) < HeaderLen + Declared(From(buf, i))
  <2>1. /\ IsStart(buf, i) /\ buf' = From(buf, i)
        /\ UNCHANGED <<wire, lost, out, handled, sent>>
    BY DEF Incomplete
  <2>2. Len(From(buf, i)) \in Nat
    BY <2>1, FromStart, LenProperties
  <2>3. ~(Len(From(buf, i)) >= HeaderLen /\ Len(From(buf, i)) < HeaderLen)
    BY <2>2 DEF HeaderLen
  <2> QED BY <2>1, <2>3 DEF Incomplete
<1>2. /\ i - 1 \in Nat /\ i - 1 <= Len(buf) /\ (i - 1) + 1 = i /\ From(buf, i) \in Seq(Byte)
  BY <1>1, FromStart
<1>3. \A h \in 1 .. Len(left) : place[h] > i - 1
  <2> TAKE h \in 1 .. Len(left)
  <2>1. place[h] >= i
    BY <1>1, NoneBefore
  <2>2. place[h] \in Nat
    BY DEF Frames
  <2> QED BY <2>1, <2>2, <1>2
<1>4. AllStand'
  <2> DEFINE d == i - 1
  <2>1. d \in Nat /\ d <= Len(buf) /\ buf' = From(buf, d + 1) /\ \A h \in 1 .. Len(left) : place[h] > d
    BY <1>1, <1>2, <1>3
  <2> HIDE DEF d
  <2> QED BY <1>1, <2>1, NothingLost
<1> QED BY <1>4

LEMMA BogusStep ==
    ASSUME StreamType, NEW left, NEW place, Frames(left, place),
           NEW i \in 1 .. Len(buf), Bogus(i)
    PROVE  AllStand'
<1>1. /\ IsStart(buf, i) /\ buf' = From(buf, i + 1) /\ at' = "feed"
      /\ Len(From(buf, i)) >= HeaderLen /\ Declared(From(buf, i)) > MaxPayload
      /\ UNCHANGED <<wire, lost, out, handled, sent>>
  BY DEF Bogus
<1>2. i \in Nat /\ i <= Len(buf) /\ Len(buf) \in Nat /\ buf \in Seq(Byte)
  BY StreamElements DEF StreamType
<1>3. ASSUME NEW h \in 1 .. Len(left) PROVE place[h] > i
  <2>1. place[h] >= i /\ place[h] \in Nat
    BY <1>1, NoneBefore DEF Frames
  <2>2. place[h] # i
    <3> SUFFICES ASSUME place[h] = i PROVE FALSE
      OBVIOUS
    <3>1. i + 3 <= Len(buf) /\ Declared(From(buf, i)) = buf[i + 2] * 256 + buf[i + 3]
      BY <1>1, HeaderFromStart
    <3>2. Declared(From(buf, i)) = Len(left[h])
      BY <3>1, HeaderInBuffer DEF Frames, Layout
    <3>3. Len(left[h]) \in Nat /\ Len(left[h]) <= MaxPayload
      <4>1. left[h] \in Payloads
        BY ElementOfSeq DEF Frames
      <4> QED BY <4>1, PayloadTypes
    <3> QED BY <1>1, <3>2, <3>3, LimitType
  <2> QED BY <2>1, <2>2, <1>2
<1>4. AllStand'
  BY <1>1, <1>2, <1>3, NothingLost
<1> QED BY <1>4

(* A start with a possible length is the first frame that is left.         *)
LEMMA FirstFrame ==
    ASSUME StreamType, NEW left, NEW place, Frames(left, place),
           NEW i \in 1 .. Len(buf), IsStart(buf, i),
           Len(From(buf, i)) >= HeaderLen, Declared(From(buf, i)) <= MaxPayload
    PROVE  /\ 1 \in 1 .. Len(left) /\ Len(left) \in Nat /\ place[1] = i
           /\ left[1] \in Payloads /\ Declared(From(buf, i)) = Len(left[1])
<1>1. /\ i + 3 <= Len(buf)
      /\ Declared(From(buf, i)) = buf[i + 2] * 256 + buf[i + 3]
      /\ Declared(From(buf, i)) \in Nat
      /\ Declared(From(buf, i)) >= buf[i + 2] * 256
  BY HeaderFromStart
<1>2. /\ Len(buf) \in Nat /\ Len(Stream) = Len(buf) + Len(wire) /\ Len(wire) \in Nat
      /\ \A j \in 1 .. Len(buf) : Stream[j] = buf[j]
  BY StreamElements
<1>3. /\ left \in Seq(Payloads) /\ place \in [1 .. Len(left) -> Nat \ {0}] /\ Len(left) \in Nat
      /\ Layout(Stream, left, place, lost)
  BY LenProperties DEF Frames
<1>4. ~Outside(left, place, i)
  <2> SUFFICES ASSUME Outside(left, place, i) PROVE FALSE
    OBVIOUS
  <2>1. /\ i \in 1 .. Len(Stream) /\ i + 1 \in 1 .. Len(buf) /\ i + 2 \in 1 .. Len(buf)
        /\ i + 2 <= Len(Stream)
    BY <1>1, <1>2
  <2>2. buf[i] = START1 /\ buf[i + 1] = START2
    BY FromStart
  <2>3. Stream[i] = START1 /\ Stream[i + 1] = START2 /\ Stream[i + 2] = buf[i + 2]
    BY <1>2, <2>1, <2>2
  <2>4. Stream[i + 2] * 256 > MaxPayload
    BY <1>3, <2>1, <2>3 DEF Layout, NoOtherStart
  <2>5. buf[i + 2] \in Nat
    <3>1. buf[i + 2] \in Byte
      BY <2>1, ElementOfSeq DEF StreamType
    <3> QED BY <3>1, BytesAreNat
  <2>6. buf[i + 2] * 256 > MaxPayload /\ buf[i + 2] * 256 <= MaxPayload
    BY <1>1, <2>3, <2>4, <2>5, LimitType
  <2> QED BY <2>5, <2>6, LimitType
<1>5. PICK h \in 1 .. Len(left) : place[h] <= i /\ i < End(left, place, h)
  <2>1. PICK h \in 1 .. Len(left) : ~(i < place[h] \/ i >= End(left, place, h))
    BY <1>4 DEF Outside
  <2>2. End(left, place, h) \in Nat /\ place[h] \in Nat /\ i \in Nat
    BY <1>3, EndType
  <2> QED BY <2>1, <2>2
<1>6. \A g \in 1 .. Len(left) : place[g] >= i /\ place[g] \in Nat
  BY <1>3, NoneBefore
<1>7. place[h] = i
  BY <1>5, <1>6
<1>8. h = 1
  <2> SUFFICES ASSUME h # 1 PROVE FALSE
    OBVIOUS
  <2>1. 1 \in 1 .. Len(left) /\ 1 < h
    BY <1>3
  <2>2. End(left, place, 1) <= place[h] /\ place[1] < End(left, place, 1)
        /\ End(left, place, 1) \in Nat
    BY <1>3, <2>1, EndType DEF Layout, Standing
  <2> QED BY <1>6, <1>7, <2>1, <2>2
<1>9. left[1] \in Payloads
  BY <1>3, <1>8, ElementOfSeq
<1>10. Declared(From(buf, i)) = Len(left[1])
  BY <1>1, <1>3, <1>7, <1>8, HeaderInBuffer DEF Layout
<1> QED BY <1>3, <1>7, <1>8, <1>9, <1>10

(* Taking a frame out of the middle of the books. *)
LEMMA FirstMoved ==
    ASSUME NEW S, NEW a \in Seq(S), NEW b \in Seq(S), NEW c \in Seq(S), c # <<>>
    PROVE  /\ a \o Append(b, Head(c)) = Append(a \o b, Head(c))
           /\ Append(a, Head(c)) \o Tail(c) = a \o c
           /\ Head(c) = c[1]
<1> DEFINE e == Head(c)
<1>1. /\ e \in S /\ Tail(c) \in Seq(S) /\ Len(Tail(c)) = Len(c) - 1
      /\ \A i \in 1 .. Len(Tail(c)) : Tail(c)[i] = c[i + 1]
      /\ e = c[1]
  <2>1. /\ Head(c) \in S /\ Tail(c) \in Seq(S) /\ Len(Tail(c)) = Len(c) - 1
        /\ \A i \in 1 .. Len(Tail(c)) : Tail(c)[i] = c[i + 1]
    BY HeadTailProperties
  <2>2. Head(c) = c[1]
    OBVIOUS
  <2> QED BY <2>1, <2>2
<1> HIDE DEF e
<1>2. Len(c) >= 1 /\ Len(c) \in Nat /\ Len(a) \in Nat /\ Len(b) \in Nat
  BY EmptySeq, LenProperties
<1>3. a \o Append(b, e) = Append(a \o b, e)
  <2>1. <<e>> \in Seq(S)
    BY <1>1
  <2>2. a \o b \in Seq(S)
    BY ConcatProperties
  <2>3. Append(b, e) = b \o <<e>> /\ Append(a \o b, e) = (a \o b) \o <<e>>
    BY <1>1, <2>2, AppendIsConcat
  <2> QED BY <2>1, <2>3, ConcatAssociative
<1>4. Append(a, e) \o Tail(c) = a \o c
  <2>1. <<e>> \in Seq(S)
    BY <1>1
  <2>2. Append(a, e) = a \o <<e>>
    BY <1>1, AppendIsConcat
  <2>3. (a \o <<e>>) \o Tail(c) = a \o (<<e>> \o Tail(c))
    BY <1>1, <2>1, ConcatAssociative
  <2>4. <<e>> \o Tail(c) = c
    <3>1. SubSeq(c, 1, Len(c)) = <<c[1]>> \o SubSeq(c, 2, Len(c))
      <4>1. 1 \in 1 .. Len(c) /\ Len(c) \in 1 .. Len(c)
        BY <1>2
      <4> QED BY <4>1, SubSeqRecursiveFirst
    <3> QED BY <1>1, <3>1, SubSeqFull, TailIsSubSeq
  <2> QED BY <2>2, <2>3, <2>4
<1> QED BY <1>1, <1>3, <1>4 DEF e

(* The place where a whole frame ends. *)
LEMMA WholeFrame ==
    ASSUME StreamType, NEW i \in 1 .. Len(buf), Complete(i)
    PROVE  LET size == Declared(From(buf, i))
               d == (i + HeaderLen + size) - 1
           IN  /\ IsStart(buf, i) /\ Len(From(buf, i)) >= HeaderLen /\ size <= MaxPayload
               /\ Len(buf) >= d /\ out' = Append(out, SubSeq(buf, i + HeaderLen, d))
               /\ buf' = From(buf, d + 1)
               /\ UNCHANGED <<wire, lost, at, handled, sent>> /\ at = "feed"
               /\ d \in Nat /\ i + HeaderLen \in Nat /\ i + HeaderLen >= 1 /\ size \in Nat
<1> DEFINE size == Declared(From(buf, i))
           d == (i + HeaderLen + size) - 1
<1>1. /\ IsStart(buf, i) /\ Len(From(buf, i)) >= HeaderLen /\ size <= MaxPayload
      /\ at = "feed" /\ UNCHANGED <<wire, lost, at, handled, sent>>
  BY DEF Complete
<1>2. /\ Len(buf) >= d
      /\ out' = Append(out, SubSeq(buf, i + HeaderLen, d))
      /\ buf' = From(buf, i + HeaderLen + size)
  BY Zenon DEF Complete
<1>3. size \in Nat /\ i \in Nat
  BY <1>1, HeaderFromStart
<1>4. d \in Nat /\ d + 1 = i + HeaderLen + size /\ i + HeaderLen \in Nat /\ i + HeaderLen >= 1
  <2> HIDE DEF size
  <2> QED BY <1>3 DEF HeaderLen
<1> QED BY <1>1, <1>2, <1>3, <1>4, Zenon

LEMMA CompleteStep ==
    ASSUME StreamType, NEW left, NEW place, Frames(left, place),
           NEW i \in 1 .. Len(buf), Complete(i)
    PROVE  AllStand'
<1> DEFINE size == Declared(From(buf, i))
           d == (i + HeaderLen + size) - 1
           payload == SubSeq(buf, i + HeaderLen, d)
<1>1. /\ IsStart(buf, i) /\ Len(From(buf, i)) >= HeaderLen /\ size <= MaxPayload
      /\ Len(buf) >= d /\ out' = Append(out, payload) /\ buf' = From(buf, d + 1)
      /\ UNCHANGED <<wire, lost, handled, sent>> /\ at' = "feed" /\ d \in Nat
      /\ i + HeaderLen \in Nat /\ size \in Nat
  BY WholeFrame
<1>2. /\ 1 \in 1 .. Len(left) /\ Len(left) \in Nat /\ place[1] = i
      /\ left[1] \in Payloads /\ size = Len(left[1])
  BY <1>1, FirstFrame
<1>3. /\ left \in Seq(Payloads) /\ place \in [1 .. Len(left) -> Nat \ {0}]
      /\ sent = Found \o left /\ Layout(Stream, left, place, lost)
      /\ buf \in Seq(Byte) /\ Len(buf) \in Nat
  BY StreamElements DEF Frames, StreamType
<1> DEFINE rest == Tail(left)
<1>4. /\ left # <<>> /\ rest \in Seq(Payloads) /\ Len(rest) = Len(left) - 1 /\ Head(left) = left[1]
      /\ \A j \in 1 .. Len(rest) : rest[j] = left[j + 1]
  <2>1. left # <<>>
    BY <1>2
  <2>2. Head(left) = left[1]
    BY <2>1
  <2> QED BY <2>1, <2>2, <1>3, HeadTailProperties
<1>5. End(left, place, 1) = d + 1
  BY <1>1, <1>2 DEF End
<1> HIDE DEF size, d
<1>6. payload = left[1]
  <2>1. left[1] \in Seq(Byte) /\ Len(left[1]) \in Nat
    BY <1>2, PayloadTypes
  <2>2. d = (i + HeaderLen + Len(left[1])) - 1
    BY <1>2 DEF d
  <2>3. i \in Nat /\ i >= 1 /\ d <= Len(buf)
    BY <1>1, <1>3
  <2>4. /\ payload \in Seq(Byte) /\ Len(payload) = Len(left[1])
        /\ \A j \in 1 .. Len(left[1]) : payload[j] = buf[i + HeaderLen + j - 1]
    <3>1. \A j \in i + HeaderLen .. d : buf[j] \in Byte
      <4>1. \A j \in i + HeaderLen .. d : j \in 1 .. Len(buf)
        BY <1>1, <1>3, <2>3 DEF HeaderLen
      <4> QED BY <4>1, <1>3, ElementOfSeq
    <3>2. /\ payload \in Seq(Byte)
          /\ Len(payload) = IF i + HeaderLen <= d THEN d - (i + HeaderLen) + 1 ELSE 0
          /\ \A j \in 1 .. d - (i + HeaderLen) + 1 : payload[j] = buf[i + HeaderLen + j - 1]
      BY <3>1, <1>1, SubSeqProperties
    <3> HIDE DEF payload
    <3>3. d - (i + HeaderLen) + 1 = Len(left[1]) /\ (i + HeaderLen <= d <=> Len(left[1]) >= 1)
      <4>1. PICK n \in Nat : n = Len(left[1]) /\ d = (i + HeaderLen + n) - 1
        BY <2>1, <2>2
      <4>2. d - (i + HeaderLen) + 1 = n /\ (i + HeaderLen <= d <=> n >= 1)
        <5>1. n \in Nat /\ d = (i + HeaderLen + n) - 1 /\ i \in Nat /\ d \in Nat
          BY <4>1, <2>3, <1>1
        <5> QED BY <5>1 DEF HeaderLen
      <4> QED BY <4>1, <4>2
    <3>4. Len(payload) = Len(left[1])
      BY <2>1, <3>2, <3>3
    <3> QED BY <3>2, <3>3, <3>4
  <2>5. ASSUME NEW j \in 1 .. Len(left[1]) PROVE payload[j] = left[1][j]
    <3>1. /\ j \in Nat /\ j >= 1 /\ HeaderLen + j \in 1 .. HeaderLen + Len(left[1])
          /\ i + (HeaderLen + j) - 1 = i + HeaderLen + j - 1
          /\ i + (HeaderLen + j) - 1 <= Len(buf)
      <4>1. PICK n \in Nat : n = Len(left[1]) /\ d = (i + HeaderLen + n) - 1
        BY <2>1, <2>2
      <4>2. j \in Nat /\ j >= 1 /\ j \in 1 .. n
        BY <4>1
      <4>3. /\ HeaderLen + j \in 1 .. HeaderLen + n
            /\ i + (HeaderLen + j) - 1 = i + HeaderLen + j - 1
            /\ i + (HeaderLen + j) - 1 <= Len(buf)
        <5>1. n \in Nat /\ d = (i + HeaderLen + n) - 1 /\ i \in Nat /\ d \in Nat
          BY <4>1, <2>3, <1>1
        <5>2. j \in 1 .. n /\ Len(buf) \in Nat /\ d <= Len(buf)
          BY <4>2, <2>3, <1>3
        <5> QED BY <5>1, <5>2, InFrame
      <4> QED BY <4>1, <4>2, <4>3
    <3>2. buf[i + (HeaderLen + j) - 1] = Frame(left[1])[HeaderLen + j]
      <4>1. \A k \in 1 .. HeaderLen + Len(left[1]) :
               place[1] + k - 1 <= Len(buf) => buf[place[1] + k - 1] = Frame(left[1])[k]
        <5>1. Standing(Stream, left, place)
          BY <1>3 DEF Layout
        <5>2. /\ left \in Seq(Payloads) /\ place \in [1 .. Len(left) -> Nat \ {0}]
              /\ 1 \in 1 .. Len(left)
          BY <1>2, <1>3
        <5> QED BY <5>1, <5>2, FrameInBuffer
      <4> QED BY <1>2, <3>1, <4>1
    <3>3. Frame(left[1])[HeaderLen + j] = left[1][j]
      BY <1>2, FrameElements
    <3> QED BY <2>4, <3>1, <3>2, <3>3
  <2> HIDE DEF payload
  <2> QED BY <2>1, <2>4, <2>5, SeqEqual
<1>7. \E moved \in [1 .. Len(rest) -> Nat \ {0}] : Layout(Stream', rest, moved, lost)
  <2>1. Stream \in Seq(Byte) /\ Stream' \in Seq(Byte) /\ Later(Stream, Stream', d)
    BY <1>1, BufferCut, StreamElements
  <2>2. /\ Later(left, rest, 1)
        /\ \A j \in 1 .. 1 : End(left, place, j) <= d + 1
        /\ \A j \in 1 + 1 .. Len(left) : place[j] > d
    <3>1. \A j \in 1 .. 1 : j = 1
      OBVIOUS
    <3>2. ASSUME NEW j \in 1 + 1 .. Len(left) PROVE place[j] > d
      <4>1. j \in 1 .. Len(left) /\ 1 < j
        BY <1>2
      <4>2. End(left, place, 1) <= place[j] /\ place[j] \in Nat
        BY <4>1, <1>2, <1>3 DEF Layout, Standing
      <4> QED BY <4>2, <1>1, <1>5
    <3>3. Later(left, rest, 1)
      <4> HIDE DEF rest
      <4> QED BY <1>2, <1>4 DEF Later
    <3> QED BY <1>1, <1>5, <3>1, <3>2, <3>3
  <2> HIDE DEF rest
  <2> QED BY <1>1, <1>3, <1>4, <2>1, <2>2, LayoutDropped
<1>8. sent' = Found' \o rest
  <2>1. /\ handled \in Seq(Seq(Byte)) /\ out \in Seq(Seq(Byte)) /\ left \in Seq(Seq(Byte))
    <3>1. Payloads \subseteq Seq(Byte)
      BY PayloadTypes
    <3> QED BY <3>1, <1>3, SeqMonotonic DEF StreamType
  <2>2. handled \o out \in Seq(Seq(Byte))
    BY <2>1, ConcatProperties
  <2>3. handled \o Append(out, Head(left)) = Append(handled \o out, Head(left))
    <3>1. handled \in Seq(Seq(Byte)) /\ out \in Seq(Seq(Byte)) /\ left \in Seq(Seq(Byte)) /\ left # <<>>
      BY <1>4, <2>1
    <3> QED BY <3>1, FirstMoved
  <2>4. Append(handled \o out, Head(left)) \o Tail(left) = (handled \o out) \o left
    BY <1>4, <2>1, <2>2, FirstMoved
  <2>5. Found' = handled \o Append(out, Head(left))
    BY <1>1, <1>4, <1>6 DEF Found
  <2> QED BY <1>1, <1>3, <2>3, <2>4, <2>5 DEF Found
<1>9. AllStand'
  <2> HIDE DEF rest
  <2> QED BY <1>1, <1>4, <1>7, <1>8 DEF AllStand
<1> QED BY <1>9

(* The first bytes of a sequence. *)
LEMMA FirstBytes ==
    ASSUME NEW S, NEW s \in Seq(S), NEW k \in 0 .. Len(s)
    PROVE  /\ SubSeq(s, 1, k) \in Seq(S) /\ Len(SubSeq(s, 1, k)) = k /\ k \in Nat
           /\ \A j \in 1 .. k : SubSeq(s, 1, k)[j] = s[j]
<1>1. Len(s) \in Nat
  BY LenProperties
<1>2. \A j \in 1 .. k : j \in 1 .. Len(s) /\ s[j] \in S
  <2>1. \A j \in 1 .. k : j \in 1 .. Len(s)
    BY <1>1
  <2> QED BY <2>1, ElementOfSeq
<1>3. /\ SubSeq(s, 1, k) \in Seq(S)
      /\ Len(SubSeq(s, 1, k)) = IF 1 <= k THEN k - 1 + 1 ELSE 0
      /\ \A j \in 1 .. k - 1 + 1 : SubSeq(s, 1, k)[j] = s[1 + j - 1]
  <2>1. 1 \in Int /\ k \in Int
    BY <1>1
  <2> QED BY <1>2, <2>1, SubSeqProperties
<1>4. /\ k \in Nat /\ k - 1 + 1 = k /\ (IF 1 <= k THEN k - 1 + 1 ELSE 0) = k
      /\ \A j \in 1 .. k : 1 + j - 1 = j
  BY <1>1
<1> QED BY <1>3, <1>4

(* Types, and what feed keeps, whatever stands in the stream.              *)
LEMMA BufferStep ==
    ASSUME StreamType, BufferInv, [Next]_vars
    PROVE  StreamType' /\ BufferInv'
<1>1. /\ wire \in Seq(Byte) /\ buf \in Seq(Byte) /\ sent \in Seq(Payloads)
      /\ handled \in Seq(Seq(Byte)) /\ out \in Seq(Seq(Byte)) /\ Len(buf) \in Nat /\ Len(wire) \in Nat
  BY StreamElements DEF StreamType
<1>2. ASSUME NEW p \in Payloads, WriteFrame(p) PROVE StreamType' /\ BufferInv'
  <2> DEFINE f == Frame(p)
  <2>1. /\ wire' = wire \o f /\ sent' = Append(sent, p)
        /\ UNCHANGED <<lost, at, buf, out, handled>>
    BY <1>2 DEF WriteFrame, Write
  <2>2. f \in Seq(Byte)
    BY FrameElements
  <2> HIDE DEF f
  <2>3. wire' \in Seq(Byte)
    BY <1>1, <2>1, <2>2, ConcatProperties
  <2>4. sent' \in Seq(Payloads)
    BY <1>1, <2>1, AppendProperties
  <2> QED BY <2>1, <2>3, <2>4 DEF StreamType, BufferInv
<1>3. ASSUME NEW n \in Noise, WriteNoise(n) PROVE StreamType' /\ BufferInv'
  <2>1. wire' = wire \o n /\ UNCHANGED <<lost, at, buf, out, handled, sent>>
    BY <1>3 DEF WriteNoise, Write
  <2>2. n \in Seq(Byte)
    BY StreamAssumption
  <2>3. wire' \in Seq(Byte)
    BY <1>1, <2>1, <2>2, ConcatProperties
  <2> QED BY <2>1, <2>3 DEF StreamType, BufferInv
<1>4. ASSUME NEW k \in 0 .. Len(wire), Lose(k) PROVE StreamType' /\ BufferInv'
  <2>1. lost' = TRUE /\ wire' = SubSeq(wire, 1, k) /\ UNCHANGED <<at, buf, out, handled, sent>>
    BY <1>4 DEF Lose
  <2>2. wire' \in Seq(Byte)
    BY <1>1, <2>1, FirstBytes
  <2> QED BY <2>1, <2>2 DEF StreamType, BufferInv
<1>5. ASSUME NEW k \in 1 .. Len(wire), Read(k) PROVE StreamType' /\ BufferInv'
  <2> DEFINE head == SubSeq(wire, 1, k)
             tail == From(wire, k + 1)
  <2>1. buf' = buf \o head /\ wire' = tail /\ at' = "feed" /\ UNCHANGED <<lost, out, handled, sent>>
    BY <1>5 DEF Read
  <2>2. k \in 0 .. Len(wire) /\ k \in Nat /\ k <= Len(wire)
    BY <1>1
  <2>3. head \in Seq(Byte) /\ tail \in Seq(Byte)
    BY <1>1, <2>2, FirstBytes, SuffixElements
  <2> HIDE DEF head, tail
  <2>4. buf' \in Seq(Byte) /\ wire' \in Seq(Byte)
    BY <1>1, <2>1, <2>3, ConcatProperties
  <2> QED BY <2>1, <2>4 DEF StreamType, BufferInv
<1>6. CASE NoStart
  <2>1. buf' = Kept(buf) /\ at' = "handle" /\ UNCHANGED <<wire, lost, out, handled, sent>>
    BY <1>6 DEF NoStart
  <2>2. \/ buf' = <<>>
        \/ buf' = <<START1>>
    BY <2>1 DEF Kept
  <2>3. START1 \in Byte
    BY Bytes DEF START1
  <2>4. buf' \in Seq(Byte) /\ Len(buf') <= 1
    <3>1. CASE buf' = <<>>
      BY <3>1
    <3>2. CASE buf' = <<START1>>
      <4>1. <<START1>> \in Seq(Byte) /\ Len(<<START1>>) = 1
        BY <2>3
      <4>2. buf' \in Seq(Byte) /\ Len(buf') = 1
        BY <3>2, <4>1, Zenon
      <4> QED BY <4>2
    <3> QED BY <2>2, <3>1, <3>2
  <2> QED BY <2>1, <2>4 DEF StreamType, BufferInv
<1>7. ASSUME NEW i \in 1 .. Len(buf), Incomplete(i) PROVE StreamType' /\ BufferInv'
  <2>1. /\ IsStart(buf, i) /\ buf' = From(buf, i) /\ at' = "handle"
        /\ UNCHANGED <<wire, lost, out, handled, sent>>
    BY <1>7 DEF Incomplete
  <2>2. From(buf, i) \in Seq(Byte) /\ Len(From(buf, i)) \in Nat
    BY <2>1, FromStart, LenProperties
  <2>3. Len(From(buf, i)) >= HeaderLen =>
            /\ Declared(From(buf, i)) <= MaxPayload
            /\ Len(From(buf, i)) < HeaderLen + Declared(From(buf, i))
    <3>1. ~(Len(From(buf, i)) >= HeaderLen /\ Len(From(buf, i)) < HeaderLen)
      BY <2>2 DEF HeaderLen
    <3> QED BY <1>7, <3>1 DEF Incomplete
  <2>4. Partial(buf')
    BY <2>1, <2>3, HeaderFromStart DEF Partial
  <2> QED BY <2>1, <2>2, <2>4 DEF StreamType, BufferInv
<1>8. ASSUME NEW i \in 1 .. Len(buf), Bogus(i) PROVE StreamType' /\ BufferInv'
  <2>1. /\ buf' = From(buf, i + 1) /\ at = "feed"
        /\ UNCHANGED <<wire, lost, at, out, handled, sent>>
    BY <1>8 DEF Bogus
  <2>2. i \in Nat /\ i <= Len(buf)
    BY <1>1
  <2>3. buf' \in Seq(Byte)
    BY <1>1, <2>1, <2>2, SuffixElements
  <2> QED BY <2>1, <2>3 DEF StreamType, BufferInv
<1>9. ASSUME NEW i \in 1 .. Len(buf), Complete(i) PROVE StreamType' /\ BufferInv'
  <2> DEFINE size == Declared(From(buf, i))
             d == (i + HeaderLen + size) - 1
             payload == SubSeq(buf, i + HeaderLen, d)
  <2>1. /\ Len(buf) >= d /\ out' = Append(out, payload) /\ buf' = From(buf, d + 1)
        /\ UNCHANGED <<wire, lost, at, handled, sent>> /\ at = "feed"
        /\ d \in Nat /\ i + HeaderLen \in Nat /\ i + HeaderLen >= 1
    BY <1>9, WholeFrame
  <2>2. payload \in Seq(Byte)
    <3>1. \A j \in i + HeaderLen .. d : j \in 1 .. Len(buf)
      <4> HIDE DEF d
      <4> QED BY <1>1, <2>1
    <3>2. \A j \in i + HeaderLen .. d : buf[j] \in Byte
      BY <3>1, <1>1, ElementOfSeq
    <3> HIDE DEF d
    <3> QED BY <2>1, <3>2, SubSeqProperties
  <2> HIDE DEF d, payload
  <2>3. buf' \in Seq(Byte)
    BY <1>1, <2>1, SuffixElements
  <2>4. out' \in Seq(Seq(Byte))
    BY <1>1, <2>1, <2>2, AppendProperties
  <2> QED BY <2>1, <2>3, <2>4 DEF StreamType, BufferInv
<1>10. CASE Handle
  <2>1. /\ out # <<>> /\ handled' = Append(handled, Head(out)) /\ out' = Tail(out)
        /\ UNCHANGED <<wire, lost, at, buf, sent>>
    BY <1>10 DEF Handle
  <2>2. Head(out) \in Seq(Byte) /\ Tail(out) \in Seq(Seq(Byte))
    BY <1>1, <2>1, HeadTailProperties
  <2>3. handled' \in Seq(Seq(Byte)) /\ out' \in Seq(Seq(Byte))
    BY <1>1, <2>1, <2>2, AppendProperties
  <2> QED BY <2>1, <2>3 DEF StreamType, BufferInv
<1>11. CASE ReadOn
  BY <1>11 DEF ReadOn, StreamType, BufferInv
<1>12. CASE UNCHANGED vars
  BY <1>12 DEF vars, StreamType, BufferInv
<1> QED BY <1>2, <1>3, <1>4, <1>5, <1>6, <1>7, <1>8, <1>9, <1>10, <1>11, <1>12 DEF Next

LEMMA BufferStarts == Init => StreamType /\ BufferInv
<1> SUFFICES ASSUME Init PROVE StreamType /\ BufferInv
  OBVIOUS
<1>1. StreamType
  <2>1. <<>> \in Seq(Byte) /\ <<>> \in Seq(Seq(Byte)) /\ <<>> \in Seq(Payloads)
    OBVIOUS
  <2>2. FALSE \in BOOLEAN /\ "read" \in {"read", "feed", "handle"}
    OBVIOUS
  <2> QED BY <2>1, <2>2, Zenon DEF Init, StreamType
<1>2. Len(buf) <= 1
  BY DEF Init
<1> QED BY <1>1, <1>2 DEF BufferInv

(* What a run between reads leaves in the decoder is less than a frame,    *)
(* whatever the app writes (framing.py:42-61).                             *)
THEOREM DecoderAlwaysBounded == Spec => []BufferBounded
<1>1. Init => StreamType /\ BufferInv
  BY BufferStarts
<1>2. StreamType /\ BufferInv /\ [Next]_vars => (StreamType /\ BufferInv)'
  BY BufferStep
<1>3. ASSUME StreamType, BufferInv PROVE BufferBounded
  <2> SUFFICES ASSUME at # "feed" PROVE Len(buf) < HeaderLen + MaxPayload
    BY DEF BufferBounded
  <2>1. Len(buf) \in Nat /\ buf \in Seq(Byte) /\ MaxPayload \in Nat
    BY <1>3, StreamElements, LimitType DEF StreamType
  <2>2. HeaderLen = 4
    BY DEF HeaderLen
  <2>3. CASE Len(buf) < 4
    BY <2>1, <2>2, <2>3
  <2>4. CASE Len(buf) >= 4
    <3>1. Declared(buf) <= MaxPayload /\ Len(buf) < 4 + Declared(buf)
      <4>1. ~(Len(buf) <= 1)
        BY <2>1, <2>4
      <4>2. Partial(buf)
        BY <1>3, <4>1 DEF BufferInv
      <4> QED BY <2>2, <2>4, <4>2 DEF Partial
    <3>2. Declared(buf) \in Nat
      <4>1. 3 \in 1 .. Len(buf) /\ 4 \in 1 .. Len(buf)
        BY <2>1, <2>4
      <4>2. buf[3] \in Byte /\ buf[4] \in Byte
        BY <2>1, <4>1, ElementOfSeq
      <4>3. \A hi, lo \in Byte : hi * 256 + lo \in Nat
        BY DEF Byte
      <4> QED BY <4>2, <4>3 DEF Declared
    <3> QED BY <2>1, <2>2, <3>1, <3>2
  <2> QED BY <2>1, <2>3, <2>4
<1> QED BY <1>1, <1>2, <1>3, PTL DEF Spec

(* The history of what was sent is the found frames and those still left.  *)
LEMMA HistoryTypes ==
    ASSUME StreamType
    PROVE  Found \in Seq(Seq(Byte)) /\ Seq(Payloads) \subseteq Seq(Seq(Byte))
<1>1. Payloads \subseteq Seq(Byte)
  BY PayloadTypes
<1>2. Seq(Payloads) \subseteq Seq(Seq(Byte))
  BY <1>1, SeqMonotonic
<1>3. Found \in Seq(Seq(Byte))
  BY ConcatProperties DEF StreamType, Found
<1> QED BY <1>2, <1>3

LEMMA WriteFrameStep ==
    ASSUME HarmlessNoise, StreamInv, NEW left, NEW place, Frames(left, place),
           NEW p \in Payloads, WriteFrame(p)
    PROVE  AllStand'
<1>1. /\ ~lost /\ wire' = wire \o Frame(p) /\ sent' = Append(sent, p)
      /\ UNCHANGED <<lost, at, buf, out, handled>>
  BY DEF WriteFrame, Write
<1>2. StreamType /\ BufferInv /\ lost = FALSE
  BY <1>1 DEF StreamInv, StreamType
<1>3. Frame(p) \in Seq(Byte)
  BY FrameElements
<1>5. Stream' = Stream \o Frame(p)
  <2> DEFINE f == Frame(p)
  <2>1. f \in Seq(Byte) /\ wire \in Seq(Byte) /\ buf \in Seq(Byte)
    BY <1>2, <1>3 DEF StreamType
  <2>2. wire' = wire \o f /\ buf' = buf
    BY <1>1
  <2> HIDE DEF f
  <2>3. Stream' = Stream \o f
    BY <2>1, <2>2, ConcatAssociative DEF Stream
  <2> QED BY <2>3 DEF f
<1>6. /\ left \in Seq(Payloads) /\ place \in [1 .. Len(left) -> Nat \ {0}]
      /\ sent = Found \o left /\ Layout(Stream, left, place, FALSE)
  BY <1>2 DEF Frames
<1>7. \E longer \in [1 .. Len(Append(left, p)) -> Nat \ {0}] :
         Layout(Stream', Append(left, p), longer, FALSE)
  BY <1>2, <1>5, <1>6, LayoutFrame, StreamElements
<1>8. sent' = Found' \o Append(left, p)
  <2>1. Found \in Seq(Seq(Byte)) /\ left \in Seq(Seq(Byte)) /\ p \in Seq(Byte)
    BY <1>2, <1>6, HistoryTypes, PayloadTypes
  <2>2. /\ Append(left, p) = left \o <<p>> /\ <<p>> \in Seq(Seq(Byte))
        /\ Found \o left \in Seq(Seq(Byte))
    BY <2>1, AppendIsConcat, ConcatProperties
  <2>3. Append(Found \o left, p) = (Found \o left) \o <<p>>
    BY <2>1, <2>2, AppendIsConcat
  <2>4. (Found \o left) \o <<p>> = Found \o (left \o <<p>>)
    BY <2>1, <2>2, ConcatAssociative
  <2>5. Found' = Found
    BY <1>1 DEF Found
  <2> QED BY <1>1, <1>6, <2>2, <2>3, <2>4, <2>5
<1>9. Append(left, p) \in Seq(Payloads) /\ lost' = FALSE
  BY <1>1, <1>2, <1>6, AppendProperties
<1>10. AllStand'
  BY <1>7, <1>8, <1>9 DEF AllStand
<1> QED BY <1>10

LEMMA WriteNoiseStep ==
    ASSUME HarmlessNoise, StreamInv, NEW left, NEW place, Frames(left, place),
           NEW n \in Noise, WriteNoise(n)
    PROVE  AllStand'
<1>1. ~lost /\ wire' = wire \o n /\ UNCHANGED <<lost, at, buf, out, handled, sent>>
  BY DEF WriteNoise, Write
<1>2. StreamType /\ BufferInv /\ lost = FALSE
  BY <1>1 DEF StreamInv, StreamType
<1>3. n \in Seq(Byte) /\ wire \in Seq(Byte) /\ buf \in Seq(Byte)
  <2>1. n \in Seq(Byte)
    BY StreamAssumption
  <2> QED BY <1>2, <2>1 DEF StreamType
<1>5. Stream' = Stream \o n
  BY <1>1, <1>3, ConcatAssociative DEF Stream
<1>6. /\ left \in Seq(Payloads) /\ place \in [1 .. Len(left) -> Nat \ {0}]
      /\ sent = Found \o left /\ Layout(Stream, left, place, FALSE)
  BY <1>2 DEF Frames
<1>7. Layout(Stream', left, place, FALSE)
  BY <1>2, <1>5, <1>6, LayoutNoise, StreamElements
<1>8. sent' = Found' \o left /\ lost' = FALSE
  BY <1>1, <1>2, <1>6 DEF Found
<1>9. AllStand'
  BY <1>6, <1>7, <1>8 DEF AllStand
<1> QED BY <1>9

LEMMA LoseStep ==
    ASSUME StreamInv, NEW left, NEW place, Frames(left, place),
           NEW k \in 0 .. Len(wire), Lose(k)
    PROVE  AllStand'
<1>1. lost' = TRUE /\ wire' = SubSeq(wire, 1, k) /\ UNCHANGED <<at, buf, out, handled, sent>>
  BY DEF Lose
<1>2. StreamType /\ BufferInv
  BY DEF StreamInv
<1>3. wire' \in Seq(Byte) /\ Len(wire') = k /\ k \in Nat /\ \A j \in 1 .. k : wire'[j] = wire[j]
  BY <1>1, <1>2, FirstBytes DEF StreamType
<1>5. /\ Stream \in Seq(Byte) /\ Len(Stream) = Len(buf) + Len(wire)
      /\ Len(buf) \in Nat /\ Len(wire) \in Nat
      /\ \A j \in 1 .. Len(buf) : Stream[j] = buf[j]
      /\ \A j \in 1 .. Len(wire) : Stream[Len(buf) + j] = wire[j]
  BY <1>2, StreamElements
<1>6. /\ Stream' \in Seq(Byte) /\ Len(Stream') = Len(buf) + k
      /\ \A j \in 1 .. Len(buf) : Stream'[j] = buf[j]
      /\ \A j \in 1 .. k : Stream'[Len(buf) + j] = wire'[j]
  <2> DEFINE w == wire'
  <2>1. Stream' = buf \o w /\ buf \in Seq(Byte) /\ w \in Seq(Byte) /\ Len(w) = k
    BY <1>1, <1>2, <1>3 DEF Stream, StreamType
  <2> HIDE DEF w
  <2>2. /\ buf \o w \in Seq(Byte) /\ Len(buf \o w) = Len(buf) + Len(w)
        /\ \A j \in 1 .. Len(buf) : (buf \o w)[j] = buf[j]
        /\ \A j \in 1 .. Len(w) : (buf \o w)[Len(buf) + j] = w[j]
    <3>1. buf \in Seq(Byte) /\ w \in Seq(Byte)
      BY <2>1
    <3> QED BY <3>1, ConcatElements
  <2> QED BY <2>1, <2>2 DEF w
<1>7. ASSUME NEW j \in 1 .. Len(Stream') PROVE Stream'[j] = Stream[j]
  <2>1. CASE j \in 1 .. Len(buf)
    BY <2>1, <1>5, <1>6
  <2>2. CASE j \notin 1 .. Len(buf)
    <3>1. PICK i \in 1 .. k : j = Len(buf) + i
      <4>1. j \in 1 .. Len(buf) + k
        BY <1>6
      <4> QED BY <4>1, <2>2, <1>3, <1>5, BeyondFirst
    <3>2. i \in 1 .. Len(wire)
      BY <1>3, <1>5
    <3> QED BY <3>1, <3>2, <1>3, <1>5, <1>6
  <2> QED BY <2>1, <2>2
<1>8. Len(Stream') <= Len(Stream)
  BY <1>3, <1>5, <1>6
<1>9. /\ left \in Seq(Payloads) /\ place \in [1 .. Len(left) -> Nat \ {0}]
      /\ sent = Found \o left /\ Layout(Stream, left, place, lost)
  BY DEF Frames
<1>10. Layout(Stream', left, place, lost')
  <2>1. Layout(Stream', left, place, TRUE)
    BY <1>5, <1>6, <1>7, <1>8, <1>9, LayoutCut
  <2> QED BY <1>1, <2>1
<1>11. sent' = Found' \o left
  BY <1>1, <1>9 DEF Found
<1>12. AllStand'
  BY <1>9, <1>10, <1>11 DEF AllStand
<1> QED BY <1>12

LEMMA ReadStep ==
    ASSUME StreamInv, NEW left, NEW place, Frames(left, place),
           NEW k \in 1 .. Len(wire), Read(k)
    PROVE  AllStand'
<1>1. /\ at' = "feed" /\ buf' = buf \o SubSeq(wire, 1, k) /\ wire' = From(wire, k + 1)
      /\ UNCHANGED <<lost, out, handled, sent>>
  BY DEF Read
<1>2. StreamType /\ wire \in Seq(Byte) /\ buf \in Seq(Byte) /\ Len(wire) \in Nat
  BY StreamElements DEF StreamInv, StreamType
<1>3. k \in 0 .. Len(wire) /\ k \in Nat /\ k <= Len(wire)
  BY <1>2
<1> DEFINE head == SubSeq(wire, 1, k)
           tail == From(wire, k + 1)
<1>4. head \in Seq(Byte) /\ tail \in Seq(Byte)
  BY <1>2, <1>3, FirstBytes, SuffixElements
<1>5. head \o tail = wire
  <2>1. SubSeq(wire, 1, k) \o SubSeq(wire, k + 1, Len(wire)) = SubSeq(wire, 1, Len(wire))
    <3>1. 1 \in 1 .. Len(wire) + 1 /\ k \in 1 - 1 .. Len(wire) /\ Len(wire) \in k .. Len(wire)
      BY <1>2, <1>3
    <3> QED BY <1>2, <3>1, ConcatAdjacentSubSeq
  <2> QED BY <1>2, <2>1, SubSeqFull DEF From
<1>6. buf' = buf \o head /\ wire' = tail
  BY <1>1
<1> HIDE DEF head, tail
<1>9. Stream' = Stream
  <2>1. (buf \o head) \o tail = buf \o (head \o tail)
    BY <1>2, <1>4, ConcatAssociative
  <2>2. Stream' = (buf \o head) \o tail
    BY <1>6, Zenon DEF Stream
  <2> QED BY <1>5, <2>1, <2>2, Zenon DEF Stream
<1>10. /\ left \in Seq(Payloads) /\ place \in [1 .. Len(left) -> Nat \ {0}]
       /\ sent' = Found' \o left /\ Layout(Stream', left, place, lost')
  BY <1>1, <1>9 DEF Frames, Found
<1>11. AllStand'
  BY <1>10 DEF AllStand
<1> QED BY <1>11

LEMMA HandleStep ==
    ASSUME StreamInv, NEW left, NEW place, Frames(left, place), Handle
    PROVE  AllStand'
<1>1. /\ out # <<>> /\ handled' = Append(handled, Head(out)) /\ out' = Tail(out)
      /\ UNCHANGED <<wire, lost, at, buf, sent>>
  BY DEF Handle
<1>2. StreamType /\ BufferInv /\ handled \in Seq(Seq(Byte)) /\ out \in Seq(Seq(Byte))
  BY DEF StreamInv, StreamType
<1>5. Found' = Found
  <2>1. Append(handled, Head(out)) \o Tail(out) = handled \o out
    BY <1>1, <1>2, FirstMoved
  <2> QED BY <1>1, <2>1 DEF Found
<1>6. /\ left \in Seq(Payloads) /\ place \in [1 .. Len(left) -> Nat \ {0}]
      /\ sent' = Found' \o left /\ Layout(Stream', left, place, lost')
  BY <1>1, <1>5 DEF Frames, Stream
<1>7. AllStand'
  BY <1>6 DEF AllStand
<1> QED BY <1>7

LEMMA FramesStart == Init => AllStand
<1> SUFFICES ASSUME Init PROVE AllStand
  OBVIOUS
<1> DEFINE none == <<>>
           nowhere == [i \in 1 .. Len(none) |-> 1]
<1>1. none \in Seq(Payloads) /\ Len(none) = 0 /\ 1 .. Len(none) = {}
  BY LenProperties
<1>2. nowhere \in [1 .. Len(none) -> Nat \ {0}]
  OBVIOUS
<1>3. sent = Found \o none
  BY DEF Init, Found
<1>4. Stream = <<>> /\ 1 .. Len(Stream) = {}
  BY DEF Init, Stream
<1> HIDE DEF none, nowhere
<1>5. Layout(Stream, none, nowhere, lost)
  BY <1>1, <1>2, <1>4 DEF Layout, Standing, NoOtherStart
<1> QED BY <1>1, <1>2, <1>3, <1>5 DEF AllStand

LEMMA FramesStep ==
    ASSUME HarmlessNoise, StreamInv, [Next]_vars
    PROVE  AllStand'
<1>1. PICK left, place : Frames(left, place)
  BY DEF StreamInv, AllStand, Frames
<1>2. StreamType
  BY DEF StreamInv
<1>3. ASSUME NEW p \in Payloads, WriteFrame(p) PROVE AllStand'
  BY <1>1, <1>3, WriteFrameStep
<1>4. ASSUME NEW n \in Noise, WriteNoise(n) PROVE AllStand'
  BY <1>1, <1>4, WriteNoiseStep
<1>5. ASSUME NEW k \in 0 .. Len(wire), Lose(k) PROVE AllStand'
  BY <1>1, <1>5, LoseStep
<1>6. ASSUME NEW k \in 1 .. Len(wire), Read(k) PROVE AllStand'
  BY <1>1, <1>6, ReadStep
<1>7. ASSUME NoStart PROVE AllStand'
  BY <1>1, <1>2, <1>7, NoStartStep
<1>8. ASSUME NEW i \in 1 .. Len(buf), Incomplete(i) PROVE AllStand'
  BY <1>1, <1>2, <1>8, IncompleteStep
<1>9. ASSUME NEW i \in 1 .. Len(buf), Bogus(i) PROVE AllStand'
  BY <1>1, <1>2, <1>9, BogusStep
<1>10. ASSUME NEW i \in 1 .. Len(buf), Complete(i) PROVE AllStand'
  BY <1>1, <1>2, <1>10, CompleteStep
<1>11. ASSUME Handle PROVE AllStand'
  BY <1>1, <1>11, HandleStep
<1>12. ASSUME UNCHANGED <<wire, lost, buf, out, handled, sent>> PROVE AllStand'
  <2>1. Stream' = Stream /\ Found' = Found
    BY <1>12 DEF Stream, Found
  <2> QED BY <1>12, <2>1 DEF StreamInv, AllStand
<1>13. ReadOn => UNCHANGED <<wire, lost, buf, out, handled, sent>>
  BY DEF ReadOn
<1>14. UNCHANGED vars => UNCHANGED <<wire, lost, buf, out, handled, sent>>
  BY DEF vars
<1> QED BY <1>3, <1>4, <1>5, <1>6, <1>7, <1>8, <1>9, <1>10, <1>11, <1>12, <1>13, <1>14 DEF Next

(* Every frame the app wrote was found or stands where it can be found.    *)
THEOREM FramesAlwaysStand == ASSUME HarmlessNoise PROVE Spec => []StreamInv
<1>1. Init => StreamInv
  BY BufferStarts, FramesStart DEF StreamInv
<1>2. StreamInv /\ [Next]_vars => StreamInv'
  BY BufferStep, FramesStep DEF StreamInv
<1> QED BY <1>1, <1>2, PTL DEF Spec

(* The handler works on the payloads the app sent, in that order, and on   *)
(* nothing else, however the stream is cut (framing.py:24-30).             *)
THEOREM OnlySentIsHandled == ASSUME HarmlessNoise PROVE Spec => []OnlyWhatWasSent
<1>1. ASSUME StreamInv PROVE OnlyWhatWasSent
  <2>1. PICK left, place : Frames(left, place)
    BY <1>1 DEF StreamInv, AllStand, Frames
  <2> DEFINE f == Found
             all == f \o left
  <2>2. f \in Seq(Seq(Byte)) /\ left \in Seq(Seq(Byte)) /\ sent = all
    BY <1>1, <2>1, HistoryTypes DEF StreamInv, Frames
  <2>3. handled \o out = f
    BY DEF Found
  <2> HIDE DEF f
  <2>4. /\ all \in Seq(Seq(Byte)) /\ Len(all) = Len(f) + Len(left)
        /\ Len(f) \in Nat /\ Len(left) \in Nat
        /\ \A i \in 1 .. Len(f) : all[i] = f[i]
    BY <2>2, ConcatElements
  <2> HIDE DEF all
  <2>5. Len(f) \in 0 .. Len(f) /\ Len(f) \in 0 .. Len(all) /\ Len(f) <= Len(all)
    BY <2>4
  <2> DEFINE a == SubSeq(f, 1, Len(f))
             b == SubSeq(all, 1, Len(f))
  <2>6. a \in Seq(Seq(Byte)) /\ Len(a) = Len(f) /\ \A j \in 1 .. Len(f) : a[j] = f[j]
    BY <2>2, <2>5, FirstBytes
  <2>7. b \in Seq(Seq(Byte)) /\ Len(b) = Len(f) /\ \A j \in 1 .. Len(f) : b[j] = all[j]
    BY <2>4, <2>5, FirstBytes
  <2>8. a = b
    <3> HIDE DEF a, b
    <3> QED BY <2>4, <2>6, <2>7, SeqEqual
  <2>9. IsPrefix(f, sent)
    BY <2>2, <2>5, <2>8 DEF IsPrefix
  <2> QED BY <2>3, <2>9 DEF OnlyWhatWasSent
<1> QED BY <1>1, FramesAlwaysStand, PTL

(* A frame that is left when all is read would stand whole in the buffer,  *)
(* and no less than a whole frame is kept there.                           *)
LEMMA NothingLeft ==
    ASSUME StreamInv, ~lost, wire = <<>>, at # "feed",
           NEW left, NEW place, Frames(left, place)
    PROVE  left = <<>>
<1> SUFFICES ASSUME left # <<>> PROVE FALSE
  OBVIOUS
<1>1. StreamType /\ BufferInv
  BY DEF StreamInv
<1>2. /\ left \in Seq(Payloads) /\ place \in [1 .. Len(left) -> Nat \ {0}]
      /\ Layout(Stream, left, place, lost)
  BY DEF Frames
<1>3. Len(left) \in Nat /\ Len(left) >= 1 /\ 1 \in 1 .. Len(left)
  BY <1>2, EmptySeq, LenProperties
<1>4. /\ Len(Stream) = Len(buf) /\ Len(buf) \in Nat /\ buf \in Seq(Byte)
      /\ \A j \in 1 .. Len(buf) : Stream[j] = buf[j]
  <2>1. Len(wire) = 0
    OBVIOUS
  <2> QED BY <1>1, <2>1, StreamElements DEF StreamType
<1> DEFINE first == place[1]
           size == Len(left[1])
<1>5. left[1] \in Payloads /\ size \in Nat /\ first \in Nat /\ first >= 1 /\ size <= MaxPayload
  <2>1. left[1] \in Payloads
    BY <1>2, <1>3, ElementOfSeq
  <2> QED BY <1>2, <1>3, <2>1, PayloadTypes
<1>6. first + 4 + size <= Len(buf) + 1
  BY <1>2, <1>3, <1>4 DEF Layout, End, HeaderLen
<1>7. /\ first + 3 <= Len(buf) => buf[first + 2] * 256 + buf[first + 3] = size
  BY <1>1, <1>2, <1>3, HeaderInBuffer DEF Layout
<1> HIDE DEF first, size
<1>8. /\ Len(buf) >= 4 /\ buf[1] = START1 /\ buf[2] = START2
      /\ Declared(buf) <= MaxPayload /\ Len(buf) < 4 + Declared(buf)
  <2>1. Len(buf) >= 4 /\ ~(Len(buf) <= 1)
    BY <1>4, <1>5, <1>6
  <2>2. Partial(buf)
    BY <1>1, <2>1 DEF BufferInv
  <2> QED BY <2>1, <2>2 DEF Partial, HeaderLen
<1>9. CASE first = 1
  <2>1. Declared(buf) = size
    <3>1. first + 2 = 3 /\ first + 3 = 4 /\ first + 3 <= Len(buf)
      BY <1>8, <1>9
    <3> QED BY <1>7, <3>1 DEF Declared
  <2> QED BY <1>4, <1>5, <1>6, <1>8, <1>9, <2>1
<1>10. CASE first # 1
  <2>1. Outside(left, place, 1)
    <3> SUFFICES ASSUME NEW i \in 1 .. Len(left) PROVE 1 < place[i]
      BY DEF Outside
    <3>1. place[i] \in Nat /\ place[1] \in Nat
      BY <1>2, <1>3
    <3>2. first > 1
      BY <1>5, <1>10
    <3>3. CASE i = 1
      BY <3>2, <3>3 DEF first
    <3>4. CASE i # 1
      <4>1. 1 < i /\ End(left, place, 1) <= place[i]
        BY <1>2, <1>3, <3>4 DEF Layout, Standing
      <4>2. End(left, place, 1) \in Nat /\ place[1] < End(left, place, 1)
        BY <1>2, <1>3, EndType
      <4> QED BY <3>1, <3>2, <4>1, <4>2 DEF first
    <3> QED BY <3>3, <3>4
  <2>2. /\ 1 \in 1 .. Len(buf) /\ 2 \in 1 .. Len(buf) /\ 3 \in 1 .. Len(buf) /\ 4 \in 1 .. Len(buf)
        /\ 1 + 2 <= Len(buf)
    BY <1>4, <1>8
  <2>3. Stream[1] = START1 /\ Stream[1 + 1] = START2 /\ Stream[1 + 2] = buf[3]
    BY <1>4, <1>8, <2>2
  <2>4. Stream[1 + 2] * 256 > MaxPayload
    BY <1>2, <1>4, <2>1, <2>2, <2>3 DEF Layout, NoOtherStart
  <2>5. buf[3] \in Byte /\ buf[4] \in Byte
    BY <1>4, <2>2, ElementOfSeq
  <2>6. \A hi, lo \in Byte : hi * 256 <= hi * 256 + lo /\ hi * 256 \in Nat /\ hi * 256 + lo \in Nat
    BY DEF Byte
  <2>7. Declared(buf) >= buf[3] * 256 /\ Declared(buf) \in Nat /\ buf[3] * 256 \in Nat
    BY <2>5, <2>6 DEF Declared
  <2>8. buf[3] * 256 > MaxPayload
    BY <2>3, <2>4
  <2> QED BY <1>8, <2>7, <2>8, LimitType
<1> QED BY <1>9, <1>10

(* When everything has been read, every frame has been found.              *)
THEOREM EveryFrameIsFound == ASSUME HarmlessNoise PROVE Spec => []EveryFrameFound
<1>1. ASSUME StreamInv PROVE EveryFrameFound
  <2> SUFFICES ASSUME ~lost, wire = <<>>, at # "feed" PROVE handled \o out = sent
    BY DEF EveryFrameFound
  <2>1. PICK left, place : Frames(left, place)
    BY <1>1 DEF StreamInv, AllStand, Frames
  <2>2. left = <<>>
    BY <1>1, <2>1, NothingLeft
  <2>3. sent = Found \o <<>> /\ Found \in Seq(Seq(Byte))
    BY <1>1, <2>1, <2>2, HistoryTypes DEF StreamInv, Frames
  <2>4. Found \o <<>> = Found
    BY <2>3, ConcatEmptySeq
  <2> QED BY <2>3, <2>4 DEF Found
<1> QED BY <1>1, FramesAlwaysStand, PTL
=============================================================================

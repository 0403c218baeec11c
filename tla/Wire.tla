-------------------------------- MODULE Wire --------------------------------
(***************************************************************************)
(* Messages on the socket of one connection: iRODSMessage.pack on the      *)
(* sending side, iRODSMessage.recv and recv_into on the receiving side     *)
(* (message/__init__.py).  The stream is a sequence of bytes without       *)
(* boundaries; a receive may return fewer bytes than asked for, the peer   *)
(* may close the connection at any byte, and a timeout may pass.           *)
(*                                                                         *)
(* A byte is the pair of the frame and the part it belongs to.             *)
(***************************************************************************)
EXTENDS Naturals, Sequences, SequencesExt

CONSTANTS Frames,   \* the messages that are sent, in order
          IntoModes \* subset of BOOLEAN: TRUE for recv_into

(***************************************************************************)
(* A part is text, of single-byte and of two-byte characters; the binary   *)
(* stream has no characters of two bytes.                                  *)
(***************************************************************************)
TextType == [narrow : Nat, wide : Nat]
FrameType == [msg : TextType, error : TextType, bs : TextType]
ASSUME FramesAssumption == Frames \in Seq(FrameType) /\ IntoModes \subseteq BOOLEAN

VARIABLES
  arrived,  \* bytes that have reached the client
  closed,   \* the peer has closed: nothing more will arrive
  taken,    \* bytes the client has read
  part,     \* the part recv() is reading; "none" between two calls
  into,     \* this call is recv_into
  left,     \* size_left
  chunk,    \* the bytes of this part read so far
  lens,     \* the lengths in the header of this frame
  got,      \* the parts of this frame already complete
  messages, \* what the calls returned
  broken    \* a call raised: NetworkException, the connection is given up

callVars == <<part, into, left, chunk, lens, got>>
wireVars == <<arrived, closed, taken, callVars, messages, broken>>

-----------------------------------------------------------------------------
(* Sending: the lengths in the header are lengths in bytes. *)

PrefixLen == 4
HeaderLen == 2   \* stands for the length of any header
Parts == <<"prefix", "header", "msg", "error", "bs">>

Encoded(t) == t.narrow + 2 * t.wide
(* A mutation of PartLen. *)
PartLen_InCharacters(t) == t.narrow + t.wide

PartLen(t) == Encoded(t)

Bytes(f, p, n) == [i \in 1..n |-> <<f, p>>]
Pack(f) ==
  Bytes(f, "prefix", PrefixLen) \o Bytes(f, "header", HeaderLen)
    \o Bytes(f, "msg", Encoded(Frames[f].msg)) \o Bytes(f, "error", Encoded(Frames[f].error))
    \o Bytes(f, "bs", Encoded(Frames[f].bs))
Header(f) ==
  [msg |-> PartLen(Frames[f].msg), error |-> PartLen(Frames[f].error), bs |-> PartLen(Frames[f].bs)]

Stream == FlattenSeq([f \in 1..Len(Frames) |-> Pack(f)])

-----------------------------------------------------------------------------
NoLens == [msg |-> 0, error |-> 0, bs |-> 0]
NothingGot == [msg |-> <<>>, error |-> <<>>, bs |-> <<>>]

WireInit ==
  /\ arrived = 0 /\ closed = FALSE /\ taken = 0
  /\ part = "none" /\ into = FALSE /\ left = 0 /\ chunk = <<>> /\ lens = NoLens
  /\ got = NothingGot /\ messages = <<>> /\ broken = FALSE

(* The network. *)
Arrive ==
  /\ ~closed /\ arrived < Len(Stream)
  /\ arrived' = arrived + 1
  /\ UNCHANGED <<closed, taken, callVars, messages, broken>>

PeerCloses ==
  /\ ~closed
  /\ closed' = TRUE
  /\ UNCHANGED <<arrived, taken, callVars, messages, broken>>

-----------------------------------------------------------------------------
(* Receiving *)

StartRecv ==
  /\ part = "none" /\ ~broken /\ Len(messages) < Len(Frames)
  /\ part' = "prefix" /\ left' = PrefixLen /\ chunk' = <<>>
  /\ into' \in IntoModes
  /\ got' = NothingGot /\ lens' = NoLens
  /\ UNCHANGED <<arrived, closed, taken, messages, broken>>

(***************************************************************************)
(* One sock.recv(size_left) of _recv_message_in_len, or one recv_into of   *)
(* _recv_message_into: any number of the bytes that are there.             *)
(***************************************************************************)
ReadSome ==
  /\ part # "none" /\ left > 0 /\ taken < arrived
  /\ \E n \in 1..(arrived - taken) :
       /\ n <= left
       /\ chunk' = chunk \o SubSeq(Stream, taken + 1, taken + n)
       /\ taken' = taken + n /\ left' = left - n
  /\ UNCHANGED <<arrived, closed, part, into, lens, got, messages, broken>>

AtEof == closed /\ taken = arrived /\ left > 0

(* A mutation of EofRaises. *)
EofRaises_Loops ==
  /\ part = "prefix" /\ AtEof
  /\ broken' = TRUE /\ part' = "none"
  /\ UNCHANGED <<arrived, closed, taken, into, left, chunk, lens, got, messages>>

(* An empty read ends the loop of _recv_message_in_len and raises, but     *)
(* _recv_message_into goes round again: there is no step for it.            *)
EofRaises ==
  /\ part # "none" /\ AtEof /\ ~(into /\ part = "bs")
  /\ broken' = TRUE /\ part' = "none"
  /\ UNCHANGED <<arrived, closed, taken, into, left, chunk, lens, got, messages>>

TimedOut ==
  /\ part # "none" /\ left > 0 /\ taken = arrived /\ ~closed
  /\ broken' = TRUE /\ part' = "none"
  /\ UNCHANGED <<arrived, closed, taken, into, left, chunk, lens, got, messages>>

(***************************************************************************)
(* A part is complete: the prefix says how long the header is, the header  *)
(* how long the parts are; a part of length 0 is not read.  After the last *)
(* one the message is returned.                                            *)
(***************************************************************************)
FrameNo == Len(messages) + 1
NextPart(p) == Parts[CHOOSE i \in 1..5 : i > 1 /\ Parts[i - 1] = p]

PartDone ==
  /\ part # "none" /\ left = 0
  /\ chunk' = <<>>
  /\ got' = IF part \in {"prefix", "header"} THEN got ELSE [got EXCEPT ![part] = chunk]
  /\ lens' = IF part = "header" THEN Header(chunk[1][1]) ELSE lens
  /\ IF part = "bs"
     THEN messages' = Append(messages, got') /\ part' = "none" /\ UNCHANGED left
     ELSE /\ part' = NextPart(part)
          /\ left' = IF part = "prefix" THEN HeaderLen ELSE lens'[NextPart(part)]
          /\ UNCHANGED messages
  /\ UNCHANGED <<arrived, closed, taken, into, broken>>

WireStep == StartRecv \/ ReadSome \/ EofRaises \/ TimedOut \/ PartDone
WireNext == Arrive \/ PeerCloses \/ WireStep

(* The client goes on when it can; a peer that sends nothing more and does *)
(* not close is met by the timeout of the socket.                          *)
WireFairness == WF_wireVars(StartRecv \/ ReadSome \/ PartDone) /\ WF_wireVars(EofRaises)
                /\ WF_wireVars(TimedOut)
WireSpec == WireInit /\ [][WireNext]_wireVars /\ WireFairness

-----------------------------------------------------------------------------
(***************************************************************************)
(* The n-th message returned consists of the parts of the n-th frame, each *)
(* whole and each from its own place in the stream, however the stream was *)
(* cut into reads; and after it the client stands at the next frame        *)
(* (recv, recv_into, pack).                                                *)
(***************************************************************************)
FramesMatch ==
  /\ \A n \in 1..Len(messages) : \A p \in {"msg", "error", "bs"} :
       messages[n][p] = Bytes(n, p, Encoded(Frames[n][p]))
  /\ part = "none" /\ ~broken =>
       taken = Len(FlattenSeq([f \in 1..Len(messages) |-> Pack(f)]))

(***************************************************************************)
(* A receive that has begun ends, with a message or an exception, when     *)
(* bytes stop coming; only recv_into may be left spinning, in its binary   *)
(* part after the peer has closed ("This prevents an infinite loop",       *)
(* _recv_message_in_len).                                                  *)
(***************************************************************************)
RecvEnds == part # "none" ~> (part = "none" \/ (into /\ part = "bs" /\ AtEof))
=============================================================================

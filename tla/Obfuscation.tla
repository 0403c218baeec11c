---------------------------- MODULE Obfuscation ----------------------------
(***************************************************************************)
(* The two reversible encodings of password_obfuscation.py: the text of    *)
(* .irodsA (encode, decode), and the form in which a password travels to   *)
(* the server (scramble, unscramble, obfuscate_new_password).              *)
(*                                                                         *)
(* A character is its code.  The bits a key contributes and the bytes of   *)
(* the md5 ring are parameters; the arithmetic on them is the source's.    *)
(***************************************************************************)
EXTENDS Integers, Sequences

CONSTANTS Texts,  \* passwords to encode
          Salts,  \* values of uid & 0xF5F
          Ring    \* get_encoder_ring: at least 61 bytes

ASSUME ObfuscationAssumption ==
  /\ Texts \subseteq Seq(0..255) /\ Salts \subseteq Nat
  /\ Ring \in Seq(0..255) /\ Len(Ring) >= 61

(* The wheel: digits, upper case, lower case, then "!" to "/". *)
WheelSize == 77
Wheel(k) == IF k < 10 THEN 48 + k ELSE IF k < 36 THEN 55 + k ELSE IF k < 62 THEN 61 + k ELSE k - 29
Index == [c \in {Wheel(k) : k \in 0..(WheelSize - 1)} |->
            CHOOSE k \in 0..(WheelSize - 1) : Wheel(k) = c]
InWheel(c) == c \in DOMAIN Index

(* A character moved n places round the wheel; others stay as they are. *)
Turn(c, n) == IF InWheel(c) THEN Wheel((Index[c] + n) % WheelSize) ELSE c

NUL == 0
UpToNul(s) == IF \E i \in 1..Len(s) : s[i] = NUL
  THEN SubSeq(s, 1, (CHOOSE i \in 1..Len(s) : s[i] = NUL /\ \A j \in 1..(i - 1) : s[j] # NUL) - 1)
  ELSE s

-----------------------------------------------------------------------------
(***************************************************************************)
(* encode and decode.  seq_list[0] >> bitshift & 0x1F for the ten values   *)
(* of bitshift, 0, 3 .. 27, which are taken in turn.                       *)
(***************************************************************************)
Adds == <<24, 15, 25, 27, 11, 17, 26, 27, 23, 26>>
Offset(i, salt) == Adds[(i % 10) + 1] + salt

(* chr(seq_index + ord("e")), and the five characters from "S" and mtime. *)
KeyMark == 101
Stamp == <<83, 97, 98, 99, 100>>

Encode(s, salt) ==
  LET t == UpToNul(Stamp \o s)
      e == [i \in 1..Len(t) |-> Turn(t[i], Offset(i - 1, salt))]
  IN <<46>> \o SubSeq(e, 1, 5) \o <<KeyMark>> \o SubSeq(e, 6, Len(e)) \o <<NUL>>

(* A mutation of DecodeStart. *)
DecodeStart_AtZero == 0

(* decode starts where the stamp would have left bitshift: at 15. *)
DecodeStart == 5

Decode(e, salt) ==
  LET t == UpToNul(SubSeq(e, 8, Len(e)))
  IN [i \in 1..Len(t) |-> Turn(t[i], -Offset(DecodeStart + i - 1, salt))]

-----------------------------------------------------------------------------
(***************************************************************************)
(* scramble and unscramble.  With block chaining each character in the     *)
(* wheel also turns by the code of the scrambled one before it; others do  *)
(* not change the chain, but take their place in the ring.                 *)
(***************************************************************************)
RingAt(i) == Ring[((i - 1) % 61) + 1]

Scramble(s, chaining) ==
  LET chain[i \in 0..Len(s)] ==
        IF i = 0 \/ ~chaining THEN 0
        ELSE IF InWheel(s[i]) THEN Turn(s[i], RingAt(i) + chain[i - 1]) ELSE chain[i - 1]
  IN [i \in 1..Len(s) |-> Turn(s[i], RingAt(i) + chain[i - 1])]

Unscramble(s, chaining) ==
  LET chain[i \in 0..Len(s)] ==
        IF i = 0 \/ ~chaining THEN 0 ELSE IF InWheel(s[i]) THEN s[i] ELSE chain[i - 1]
  IN [i \in 1..Len(s) |-> Turn(s[i], -RingAt(i) - chain[i - 1])]

(* unscramble returns a text without the prefix ".E_" as it is. *)
Prefix == <<46, 69, 95>>
UnscrambleStored(s) ==
  IF Len(s) >= 3 /\ SubSeq(s, 1, 3) = Prefix
  THEN Unscramble(SubSeq(s, 4, Len(s)), FALSE) ELSE s

(***************************************************************************)
(* obfuscate_new_password: a short password is padded to 40 characters, a  *)
(* long one cut at MAX_PASSWORD_LENGTH; a random character and the mark of *)
(* version 2 go before it.                                                 *)
(***************************************************************************)
MaxPasswordLength == 50
V2Mark == <<46, 79, 98, 102, 86, 50>>
Cut(s, n) == SubSeq(s, 1, IF Len(s) < n THEN Len(s) ELSE n)
Padded(s) ==
  LET lcopy == MaxPasswordLength - 10 - Len(s) IN
  Cut(s, MaxPasswordLength) \o (IF lcopy > 15 THEN [i \in 1..lcopy |-> 49] ELSE <<>>)
ObfuscateNew(s) == Scramble(<<90>> \o V2Mark \o Cut(Padded(s), 150), TRUE)

-----------------------------------------------------------------------------
VARIABLES
  plain,   \* the password
  salt,    \* of the user who writes and reads
  form,    \* "plain", or the function that was applied
  text     \* what it returned

obfVars == <<plain, salt, form, text>>

ObfInit == plain \in Texts /\ salt \in Salts /\ form = "plain" /\ text = plain

Became(before, after, new) == form = before /\ form' = after /\ text' = new /\ UNCHANGED <<plain, salt>>

EncodeFile == Became("plain", "encoded", Encode(plain, salt))
DecodeFile == Became("encoded", "decoded", Decode(text, salt))
ScrambleStored == Became("plain", "stored", Prefix \o Scramble(plain, FALSE))
ReadStored == Became("stored", "read", UnscrambleStored(text))
SendNew == Became("plain", "sent", ObfuscateNew(plain))
ServerReads == Became("sent", "received", Unscramble(text, TRUE))

ObfNext == EncodeFile \/ DecodeFile \/ ScrambleStored \/ ReadStored \/ SendNew \/ ServerReads
ObfSpec == ObfInit /\ [][ObfNext]_obfVars

(***************************************************************************)
(* What was encoded can be read back by the same user, whatever the        *)
(* characters and however often ring and key wrap round: from .irodsA up   *)
(* to a NUL, from the scrambled form in full, and from the obfuscated new  *)
(* password as its first characters after the mark.                        *)
(***************************************************************************)
ReadBack ==
  /\ form = "decoded" => text = UpToNul(plain)
  /\ form = "read" => text = plain
  /\ form = "received" =>
       LET p == Cut(plain, MaxPasswordLength) IN SubSeq(text, 8, Len(p) + 7) = p
=============================================================================

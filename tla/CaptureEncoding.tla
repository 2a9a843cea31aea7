-------------------------- MODULE CaptureEncoding --------------------------
(* What a report holds of one stream: the bytes that were kept, as text     *)
(* where they are UTF-8 and in base64 where they are not, so that they can  *)
(* stand in a JSON document and be had back.  The limit cuts where it falls,*)
(* also in the middle of a character.                                       *)
(*                                                                          *)
(* A text is the sequence of its bytes, a base64 character the number it    *)
(* stands for, Pad the one that fills up.                                   *)
EXTENDS Integers, Sequences

CONSTANTS
    Bytes,      \* the bytes the command writes
    MaxWritten, \* bound: how many
    StreamLimit

EncodingAssumption ==
    Bytes \subseteq 0 .. 255 /\ MaxWritten \in Nat /\ StreamLimit \in Nat

VARIABLES
    written, \* by the command
    raw,     \* RawCapture: [bytes, truncated]
    stream   \* CapturedStream, or Nothing before the end

vars == <<written, raw, stream>>

Pad == 64

Nothing == [encoding |-> "none", data |-> <<>>, truncated |-> FALSE, captured_bytes |-> 0]

Init ==
    /\ written = <<>> /\ raw = [bytes |-> <<>>, truncated |-> FALSE]
    /\ stream = Nothing

\* read_bounded, one byte at a time.
Write ==
    /\ stream = Nothing /\ Len(written) < MaxWritten
    /\ \E byte \in Bytes :
          /\ written' = Append(written, byte)
          /\ raw' = IF Len(raw.bytes) < StreamLimit
                    THEN [raw EXCEPT !.bytes = Append(@, byte)]
                    ELSE [raw EXCEPT !.truncated = TRUE]
    /\ UNCHANGED stream

-----------------------------------------------------------------------------
(* UTF-8.                                                                   *)

IsContinuation(byte) == byte \in 128 .. 191

\* How many bytes follow the first one of a character.
Following(byte) ==
    CASE byte \in 0 .. 127 -> 0
      [] byte \in 194 .. 223 -> 1
      [] byte \in 224 .. 239 -> 2
      [] byte \in 240 .. 244 -> 3
      [] OTHER -> -1

\* No longer form than needed, no surrogates, nothing beyond the last one.
SecondAllowed(first, second) ==
    /\ first = 224 => second >= 160
    /\ first = 237 => second <= 159
    /\ first = 240 => second >= 144
    /\ first = 244 => second <= 143

\* String::from_utf8: every byte is the first of a character that is complete,
\* or belongs to one.
IsText(bytes) ==
    \A i \in DOMAIN bytes :
        IF IsContinuation(bytes[i])
        THEN \E k \in 1 .. 3 : i > k /\ Following(bytes[i - k]) >= k
                               /\ \A j \in i - k + 1 .. i : IsContinuation(bytes[j])
        ELSE /\ Following(bytes[i]) >= 0
             /\ i + Following(bytes[i]) <= Len(bytes)
             /\ \A j \in i + 1 .. i + Following(bytes[i]) : IsContinuation(bytes[j])
             /\ Following(bytes[i]) > 0 => SecondAllowed(bytes[i], bytes[i + 1])

-----------------------------------------------------------------------------
(* Base64.                                                                  *)

\* The byte at a place, and zero behind the last.
At(bytes, i) == IF i \in DOMAIN bytes THEN bytes[i] ELSE 0

\* A deviation that the checked properties must notice stands just before the
\* definition it replaces, and is used nowhere else.
SextetsWithoutCarry(first, second, third) ==
    <<first \div 4, (first % 4) * 16 + second \div 16, (second % 16) + third \div 64, third % 64>>

Sextets(first, second, third) ==
    <<first \div 4,
      (first % 4) * 16 + second \div 16,
      (second % 16) * 4 + third \div 64,
      third % 64>>

\* encode_base64: three bytes are four characters; where a byte is missing in
\* the last three, so is a character.
Encode(input) ==
    [n \in 1 .. 4 * ((Len(input) + 2) \div 3) |->
        LET first == 3 * ((n - 1) \div 4) + 1
            k == ((n - 1) % 4) + 1
        IN IF first + k - 2 <= Len(input)
           THEN Sextets(input[first], At(input, first + 1), At(input, first + 2))[k]
           ELSE Pad]

\* CapturedStream::from_raw.
FromRaw ==
    [encoding |-> IF IsText(raw.bytes) THEN "text" ELSE "base64",
     data |-> IF IsText(raw.bytes) THEN raw.bytes ELSE Encode(raw.bytes),
     truncated |-> raw.truncated, captured_bytes |-> Len(raw.bytes)]

Report == stream = Nothing /\ stream' = FromRaw /\ UNCHANGED <<written, raw>>

Next == Write \/ Report

Spec == Init /\ [][Next]_vars

-----------------------------------------------------------------------------
(* What a reader of the report does, after RFC 4648: the characters in front *)
(* of the padding are the bits of the bytes, six at a time from the front;   *)
(* bits that do not fill a byte are dropped.                                 *)

\* The characters before the padding, which is at most two at the end.
Unpadded(data) ==
    LET n == Len(data)
        padding == IF n = 0 \/ data[n] # Pad THEN 0 ELSE IF data[n - 1] # Pad THEN 1 ELSE 2
    IN SubSeq(data, 1, n - padding)

\* The eight bits of a byte are in two neighbours of six bits each: so many are
\* in front of them, and the rest of the twelve behind.
ByteOf(sextets, k) ==
    LET front == (8 * (k - 1)) % 6
        at == (8 * (k - 1)) \div 6 + 1
        behind == CASE front = 0 -> 16 [] front = 2 -> 4 [] OTHER -> 1
    IN ((64 * sextets[at] + sextets[at + 1]) \div behind) % 256

Decode(data) ==
    LET sextets == Unpadded(data)
    IN [k \in 1 .. (6 * Len(sextets)) \div 8 |-> ByteOf(sextets, k)]

TypeOK ==
    /\ written \in Seq(Bytes) /\ raw.bytes \in Seq(Bytes) /\ raw.truncated \in BOOLEAN
    /\ stream.encoding \in {"none", "text", "base64"} /\ stream.truncated \in BOOLEAN
    /\ stream.captured_bytes = Len(raw.bytes) \/ stream = Nothing
    /\ \A i \in DOMAIN stream.data : stream.data[i] \in 0 .. 255
    /\ stream.encoding = "base64" => Len(stream.data) % 4 = 0

\* A reader has back what the command wrote, byte for byte, up to the number the
\* report gives, and is told whether there was more: whatever the bytes are and
\* wherever the limit cuts them.
ReadBack ==
    stream # Nothing =>
        /\ (IF stream.encoding = "text" THEN stream.data ELSE Decode(stream.data))
              = SubSeq(written, 1, stream.captured_bytes)
        /\ stream.truncated = (stream.captured_bytes < Len(written))

\* The report holds what the command wrote, whatever its bytes are.
BytesReadBack == TypeOK /\ ReadBack
=============================================================================

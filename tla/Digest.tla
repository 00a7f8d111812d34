------------------------------- MODULE Digest -------------------------------
(***************************************************************************)
(* sha256.c: bytes are gathered in a block, a full block is mixed into the *)
(* state, and at the end the message is padded with a marker, zeros and    *)
(* its length in bits.  The compression of a block is what every caller    *)
(* takes it for: the state remembers the blocks it was given, in order.    *)
(*                                                                         *)
(* sha256_update takes its bytes one by one, so a call is a step for each. *)
(***************************************************************************)
EXTENDS Integers, Sequences

CONSTANTS BlockSize,       \* bytes of a block, 64 in the code
          LengthBytes,     \* bytes of the length at the end, 8
          ByteBits,        \* bits of a byte, 8
          None,
          Bytes,           \* BOUND: the bytes a caller has
          MaxMessage,      \* BOUND: bytes given to a context
          MaxFinals        \* BOUND: digests taken from a context

ASSUME SizesAssumption ==
  /\ BlockSize \in Nat /\ LengthBytes \in Nat /\ ByteBits \in Nat \ {0}
  /\ 0 < LengthBytes /\ LengthBytes < BlockSize
ASSUME BoundsAssumption == MaxMessage \in Nat /\ MaxFinals \in Nat
ASSUME BytesAssumption == None \notin Bytes

VARIABLES created,         \* whether there is a context
          ctx,             \* the context
          chunk,           \* the bytes the running sha256_update has before it
          digest,          \* the last digest taken from this context, with the
                           \* message until then: [blocks, of], or None
          message,         \* history: the bytes given to this context
          finals           \* history: how often it was asked for a digest

digestVars == <<created, ctx, chunk, digest, message, finals>>

Places == 0..(BlockSize - 1)
Marker == 2 ^ (ByteBits - 1)
LengthPlace == BlockSize - LengthBytes

(* The byte of a length that counts its 2^(ByteBits * k). *)
LengthByte(bits, k) == (bits \div 2 ^ (ByteBits * k)) % 2 ^ ByteBits

(* A new context: what is in data was not written by anyone. *)
sha256_create ==
  [data |-> [j \in Places |-> None], datalen |-> 0, bitlen |-> 0, state |-> <<>>]

(* Mutant of Absorb: a full block is mixed in when the next byte comes. *)
AbsorbLate(c, byte) ==
  IF c.datalen = BlockSize
  THEN [data |-> [c.data EXCEPT ![0] = byte], datalen |-> 1,
        bitlen |-> c.bitlen + ByteBits * BlockSize, state |-> Append(c.state, c.data)]
  ELSE [c EXCEPT !.data[c.datalen] = byte, !.datalen = @ + 1]

(* The loop of sha256_update. *)
Absorb(c, byte) ==
  LET bytes == [c.data EXCEPT ![c.datalen] = byte]
  IN IF c.datalen + 1 = BlockSize
     THEN [data |-> bytes, datalen |-> 0,
           bitlen |-> c.bitlen + ByteBits * BlockSize, state |-> Append(c.state, bytes)]
     ELSE [c EXCEPT !.data = bytes, !.datalen = @ + 1]

(* Mutant of sha256_final: the marker may take the first place of the length. *)
FinalOffByOne(c) ==
  LET bits == c.bitlen + c.datalen * ByteBits
      fits == c.datalen <= LengthPlace
      marked == [j \in Places |-> CASE j < c.datalen -> c.data[j]
                                    [] j = c.datalen -> Marker
                                    [] OTHER -> 0]
      last == [j \in Places |-> IF j >= LengthPlace
                                THEN LengthByte(bits, BlockSize - 1 - j)
                                ELSE IF fits THEN marked[j] ELSE 0]
  IN [c EXCEPT !.data = last, !.bitlen = bits,
               !.state = IF fits THEN Append(@, last) ELSE Append(Append(@, marked), last)]

(* The marker and zeros go up to the length if there is room for it, and    *)
(* else to the end of the block, with the length in one of its own.         *)
sha256_final(c) ==
  LET bits == c.bitlen + c.datalen * ByteBits
      fits == c.datalen < LengthPlace
      marked == [j \in Places |-> CASE j < c.datalen -> c.data[j]
                                    [] j = c.datalen -> Marker
                                    [] OTHER -> 0]
      last == [j \in Places |-> IF j >= LengthPlace
                                THEN LengthByte(bits, BlockSize - 1 - j)
                                ELSE IF fits THEN marked[j] ELSE 0]
  IN [c EXCEPT !.data = last, !.bitlen = bits,
               !.state = IF fits THEN Append(@, last) ELSE Append(Append(@, marked), last)]

-----------------------------------------------------------------------------
DigestInit ==
  /\ created = FALSE /\ ctx = sha256_create
  /\ chunk = <<>>
  /\ digest = None
  /\ message = <<>>
  /\ finals = 0

Create ==
  /\ ~ created
  /\ created' = TRUE
  /\ ctx' = sha256_create
  /\ UNCHANGED <<chunk, digest, message, finals>>

StartUpdate ==
  /\ created /\ chunk = <<>>
  /\ \E n \in 1..(MaxMessage - Len(message)) : chunk' \in [1..n -> Bytes]
  /\ UNCHANGED <<created, ctx, digest, message, finals>>

UpdateByte ==
  /\ created /\ chunk # <<>>
  /\ ctx' = Absorb(ctx, Head(chunk))
  /\ message' = Append(message, Head(chunk))
  /\ chunk' = Tail(chunk)
  /\ UNCHANGED <<created, digest, finals>>

(* Mutant of Final: a copy of the context is padded. *)
FinalOfCopy ==
  /\ created /\ chunk = <<>> /\ finals < MaxFinals
  /\ digest' = [blocks |-> sha256_final(ctx).state, of |-> message]
  /\ finals' = finals + 1
  /\ UNCHANGED <<created, ctx, chunk, message>>

Final ==
  /\ created /\ chunk = <<>> /\ finals < MaxFinals
  /\ ctx' = sha256_final(ctx)
  /\ digest' = [blocks |-> sha256_final(ctx).state, of |-> message]
  /\ finals' = finals + 1
  /\ UNCHANGED <<created, chunk, message>>

Destroy ==
  /\ created /\ chunk = <<>>
  /\ created' = FALSE
  /\ digest' = None
  /\ message' = <<>>
  /\ finals' = 0
  /\ UNCHANGED <<ctx, chunk>>

DigestNext == Create \/ StartUpdate \/ UpdateByte \/ Final \/ Destroy

DigestSpec == DigestInit /\ [][DigestNext]_digestVars

-----------------------------------------------------------------------------
(* The byte at a place of a padded message of n blocks, from 0. *)
PaddedByte(m, n, place) ==
  CASE place < Len(m) -> m[place + 1]
    [] place = Len(m) -> Marker
    [] place > Len(m) /\ place >= n * BlockSize - LengthBytes ->
         LengthByte(ByteBits * Len(m), n * BlockSize - 1 - place)
    [] OTHER -> 0

(* The standard's padding: the message, the marker and the length, with as  *)
(* few zeros between them as fill whole blocks.                             *)
IsDigestOf(d, m) ==
  /\ Len(d) * BlockSize >= Len(m) + 1 + LengthBytes
  /\ (Len(d) - 1) * BlockSize < Len(m) + 1 + LengthBytes
  /\ \A b \in 1..Len(d), j \in Places :
       d[b][j] = PaddedByte(m, Len(d), (b - 1) * BlockSize + j)

(* The buffer always has room for a byte: a byte more is never written past *)
(* its end, however the message is cut into calls and whatever is done with *)
(* the context after a digest was taken.                                    *)
TypeOK ==
  /\ ctx.datalen \in 0..(BlockSize - 1)
  /\ ctx.bitlen \in Nat
  /\ DOMAIN ctx.data = Places
  /\ \A k \in DOMAIN ctx.state : DOMAIN ctx.state[k] = Places
  /\ finals \in Nat
  /\ ~ created => chunk = <<>> /\ digest = None

(* The first digest taken from a context is the one of the bytes it was     *)
(* given: whatever their number and however they were cut into calls.       *)
DigestIsOfTheMessage ==
  digest # None /\ finals = 1 => IsDigestOf(digest.blocks, digest.of)

(* A second digest taken from a context is never that of the bytes it was   *)
(* given: sha256_final does not leave it as it was, and tells no one.       *)
SecondDigestIsWrong ==
  digest # None /\ finals > 1 => ~ IsDigestOf(digest.blocks, digest.of)
=============================================================================

----------------------------- MODULE Compression ----------------------------
(***************************************************************************)
(* Compress and Decompress of util.cc, and what lzfse answers them.        *)
(* Neither side stores how large a buffer the other needs: Compress tries  *)
(* multiples of the text until lzfse returns a size, Decompress tries      *)
(* multiples of the compressed form until it does not fill the buffer.     *)
(* Only sizes are kept.                                                    *)
(***************************************************************************)
EXTENDS Integers

CONSTANTS
    LzvnMin,     \* LZVN_ENCODE_MIN_SRC_SIZE, 8
    LzvnLimit,   \* LZFSE_ENCODE_LZVN_THRESHOLD, 4096
    Sizes,       \* sizes of texts; Str has no empty one
    Payloads     \* sizes of a compressed payload

\* What the code's constants and the texts of Str satisfy.
CompressionAssumption ==
    /\ LzvnMin \in Nat /\ LzvnLimit \in Nat
    /\ Sizes \subseteq Nat \ {0} /\ Payloads \subseteq Nat \ {0}

VARIABLES
    size,     \* data.size() of the text
    payload,  \* what lzvn or lzfse would make of the text
    stage,    \* "compress", "decompress" or "loaded"
    times,    \* times, the factor to try next
    stored,   \* size of the compressed form
    len       \* size of the text Decompress returned

vars == <<size, payload, stage, times, stored, len>>

BlockExtra == 12   \* header and end marker of an uncompressed block
LzvnExtra == 16    \* header and end marker of an lzvn block

Init ==
    /\ size \in Sizes
    /\ payload \in Payloads
    /\ stage = "compress"
    /\ times = 1
    /\ stored = 0
    /\ len = 0

\* lzfse_encode_buffer: the size written, 0 if nothing fits.
EncodeBuffer(capacity) ==
    LET uncompressed == IF size + BlockExtra <= capacity THEN size + BlockExtra ELSE 0
    IN CASE /\ LzvnMin <= size /\ size < LzvnLimit
            /\ payload + LzvnExtra <= capacity /\ payload < size -> payload + LzvnExtra
         [] size >= LzvnMin /\ size >= LzvnLimit /\ payload <= capacity -> payload
         [] OTHER -> uncompressed

\* lzfse_decode_buffer: the size written, all of the buffer if it was full.
DecodeBuffer(capacity) == IF size < capacity THEN size ELSE capacity

\* A turn of the loop of Compress.
Compress ==
    /\ stage = "compress"
    /\ stored' = EncodeBuffer(size * times)
    /\ IF stored' = 0
       THEN times' = times + 1 /\ UNCHANGED stage
       ELSE times' = 5 /\ stage' = "decompress"
    /\ UNCHANGED <<size, payload, len>>

\* Mutation: the first buffer is taken to be large enough.
DecompressOnce ==
    /\ stage = "decompress"
    /\ len' = DecodeBuffer(stored * times)
    /\ times' = times + 1
    /\ stage' = "loaded"
    /\ UNCHANGED <<size, payload, stored>>

\* A turn of the loop of Decompress.
Decompress ==
    /\ stage = "decompress"
    /\ len' = DecodeBuffer(stored * times)
    /\ times' = times + 1
    /\ stage' = IF len' = stored * times THEN stage ELSE "loaded"
    /\ UNCHANGED <<size, payload, stored>>

Next == Compress \/ Decompress

Spec == Init /\ [][Next]_vars

(***************************************************************************)
(* Properties.                                                             *)
(***************************************************************************)
\* What Decompress returns has the size of the text that was compressed, and
\* neither loop goes on for ever: Compress ends at the latest when an
\* uncompressed block fits, Decompress when the text does.
RoundTrip ==
    /\ stage = "loaded" => len = size
    /\ stage = "compress" => times <= BlockExtra + 1
    /\ stage = "decompress" => stored > 0 /\ times <= size + 5
=============================================================================

------------------------------- MODULE Encryption -------------------------------
(***************************************************************************)
(* The on-wire format of an encrypted file (tgdcfs/crypto) and the range   *)
(* reads over it.  Bytes are symbolic cells, so that two cells are equal   *)
(* exactly when the code would find them equal: a plain byte is            *)
(* <<"byte", b>>; a cell of a header or of an encrypted chunk names the    *)
(* salt, the chunk index and what it carries.  A key [salt, chunk] stands  *)
(* for a parsed header with the file key derived from it.                  *)
(***************************************************************************)
EXTENDS Integers, Sequences

CONSTANTS
  HeaderSize,   \* bytes of the file header
  MagicSize,    \* how many of them are the magic
  NonceSize,    \* bytes in front of a chunk's ciphertext
  TagSize       \* bytes behind it

ASSUME SizesAssumption ==
  /\ {HeaderSize, MagicSize, NonceSize, TagSize} \subseteq Nat \ {0}
  /\ MagicSize <= HeaderSize

NoKey == [salt |-> 0, chunk |-> 0]
Refused == [salt |-> -1, chunk |-> 0]

LesserOf(a, b) == IF a <= b THEN a ELSE b

(***************************************************************************)
(* Sizes and offsets.                                                      *)
(***************************************************************************)

ChunkOverhead == NonceSize + TagSize

Stride(c) == c + ChunkOverhead

ciphertext_size_for_plaintext(p, c) ==
  p + (p \div c + (IF p % c = 0 THEN 0 ELSE 1)) * ChunkOverhead

encrypted_size_for(p, c) == HeaderSize + ciphertext_size_for_plaintext(p, c)

\* _plaintext_size_from_ciphertext raises where the size is of no layout.
NoSize == -1

plaintext_size_from_ciphertext(s, c) ==
  LET full == (s - HeaderSize) \div Stride(c)
      tail == (s - HeaderSize) % Stride(c)
  IN CASE s <= HeaderSize -> 0
       [] s > HeaderSize /\ tail = 0 -> full * c
       [] s > HeaderSize /\ tail \in 1 .. ChunkOverhead - 1 -> NoSize
       [] OTHER -> full * c + tail - ChunkOverhead

plaintext_offset_to_chunk(off, c) == [index |-> off \div c, within |-> off % c]

chunk_to_ciphertext_offset(i, c) == i * Stride(c)

(***************************************************************************)
(* Headers and chunks.                                                     *)
(***************************************************************************)

Header(k) ==
  [j \in 1 .. HeaderSize |->
     IF j <= MagicSize THEN <<"magic", j>> ELSE <<"head", k.salt, k.chunk, j>>]

EncryptChunk(p, i, k) ==
  [j \in 1 .. Len(p) + ChunkOverhead |->
     CASE j <= NonceSize -> <<"nonce", k.salt, i, j>>
       [] j > NonceSize /\ j <= NonceSize + Len(p) ->
            <<"cipher", k.salt, i, p[j - NonceSize]>>
       [] OTHER -> <<"tag", k.salt, i, p, j - NonceSize - Len(p)>>]

Failed == << <<"failed">> >>

\* decrypt_chunk: too short, another chunk's nonce and a tag that does not
\* authenticate the content are all refused.
DecryptChunk(blob, i, k) ==
  IF Len(blob) < ChunkOverhead THEN Failed
  ELSE LET body == SubSeq(blob, NonceSize + 1, Len(blob) - TagSize)
           p == [j \in 1 .. Len(body) |-> body[j][Len(body[j])]]
       IN IF blob = EncryptChunk(p, i, k) THEN p ELSE Failed

\* What _detect makes of the first bytes it read: the key of an encrypted
\* file, NoKey for a legacy plaintext file, and an exception for a header
\* that is cut off or does not authenticate.
Detected(raw) ==
  LET says == raw[HeaderSize]
      key  == [salt |-> says[2], chunk |-> says[3]]
  IN IF Len(raw) < MagicSize \/ SubSeq(raw, 1, MagicSize) # SubSeq(Header(NoKey), 1, MagicSize)
       THEN NoKey
     ELSE IF Len(raw) < HeaderSize THEN Refused
     ELSE IF says[1] = "head" /\ raw = Header(key) THEN key ELSE Refused

(***************************************************************************)
(* Encrypting while the uploader reads (EncryptingFileMessage).  A reader  *)
(* state is [key, pending, index, taken]: the unread rest of the header or *)
(* of the last chunk, the index of the next one, and how much plaintext    *)
(* went into the earlier ones.                                             *)
(***************************************************************************)

Wrapped(k) == [key |-> k, pending |-> Header(k), index |-> 0, taken |-> 0]

Drained(w, n) == [w EXCEPT !.pending = SubSeq(w.pending, n + 1, Len(w.pending))]

\* The index is not advanced: every chunk gets the first one's nonce.
Refilled_SameIndex(w, plain) ==
  LET n == LesserOf(w.key.chunk, Len(plain) - w.taken)
  IN [w EXCEPT !.pending = EncryptChunk(SubSeq(plain, w.taken + 1, w.taken + n), w.index, w.key),
               !.taken = @ + n]

Refilled(w, plain) ==
  LET n == LesserOf(w.key.chunk, Len(plain) - w.taken)
  IN [w EXCEPT !.pending = EncryptChunk(SubSeq(plain, w.taken + 1, w.taken + n), w.index, w.key),
               !.index = @ + 1,
               !.taken = @ + n]

\* The whole of an encrypted file, as update() puts it together: a header and
\* the plaintext chunk by chunk.
Encrypted(p, k) ==
  [j \in 1 .. encrypted_size_for(Len(p), k.chunk) |->
     IF j <= HeaderSize THEN Header(k)[j]
     ELSE LET off == j - 1 - HeaderSize
              i == off \div Stride(k.chunk)
              chunk == SubSeq(p, i * k.chunk + 1, LesserOf((i + 1) * k.chunk, Len(p)))
          IN EncryptChunk(chunk, i, k)[(off % Stride(k.chunk)) + 1]]

(***************************************************************************)
(* Reading a range.  A stream is open on the bytes at .. last of a stored  *)
(* version (both counted from 0, last inclusive); with a key it collects   *)
(* them in cbuf and decrypts a chunk whenever one is complete.             *)
(***************************************************************************)

Ended == [st |-> "done", key |-> NoKey, at |-> 0, last |-> -1, cbuf |-> <<>>,
          index |-> 0, todo |-> 0, head |-> 0, total |-> 0]

\* The inner repository's own range: a begin past the end is an error.
PlainRange(size, begin, end) ==
  LET last == IF end < 0 \/ end >= size THEN size - 1 ELSE end
  IN IF begin > last THEN [Ended EXCEPT !.st = "invalid"]
     ELSE [Ended EXCEPT !.st = "open", !.at = begin, !.last = last]

\* The exclusive end of the ciphertext is handed on as the inclusive one; past
\* the end of the file the inner repository clamps it.
CipherRange_Exclusive(size, begin, end, k) ==
  LET total == plaintext_size_from_ciphertext(size, k.chunk)
      stop  == IF end < 0 \/ end >= total THEN total - 1 ELSE end
      first == plaintext_offset_to_chunk(begin, k.chunk)
      last  == plaintext_offset_to_chunk(stop, k.chunk)
  IN IF begin > stop \/ begin >= total THEN Ended
     ELSE [st |-> "open", key |-> k,
           at |-> HeaderSize + chunk_to_ciphertext_offset(first.index, k.chunk),
           last |-> LesserOf(HeaderSize + chunk_to_ciphertext_offset(last.index + 1, k.chunk), size - 1),
           cbuf |-> <<>>, index |-> first.index,
           todo |-> last.index - first.index + 1,
           head |-> first.within, total |-> stop - begin + 1]

CipherRange(size, begin, end, k) ==
  LET total == plaintext_size_from_ciphertext(size, k.chunk)
      stop  == IF end < 0 \/ end >= total THEN total - 1 ELSE end
      first == plaintext_offset_to_chunk(begin, k.chunk)
      last  == plaintext_offset_to_chunk(stop, k.chunk)
      after == HeaderSize + chunk_to_ciphertext_offset(last.index + 1, k.chunk)
  IN IF total = NoSize THEN [Ended EXCEPT !.st = "invalid"]
     ELSE IF begin > stop \/ begin >= total THEN Ended
     ELSE [st |-> "open", key |-> k,
           at |-> HeaderSize + chunk_to_ciphertext_offset(first.index, k.chunk),
           last |-> LesserOf(after, size) - 1,
           cbuf |-> <<>>, index |-> first.index,
           todo |-> last.index - first.index + 1,
           head |-> first.within, total |-> stop - begin + 1]

\* Every chunk but the last requested one is decrypted as soon as it is whole.
WholeChunk(s) == s.todo > 1 /\ Len(s.cbuf) >= Stride(s.key.chunk)

\* One chunk of n bytes off the front of cbuf, trimmed to what was asked for.
DecryptedFront(s, n) ==
  LET p == DecryptChunk(SubSeq(s.cbuf, 1, n), s.index, s.key)
      from == SubSeq(p, s.head + 1, Len(p))
      out == SubSeq(from, 1, LesserOf(Len(from), s.total))
  IN [ok |-> p # Failed,
      out |-> out,
      rest |-> [s EXCEPT !.cbuf = SubSeq(s.cbuf, n + 1, Len(s.cbuf)),
                         !.index = @ + 1, !.todo = @ - 1, !.head = 0,
                         !.total = @ - Len(out)]]

=============================================================================

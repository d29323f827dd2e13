------------------------ MODULE DetectorReadout_proofs ------------------------
(***************************************************************************)
(* Proofs about DetectorReadout, for any modules and groups, any sizes of  *)
(* FIFO, buffer and packet, and all failures: what bounds the buffers and  *)
(* the packets, what the ids of the packets say, and that no word is lost, *)
(* repeated or moved between the FIFO and the file or the packets.         *)
(***************************************************************************)
EXTENDS DetectorReadout, StreamLemmas, SequenceTheorems, TLAPS

\* A module's state has its type, and its buffer is filled up to the top.
Filled(s) == s \in ModuleState /\ s.top <= Len(s.buffer)

\* Every payload can be loaned.
AlwaysLoaned == "alloc" \notin Faults

\* What was published fits a packet.
Fits(s) == \A k \in DOMAIN s.packets : Len(s.packets[k].words) <= PacketSize

------------------------------------------------------------------------------
(* What the operations on a module's state do to it.                        *)

\* What a module has taken is a number of words, as is what was produced.
LEMMA TakenIsCount ==
    /\ \A s \in ModuleState : s.taken \in Nat
    /\ \A n \in Words : n \in Nat /\ n <= MaxWords
<1>1. \A n \in Words : n \in Nat /\ n <= MaxWords
  BY ReadoutAssumption DEF Words
<1>2. \A s \in ModuleState : s.taken \in Words
  BY DEF ModuleState
<1>. QED
  BY <1>1, <1>2

\* Slice yields as many words as it is asked for.
LEMMA SliceLength ==
    ASSUME NEW s \in ModuleState, NEW n \in Nat
    PROVE  Slice(s, n) \in Seq(Words) /\ Len(Slice(s, n)) = n
<1>1. \A k \in 1 .. n : (IF s.position + k <= Len(s.buffer)
                         THEN s.buffer[s.position + k] ELSE Stale) \in Words
  BY ReadoutAssumption DEF ModuleState, Stale, Words
<1>. QED
  BY <1>1 DEF Slice

\* CopyUnread moves what is unread to the payload: payload and unread words together
\* are as many as before.
LEMMA CopyUnreadState ==
    ASSUME NEW s, Filled(s)
    PROVE  LET c == CopyUnread(s) IN
           /\ Filled(c)
           /\ c.taken = s.taken /\ c.top = s.top /\ c.buffer = s.buffer
           /\ c.loaned = s.loaned /\ c.packets = s.packets
           /\ Len(c.payload) + c.unread = Len(s.payload) + s.unread
           /\ ~s.loaned => c = s
<1>. DEFINE p == s.payload \o Slice(s, s.unread)
<1>1. /\ s \in ModuleState /\ s.unread \in Nat /\ s.payload \in Seq(Words)
      /\ s.top <= Len(s.buffer)
  BY DEF Filled, ModuleState
<1>2. Slice(s, s.unread) \in Seq(Words) /\ Len(Slice(s, s.unread)) = s.unread
  BY <1>1, SliceLength
<1>3. p \in Seq(Words) /\ Len(p) = Len(s.payload) + s.unread
  <2>. DEFINE q == Slice(s, s.unread)
  <2>1. q \in Seq(Words) /\ Len(q) = s.unread
    BY <1>2
  <2>. HIDE DEF q
  <2>2. s.payload \o q \in Seq(Words) /\ Len(s.payload \o q) = Len(s.payload) + Len(q)
    BY <1>1, <2>1
  <2>. QED
    BY <2>1, <2>2 DEF q
<1>. HIDE DEF p
<1>4. CASE ~s.loaned
  BY <1>1, <1>4 DEF CopyUnread, Filled
<1>5. CASE s.loaned
  <2>1. CopyUnread(s) =
          [taken |-> s.taken, buffer |-> s.buffer, top |-> s.top, position |-> 0, unread |-> 0,
           loaned |-> s.loaned, payload |-> p, file |-> s.file, filesize |-> s.filesize,
           packets |-> s.packets]
    BY <1>1, <1>5 DEF ModuleState, CopyUnread, p
  <2>. DEFINE c == CopyUnread(s)
  <2>2. c \in ModuleState
    BY <1>1, <1>3, <2>1 DEF ModuleState
  <2>3. /\ c.taken = s.taken /\ c.top = s.top /\ c.buffer = s.buffer
        /\ c.loaned = s.loaned /\ c.packets = s.packets /\ c.payload = p /\ c.unread = 0
    BY <2>1
  <2>4. Len(s.payload) \in Nat
    BY <1>1
  <2>. HIDE DEF c
  <2>5. Len(c.payload) + c.unread = Len(s.payload) + s.unread
    BY <1>1, <1>3, <2>3, <2>4
  <2>. QED
    BY <1>1, <1>5, <2>2, <2>3, <2>5 DEF Filled, c
<1>. QED
  BY <1>4, <1>5

\* What fwrite stores is a sequence of words.
LEMMA StoredType ==
    ASSUME NEW s, Filled(s), NEW lost \in Nat
    PROVE  Stored(s, lost) \in Seq(Words)
<1>1. s.buffer \in Seq(Words) /\ s.top \in Nat /\ s.top <= Len(s.buffer)
  BY DEF Filled, ModuleState
<1>. DEFINE k == IF lost <= s.top THEN s.top - lost ELSE 0
<1>2. k \in Nat /\ k <= Len(s.buffer)
  BY <1>1
<1>. HIDE DEF k
<1>3. SubSeq(s.buffer, 1, k) \in Seq(Words)
  BY <1>1, <1>2
<1>. QED
  BY <1>3 DEF Stored, k

\* SavetoFile empties the buffer if there is a file and touches nothing else.
LEMMA SavetoFileState ==
    ASSUME NEW s, Filled(s), NEW target, NEW lost \in Nat
    PROVE  LET c == SavetoFile(s, target, lost) IN
           /\ Filled(c)
           /\ c.taken = s.taken /\ c.top = (IF target = "none" THEN s.top ELSE 0)
           /\ c.loaned = s.loaned /\ c.packets = s.packets
           /\ c.payload = s.payload /\ c.unread = s.unread /\ c.position = s.position
<1>. DEFINE f == IF target = "file" THEN s.file \o Stored(s, lost) ELSE s.file
<1>1. /\ s \in ModuleState /\ s.buffer \in Seq(Words) /\ s.file \in Seq(Words)
      /\ s.top \in Nat /\ s.top <= Len(s.buffer) /\ s.filesize + s.top \in Nat
  BY DEF Filled, ModuleState
<1>2. Stored(s, lost) \in Seq(Words)
  BY StoredType
<1>3. f \in Seq(Words)
  BY <1>1, <1>2
<1>. HIDE DEF f
<1>4. CASE target = "none"
  BY <1>1, <1>4 DEF SavetoFile, Filled
<1>5. CASE target # "none"
  <2>1. SavetoFile(s, target, lost) =
          [s EXCEPT !.file = f, !.filesize = s.filesize + s.top, !.top = 0]
    BY <1>5 DEF SavetoFile, f
  <2>2. SavetoFile(s, target, lost) =
          [taken |-> s.taken, buffer |-> s.buffer, top |-> 0, position |-> s.position,
           unread |-> s.unread, loaned |-> s.loaned, payload |-> s.payload, file |-> f,
           filesize |-> s.filesize + s.top, packets |-> s.packets]
    BY <1>1, <2>1 DEF ModuleState
  <2>. QED
    <3>. DEFINE c == SavetoFile(s, target, lost)
    <3>1. c \in ModuleState
      BY <1>1, <1>3, <2>2 DEF ModuleState
    <3>2. c.top <= Len(c.buffer)
      BY <1>1, <2>2
    <3>3. /\ c.taken = s.taken /\ c.top = 0 /\ c.loaned = s.loaned /\ c.packets = s.packets
          /\ c.payload = s.payload /\ c.unread = s.unread /\ c.position = s.position
      BY <2>2
    <3>. QED
      BY <1>5, <3>1, <3>2, <3>3 DEF Filled
<1>. QED
  BY <1>4, <1>5

\* ReadFIFO adds n words to the top of the buffer and to the unread words; they are
\* taken out of the FIFO if the read succeeds.
LEMMA ReadFIFOState ==
    ASSUME NEW s, Filled(s), NEW n \in Nat, s.taken + n <= MaxWords,
           NEW success \in BOOLEAN
    PROVE  LET c == ReadFIFO(s, n, success) IN
           /\ Filled(c)
           /\ c.taken = (IF success THEN s.taken + n ELSE s.taken)
           /\ c.top = s.top + n /\ c.unread = s.unread + n
           /\ c.loaned = s.loaned /\ c.packets = s.packets /\ c.payload = s.payload
<1>. DEFINE old == Slice([s EXCEPT !.position = s.top], n)
            words == IF success THEN [k \in 1 .. n |-> s.taken + k] ELSE old
            b == SubSeq(s.buffer, 1, s.top) \o words
                    \o SubSeq(s.buffer, s.top + n + 1, Len(s.buffer))
<1>1. /\ s \in ModuleState /\ s.buffer \in Seq(Words) /\ s.taken \in Nat
      /\ s.top \in Nat /\ s.top <= Len(s.buffer)
  BY ReadoutAssumption DEF Filled, ModuleState, Words
<1>2. old \in Seq(Words) /\ Len(old) = n
  <2>1. [s EXCEPT !.position = s.top] \in ModuleState
    BY <1>1 DEF ModuleState
  <2>. QED
    BY <2>1, SliceLength
<1>3. words \in Seq(Words) /\ Len(words) = n
  <2>1. CASE success
    <3>1. \A k \in 1 .. n : s.taken + k \in Words
      BY <1>1, ReadoutAssumption DEF Words
    <3>. QED
      BY <2>1, <3>1
  <2>2. CASE ~success
    BY <2>2, <1>2
  <2>. QED
    BY <2>1, <2>2
<1>. HIDE DEF old, words
<1>4. SubSeq(s.buffer, 1, s.top) \in Seq(Words) /\ Len(SubSeq(s.buffer, 1, s.top)) = s.top
  BY <1>1
<1>5. SubSeq(s.buffer, s.top + n + 1, Len(s.buffer)) \in Seq(Words)
  BY <1>1
<1>6. b \in Seq(Words) /\ s.top + n <= Len(b)
  BY <1>1, <1>3, <1>4, <1>5
<1>. HIDE DEF b
<1>. DEFINE t == IF success THEN s.taken + n ELSE s.taken
<1>7. t \in Words
  BY <1>1, ReadoutAssumption DEF Words, Filled, ModuleState
<1>8. ReadFIFO(s, n, success) =
        [s EXCEPT !.buffer = b, !.top = s.top + n, !.unread = s.unread + n, !.taken = t]
  BY DEF ReadFIFO, b, words, old
<1>. HIDE DEF t
<1>9. ReadFIFO(s, n, success) =
        [taken |-> t, buffer |-> b, top |-> s.top + n, position |-> s.position,
         unread |-> s.unread + n, loaned |-> s.loaned, payload |-> s.payload,
         file |-> s.file, filesize |-> s.filesize, packets |-> s.packets]
  BY <1>1, <1>8 DEF ModuleState
<1>. QED
  BY <1>1, <1>6, <1>7, <1>9 DEF Filled, ModuleState, t

\* PublishPacket appends a packet of the payload and of what it has room for, if a
\* payload is loaned that did not outgrow its packet, and does nothing otherwise.
LEMMA PublishPacketState ==
    ASSUME NEW s, Filled(s), NEW id \in Nat
    PROVE  LET c == PublishPacket(s, id) IN
           /\ Filled(c)
           /\ c.taken = s.taken /\ c.top = s.top
           /\ ~s.loaned \/ Outgrown(s) => c = s
           /\ s.loaned /\ ~Outgrown(s) =>
                 /\ c.payload = <<>> /\ ~Outgrown(c)
                 /\ \E w \in Seq(Words) :
                       /\ Len(w) <= PacketSize
                       /\ c.packets = Append(s.packets, [id |-> id, words |-> w])
<1>1. /\ s \in ModuleState /\ s.unread \in Nat /\ s.payload \in Seq(Words)
      /\ s.position \in Nat /\ s.top <= Len(s.buffer) /\ Len(s.payload) \in Nat
      /\ s.packets \in Seq([id : Nat, words : Seq(Words)])
  BY DEF Filled, ModuleState
<1>2. CASE ~s.loaned \/ Outgrown(s)
  BY <1>2 DEF PublishPacket
<1>3. CASE s.loaned /\ ~Outgrown(s)
  <2>. DEFINE n == CopyWords(s)
              q == Slice(s, n)
              w == s.payload \o q
              k == Append(s.packets, [id |-> id, words |-> w])
  <2>1. n \in Nat /\ s.unread - n \in Nat /\ Len(s.payload) + n <= PacketSize
    BY <1>1, <1>3, ReadoutAssumption DEF CopyWords, Outgrown
  <2>2. q \in Seq(Words) /\ Len(q) = n
    BY <1>1, <2>1, SliceLength
  <2>. HIDE DEF q, n
  <2>3. w \in Seq(Words) /\ Len(w) = Len(s.payload) + n
    <3>1. s.payload \in Seq(Words) /\ q \in Seq(Words)
      BY <1>1, <2>2
    <3>2. s.payload \o q \in Seq(Words) /\ Len(s.payload \o q) = Len(s.payload) + Len(q)
      BY <3>1
    <3>. QED
      BY <2>2, <3>2
  <2>. HIDE DEF w
  <2>4. k \in Seq([id : Nat, words : Seq(Words)])
    BY <1>1, <2>3
  <2>. HIDE DEF k
  <2>5. PublishPacket(s, id) =
          [s EXCEPT !.position = s.position + n, !.unread = s.unread - n, !.packets = k,
                    !.loaned = FALSE, !.payload = <<>>]
    BY <1>3 DEF PublishPacket, k, w, q, n
  <2>6. PublishPacket(s, id) =
          [taken |-> s.taken, buffer |-> s.buffer, top |-> s.top,
           position |-> s.position + n, unread |-> s.unread - n, loaned |-> FALSE,
           payload |-> <<>>, file |-> s.file, filesize |-> s.filesize, packets |-> k]
    BY <1>1, <2>5 DEF ModuleState
  <2>. DEFINE c == PublishPacket(s, id)
  <2>7. c \in ModuleState
    BY <1>1, <2>1, <2>4, <2>6 DEF ModuleState
  <2>8. /\ c.top = s.top /\ c.buffer = s.buffer /\ c.taken = s.taken /\ c.payload = <<>>
        /\ c.packets = k /\ ~c.loaned
    BY <2>6
  <2>. HIDE DEF c
  <2>9. \E v \in Seq(Words) :
           /\ Len(v) <= PacketSize
           /\ c.packets = Append(s.packets, [id |-> id, words |-> v])
    BY <2>1, <2>3, <2>8 DEF k
  <2>. QED
    BY <1>1, <1>3, <2>7, <2>8, <2>9 DEF Filled, Outgrown, c
<1>. QED
  BY <1>2, <1>3

\* What ReadModule has done before it publishes.
Read(s, n, success, thres, group_read, target, lost) ==
    LET read == group_read \/ n > thres
        saved == IF read /\ BufferFull(s, n)
                 THEN SavetoFile(CopyUnread(s), target, lost) ELSE s
    IN  IF read /\ n > 0 THEN ReadFIFO(saved, n, success) ELSE saved

LEMMA ReadState ==
    ASSUME NEW s, Filled(s), NEW n \in Nat, s.taken + n <= MaxWords,
           NEW success \in BOOLEAN, NEW thres \in Nat, NEW group_read \in BOOLEAN,
           NEW target, NEW lost \in Nat
    PROVE  LET f == Read(s, n, success, thres, group_read, target, lost) IN
           /\ Filled(f)
           /\ s.taken <= f.taken /\ f.taken <= s.taken + n
           /\ target # "none" /\ s.top <= BufferLength /\ n <= BufferLength
                 => f.top <= BufferLength
           /\ f.packets = s.packets /\ f.loaned = s.loaned
           /\ ~s.loaned => f.payload = s.payload
           /\ Len(f.payload) <= Len(s.payload) + s.unread
<1>. DEFINE read == group_read \/ n > thres
            full == read /\ BufferFull(s, n)
            saved == IF full THEN SavetoFile(CopyUnread(s), target, lost) ELSE s
<1>1. /\ s.top \in Nat /\ s.taken \in Nat /\ s.unread \in Nat /\ Len(s.payload) \in Nat
  BY DEF Filled, ModuleState, Words
<1>2. /\ Filled(saved) /\ saved.taken = s.taken /\ saved.packets = s.packets
      /\ saved.loaned = s.loaned
      /\ Len(saved.payload) + saved.unread = Len(s.payload) + s.unread
      /\ ~s.loaned => saved.payload = s.payload
      /\ saved.top = IF full /\ target # "none" THEN 0 ELSE s.top
  <2>1. CASE full
    <3>. DEFINE c == CopyUnread(s)
    <3>1. /\ Filled(c) /\ c.taken = s.taken /\ c.packets = s.packets /\ c.loaned = s.loaned
          /\ Len(c.payload) + c.unread = Len(s.payload) + s.unread
          /\ ~s.loaned => c = s
      BY CopyUnreadState
    <3>2. saved = SavetoFile(c, target, lost)
      BY <2>1
    <3>4. c.top = s.top
      BY CopyUnreadState
    <3>. HIDE DEF c, saved
    <3>3. LET d == SavetoFile(c, target, lost) IN
          /\ Filled(d) /\ d.taken = c.taken /\ d.top = (IF target = "none" THEN c.top ELSE 0)
          /\ d.loaned = c.loaned /\ d.packets = c.packets
          /\ d.payload = c.payload /\ d.unread = c.unread
      BY <3>1, SavetoFileState
    <3>. QED
      BY <2>1, <3>1, <3>2, <3>3, <3>4
  <2>2. CASE ~full
    BY <2>2
  <2>. QED
    BY <2>1, <2>2
<1>. HIDE DEF saved
<1>3. /\ saved.top \in Nat /\ saved.unread \in Nat /\ Len(saved.payload) \in Nat
  BY <1>2 DEF Filled, ModuleState
<1>4. CASE read /\ n > 0
  <2>. DEFINE f == ReadFIFO(saved, n, success)
  <2>1. /\ Filled(f) /\ f.taken = (IF success THEN s.taken + n ELSE s.taken)
        /\ f.top = saved.top + n
        /\ f.loaned = s.loaned /\ f.packets = s.packets /\ f.payload = saved.payload
    BY <1>2, ReadFIFOState
  <2>2. f = Read(s, n, success, thres, group_read, target, lost)
    BY <1>4 DEF Read, saved
  <2>. HIDE DEF f
  <2>3. target # "none" /\ s.top <= BufferLength /\ n <= BufferLength => f.top <= BufferLength
    BY <1>1, <1>2, <1>4, <2>1, ReadoutAssumption DEF BufferFull
  <2>4. /\ s.taken <= f.taken /\ f.taken <= s.taken + n
        /\ Len(f.payload) <= Len(s.payload) + s.unread
    <3>1. f.taken = s.taken \/ f.taken = s.taken + n
      BY <2>1
    <3>2. Len(f.payload) = Len(saved.payload)
      BY <2>1
    <3>3. Len(saved.payload) + saved.unread = Len(s.payload) + s.unread
      BY <1>2
    <3>. QED
      BY <1>1, <1>3, <2>1, <3>1, <3>2, <3>3
  <2>. QED
    BY <1>2, <2>1, <2>2, <2>3, <2>4
<1>5. CASE ~(read /\ n > 0)
  <2>1. saved = Read(s, n, success, thres, group_read, target, lost)
    BY <1>5 DEF Read, saved
  <2>2. /\ s.taken <= saved.taken /\ saved.taken <= s.taken + n
        /\ Len(saved.payload) <= Len(s.payload) + s.unread
    BY <1>1, <1>2, <1>3
  <2>3. target # "none" /\ s.top <= BufferLength => saved.top <= BufferLength
    BY <1>2, ReadoutAssumption
  <2>. QED
    BY <1>2, <2>1, <2>2, <2>3
<1>. QED
  BY <1>4, <1>5

\* A packet of at most PacketSize words, appended, keeps all packets in their size.
LEMMA AppendFits ==
    ASSUME NEW q \in Seq([id : Nat, words : Seq(Words)]), NEW id \in Nat,
           NEW w \in Seq(Words), Len(w) <= PacketSize,
           \A k \in DOMAIN q : Len(q[k].words) <= PacketSize
    PROVE  LET a == Append(q, [id |-> id, words |-> w]) IN
           \A k \in DOMAIN a : Len(a[k].words) <= PacketSize
<1>. DEFINE r == [id |-> id, words |-> w]
<1>1. r \in [id : Nat, words : Seq(Words)] /\ Len(r.words) <= PacketSize
  OBVIOUS
<1>. HIDE DEF r
<1>2. /\ Append(q, r) \in Seq([id : Nat, words : Seq(Words)])
      /\ DOMAIN Append(q, r) = 1 .. Len(q) + 1 /\ DOMAIN q = 1 .. Len(q)
      /\ \A k \in 1 .. Len(q) + 1 : Append(q, r)[k] = IF k <= Len(q) THEN q[k] ELSE r
  BY <1>1
<1>. SUFFICES ASSUME NEW k \in 1 .. Len(q) + 1
              PROVE  Len(Append(q, r)[k].words) <= PacketSize
  BY <1>2 DEF r
<1>3. CASE k <= Len(q)
  <2>1. k \in DOMAIN q /\ Append(q, r)[k] = q[k]
    BY <1>2, <1>3
  <2>. QED
    BY <2>1
<1>4. CASE ~(k <= Len(q))
  BY <1>1, <1>2, <1>4
<1>. QED
  BY <1>3, <1>4

\* What reading n words makes of the state s of a module: it stays filled, a buffer with
\* a file stays in its bounds, a packet is published when the group is read and a
\* payload is there, unless that outgrew its packet, which takes a group that is read.
ReadsInto(s, n, group_read, id, target, r) ==
    /\ Filled(r)
    /\ s.taken <= r.taken /\ r.taken <= s.taken + n
    /\ target # "none" /\ s.top <= BufferLength /\ n <= BufferLength => r.top <= BufferLength
    /\ IF group_read /\ s.loaned /\ ~Outgrown(r)
       THEN \E w \in Seq(Words) : r.packets = Append(s.packets, [id |-> id, words |-> w])
       ELSE r.packets = s.packets
    /\ Fits(s) => Fits(r)
    /\ /\ Len(s.payload) <= PacketSize
       /\ group_read \/ n + Len(s.payload) + s.unread <= PacketSize
       => Len(r.payload) <= PacketSize \/ (group_read /\ Outgrown(r))

\* The second loop of ReadDataFromModules does that to a module.
LEMMA ReadModuleState ==
    ASSUME NEW s, Filled(s), NEW n \in Nat, s.taken + n <= MaxWords,
           NEW success \in BOOLEAN, NEW thres \in Nat, NEW group_read \in BOOLEAN,
           NEW id \in Nat, NEW target, NEW lost \in Nat
    PROVE  ReadsInto(s, n, group_read, id, target,
                     ReadModule(s, n, success, thres, group_read, id, target, lost))
<1>. DEFINE f == Read(s, n, success, thres, group_read, target, lost)
            r == ReadModule(s, n, success, thres, group_read, id, target, lost)
<1>1. /\ Filled(f)
      /\ s.taken <= f.taken /\ f.taken <= s.taken + n
      /\ target # "none" /\ s.top <= BufferLength /\ n <= BufferLength => f.top <= BufferLength
      /\ f.packets = s.packets /\ f.loaned = s.loaned
      /\ ~s.loaned => f.payload = s.payload
      /\ Len(f.payload) <= Len(s.payload) + s.unread
  BY ReadState
<1>2. r = IF group_read THEN PublishPacket(f, id) ELSE f
  BY DEF ReadModule, Read
<1>4. Fits(s) => Fits(f)
  BY <1>1 DEF Fits
<1>. HIDE DEF f, r
<1>3. /\ s.unread \in Nat /\ Len(s.payload) \in Nat /\ Len(f.payload) \in Nat
      /\ f.packets \in Seq([id : Nat, words : Seq(Words)])
  BY <1>1 DEF Filled, ModuleState
<1>5. CASE ~group_read
  <2>1. r = f
    BY <1>2, <1>5
  <2>2. n + Len(s.payload) + s.unread <= PacketSize => Len(f.payload) <= PacketSize
    BY <1>1, <1>3, ReadoutAssumption
  <2>. QED
    BY <1>1, <1>4, <1>5, <2>1, <2>2 DEF ReadsInto, r
<1>6. CASE group_read /\ ~s.loaned
  <2>1. r = f
    BY <1>1, <1>2, <1>6, PublishPacketState
  <2>. QED
    BY <1>1, <1>4, <1>6, <2>1 DEF ReadsInto, r
<1>7. CASE group_read /\ s.loaned /\ Outgrown(f)
  <2>1. r = f
    BY <1>1, <1>2, <1>7, PublishPacketState
  <2>. QED
    BY <1>1, <1>4, <1>7, <2>1 DEF ReadsInto, r
<1>8. CASE group_read /\ s.loaned /\ ~Outgrown(f)
  <2>. DEFINE c == PublishPacket(f, id)
  <2>1. /\ Filled(c) /\ c.taken = f.taken /\ c.top = f.top
        /\ c.payload = <<>> /\ ~Outgrown(c)
        /\ \E w \in Seq(Words) :
              /\ Len(w) <= PacketSize
              /\ c.packets = Append(f.packets, [id |-> id, words |-> w])
    BY <1>1, <1>8, PublishPacketState
  <2>2. r = c
    BY <1>2, <1>8
  <2>. HIDE DEF c
  <2>3. PICK w \in Seq(Words) :
              /\ Len(w) <= PacketSize
              /\ r.packets = Append(f.packets, [id |-> id, words |-> w])
    BY <2>1, <2>2
  <2>4. ASSUME Fits(s) PROVE Fits(r)
    <3>1. \A k \in DOMAIN f.packets : Len(f.packets[k].words) <= PacketSize
      BY <1>4, <2>4 DEF Fits
    <3>. QED
      BY <1>3, <2>3, <3>1, AppendFits DEF Fits
  <2>5. Len(r.payload) <= PacketSize
    BY <2>1, <2>2, ReadoutAssumption
  <2>. QED
    BY <1>1, <1>8, <2>1, <2>2, <2>3, <2>4, <2>5 DEF ReadsInto, r
<1>. QED
  BY <1>5, <1>6, <1>7, <1>8

\* CloseModule saves what is left and publishes the payload as it is.
LEMMA CloseModuleState ==
    ASSUME NEW s, Filled(s), NEW id \in Nat, NEW target, NEW lost \in Nat
    PROVE  LET c == CloseModule(s, id, target, lost) IN
           /\ Filled(c)
           /\ c.taken = s.taken
           /\ target # "none" => c.top = 0
           /\ Len(s.payload) <= PacketSize => Len(c.payload) <= PacketSize /\ (Fits(s) => Fits(c))
<1>. DEFINE v == SavetoFile(s, target, lost)
<1>1. /\ Filled(v) /\ v.taken = s.taken /\ v.top = (IF target = "none" THEN s.top ELSE 0)
      /\ v.loaned = s.loaned /\ v.packets = s.packets
      /\ v.payload = s.payload /\ v.unread = s.unread
  BY SavetoFileState
<1>2. /\ v \in ModuleState /\ v.top <= Len(v.buffer)
      /\ s.payload \in Seq(Words) /\ Len(s.payload) \in Nat /\ s.top \in Nat
      /\ s.packets \in Seq([id : Nat, words : Seq(Words)])
  BY <1>1 DEF Filled, ModuleState
<1>. HIDE DEF v
<1>3. CASE ~s.loaned
  <2>1. CloseModule(s, id, target, lost) = v
    BY <1>3 DEF CloseModule, v
  <2>2. Fits(s) => Fits(v)
    BY <1>1 DEF Fits
  <2>. QED
    BY <1>1, <1>2, <2>1, <2>2
<1>4. CASE s.loaned
  <2>. DEFINE k == Append(s.packets, [id |-> id, words |-> s.payload])
              c == CloseModule(s, id, target, lost)
  <2>1. k \in Seq([id : Nat, words : Seq(Words)])
    BY <1>2
  <2>2. Len(s.payload) <= PacketSize /\ Fits(s)
           => \A j \in DOMAIN k : Len(k[j].words) <= PacketSize
    BY <1>2, AppendFits DEF Fits
  <2>. HIDE DEF k
  <2>3. c = [v EXCEPT !.packets = k, !.loaned = FALSE, !.payload = <<>>]
    BY <1>1, <1>4 DEF CloseModule, v, k
  <2>4. c = [taken |-> v.taken, buffer |-> v.buffer, top |-> v.top, position |-> v.position,
             unread |-> v.unread, loaned |-> FALSE, payload |-> <<>>, file |-> v.file,
             filesize |-> v.filesize, packets |-> k]
    BY <1>2, <2>3 DEF ModuleState
  <2>5. c \in ModuleState
    BY <1>2, <2>1, <2>4 DEF ModuleState
  <2>6. /\ c.taken = s.taken /\ c.top = v.top /\ c.buffer = v.buffer
        /\ c.payload = <<>> /\ c.packets = k
    BY <1>1, <2>4
  <2>. HIDE DEF c
  <2>7. /\ Len(c.payload) <= PacketSize
        /\ Len(s.payload) <= PacketSize /\ Fits(s) => Fits(c)
    BY <2>2, <2>6, ReadoutAssumption DEF Fits
  <2>. QED
    BY <1>1, <1>2, <2>5, <2>6, <2>7 DEF Filled, c
<1>. QED
  BY <1>3, <1>4

------------------------------------------------------------------------------
(* The invariant.                                                           *)

\* The FIFO never holds more than its depth, and what was taken was produced.
FifoInv ==
    \A i \in Modules :
        /\ Filled(mod[i])
        /\ mod[i].taken <= produced[i]
        /\ produced[i] - mod[i].taken <= FifoDepth

\* A run that is recorded from its start on has its own files open.
HasFile == recorded /\ phase \in {"running", "ending"} => FileTarget = "file"

\* What was published fits a packet, and so does what is to be, in a process that lives.
Sized ==
    \A i \in Modules :
        /\ Fits(mod[i])
        /\ phase # "crashed" => Len(mod[i].payload) <= PacketSize

IInv == TypeOK /\ FifoInv /\ HasFile /\ BufferWithinLength /\ Sized

\* q is what module i published with a packet under the id of its group.
Appends(i, q) ==
    \E w \in Seq(Words) :
        q = Append(mod[i].packets, [id |-> packet_id[GroupIndex[i]], words |-> w])

\* A pass that is given up publishes nothing and advances no id; another publishes a
\* packet of each module of the groups it reads, if a payload could be loaned.
PassPublishes(pass) ==
    \/ /\ pass.packet_id = packet_id
       /\ \A i \in Modules : pass.mod[i].packets = mod[i].packets
    \/ /\ pass.packet_id = NextIds
       /\ \A i \in Modules :
             IF GroupRead(i) /\ (AlwaysLoaned \/ pass.mod[i].packets # mod[i].packets)
             THEN Appends(i, pass.mod[i].packets)
             ELSE pass.mod[i].packets = mod[i].packets

\* Loaning a payload changes nothing else.
LEMMA AllocateState ==
    ASSUME NEW i \in Modules, Filled(mod[i]), NEW loan \in [Modules -> BOOLEAN]
    PROVE  LET a == AllocatePayload(i, loan) IN
           /\ Filled(a) /\ a.taken = mod[i].taken /\ a.top = mod[i].top
           /\ a.packets = mod[i].packets /\ a.payload = mod[i].payload
           /\ a.unread = mod[i].unread /\ a.position = mod[i].position
           /\ a.buffer = mod[i].buffer /\ a.file = mod[i].file
           /\ a.filesize = mod[i].filesize /\ (loan[i] => a.loaned)
           /\ Fits(mod[i]) => Fits(a)
<1>. DEFINE s == mod[i]
            a == AllocatePayload(i, loan)
<1>1. s \in ModuleState /\ s.top <= Len(s.buffer) /\ s.loaned \in BOOLEAN /\ loan[i] \in BOOLEAN
  BY DEF Filled, ModuleState
<1>2. a = [s EXCEPT !.loaned = s.loaned \/ loan[i]]
  BY DEF AllocatePayload
<1>. HIDE DEF s, a
<1>3. a = [taken |-> s.taken, buffer |-> s.buffer, top |-> s.top, position |-> s.position,
           unread |-> s.unread, loaned |-> s.loaned \/ loan[i], payload |-> s.payload,
           file |-> s.file, filesize |-> s.filesize, packets |-> s.packets]
  BY <1>1, <1>2 DEF ModuleState
<1>4. a \in ModuleState
  BY <1>1, <1>3 DEF ModuleState
<1>5. /\ a.taken = s.taken /\ a.buffer = s.buffer /\ a.top = s.top /\ a.packets = s.packets
      /\ a.payload = s.payload /\ a.unread = s.unread /\ a.position = s.position
      /\ a.file = s.file /\ a.filesize = s.filesize /\ a.loaned = (s.loaned \/ loan[i])
  BY <1>3
<1>. QED
  BY <1>1, <1>4, <1>5 DEF Filled, Fits, s, a

\* The operations on the modules may fail and lose words in any combination.
LEMMA OutcomeTypes ==
    /\ \A fault : Outcomes(fault) \subseteq [Modules -> BOOLEAN]
    /\ \A loan \in Outcomes("alloc") : AlwaysLoaned => \A i \in Modules : loan[i]
    /\ Losses \subseteq [Modules -> Nat]
<1>1. [i \in Modules |-> TRUE] \in [Modules -> BOOLEAN] /\ [i \in Modules |-> 0] \in [Modules -> Nat]
  OBVIOUS
<1>2. 0 .. BufferLength \subseteq Nat
  BY ReadoutAssumption
<1>3. [Modules -> 0 .. BufferLength] \subseteq [Modules -> Nat]
  BY <1>2
<1>. QED
  BY <1>1, <1>3 DEF Outcomes, AlwaysLoaned, Losses

\* What a pass leaves behind keeps it, during the run and at its end.
PassIsKept(pass) ==
    /\ pass.alive \in BOOLEAN
    /\ pass.alive => PassPublishes(pass)
    /\ pass.mod \in [Modules -> ModuleState]
    /\ pass.packet_id \in [Modules \cup Groups -> Nat]
    /\ \A i \in Modules :
          /\ Filled(pass.mod[i])
          /\ mod[i].taken <= pass.mod[i].taken /\ pass.mod[i].taken <= produced[i]
          /\ recorded => pass.mod[i].top <= BufferLength
          /\ Fits(pass.mod[i])
          /\ pass.alive => Len(pass.mod[i].payload) <= PacketSize

\* A module that is loaned a payload, or not even that.
LEMMA AllocateKeeps ==
    ASSUME IInv, phase # "crashed", NEW loan \in [Modules -> BOOLEAN], NEW i \in Modules,
           NEW c, c = mod[i] \/ c = AllocatePayload(i, loan)
    PROVE  /\ Filled(c) /\ c.packets = mod[i].packets
           /\ mod[i].taken <= c.taken /\ c.taken <= produced[i]
           /\ recorded => c.top <= BufferLength
           /\ Fits(c) /\ Len(c.payload) <= PacketSize
<1>1. /\ Filled(mod[i]) /\ mod[i].taken <= produced[i] /\ mod[i].taken \in Nat
      /\ recorded => mod[i].top <= BufferLength
      /\ Fits(mod[i]) /\ Len(mod[i].payload) <= PacketSize
  BY TakenIsCount DEF IInv, TypeOK, FifoInv, BufferWithinLength, Sized
<1>2. /\ Filled(c) /\ c.taken = mod[i].taken /\ c.top = mod[i].top
      /\ c.packets = mod[i].packets /\ c.payload = mod[i].payload
      /\ Fits(mod[i]) => Fits(c)
  BY <1>1, AllocateState
<1>. QED
  BY <1>1, <1>2

\* A module that is read.
ReadIsKept(i, r) ==
    /\ Filled(r)
    /\ mod[i].taken <= r.taken /\ r.taken <= produced[i]
    /\ recorded => r.top <= BufferLength
    /\ Fits(r)
    /\ Len(r.payload) <= PacketSize \/ (GroupRead(i) /\ Outgrown(r))
    /\ IF GroupRead(i) /\ (AlwaysLoaned \/ r.packets # mod[i].packets)
       THEN Outgrown(r) \/ Appends(i, r.packets) ELSE r.packets = mod[i].packets

LEMMA ReadIsKeptByRun ==
    ASSUME IInv, phase \in {"running", "ending"}, NEW loan \in [Modules -> BOOLEAN],
           AlwaysLoaned => \A j \in Modules : loan[j], NEW fifo \in [Modules -> BOOLEAN],
           NEW thres \in Nat, NEW lost \in [Modules -> Nat], NEW i \in Modules
    PROVE  ReadIsKept(i, AllRead(loan, fifo, thres, lost)[i])
<1>1. /\ mod[i].taken \in Nat /\ produced[i] \in Nat /\ produced[i] <= MaxWords
      /\ nwords(i) \in Nat /\ mod[i].taken + nwords(i) = produced[i]
      /\ nwords(i) <= FifoDepth
  <2>1. mod[i].taken \in Nat /\ produced[i] \in Nat /\ produced[i] <= MaxWords
    BY TakenIsCount DEF IInv, TypeOK
  <2>2. mod[i].taken <= produced[i] /\ produced[i] - mod[i].taken <= FifoDepth
    BY DEF IInv, FifoInv
  <2>. QED
    BY <2>1, <2>2 DEF nwords
<1>. DEFINE a == AllocatePayload(i, loan)
            n == nwords(i)
            g == GroupRead(i)
            id == packet_id[GroupIndex[i]]
            o == fifo[i]
            l == lost[i]
            r == AllRead(loan, fifo, thres, lost)[i]
<1>2. /\ Filled(a) /\ a.taken = mod[i].taken /\ a.top = mod[i].top
      /\ a.packets = mod[i].packets /\ a.payload = mod[i].payload
      /\ a.unread = mod[i].unread /\ (AlwaysLoaned => a.loaned) /\ Fits(a)
      /\ Len(mod[i].payload) <= PacketSize
  <2>1. Filled(mod[i]) /\ Fits(mod[i]) /\ Len(mod[i].payload) <= PacketSize
    BY DEF IInv, FifoInv, Sized
  <2>. QED
    BY <2>1, AllocateState
<1>3. r = ReadModule(a, n, o, thres, g, id, FileTarget, l)
  BY DEF AllRead
<1>4. o \in BOOLEAN /\ l \in Nat /\ g \in BOOLEAN /\ id \in Nat
  <2>1. id \in Nat
    BY DEF IInv, TypeOK, Groups
  <2>. QED
    BY <2>1 DEF GroupRead
<1>5. g \/ n + Len(a.payload) + a.unread <= PacketSize
  <2>1. ~g => ~NearlyFull(i)
    BY DEF GroupRead, GroupsRead, Groups, Members
  <2>2. Len(mod[i].payload) \in Nat /\ mod[i].unread \in Nat
    BY DEF IInv, TypeOK, ModuleState
  <2>3. a.payload = mod[i].payload /\ a.unread = mod[i].unread
    BY <1>2
  <2>. HIDE DEF a
  <2>. QED
    BY <1>1, <2>1, <2>2, <2>3, ReadoutAssumption DEF NearlyFull
<1>6. recorded => FileTarget # "none"
  BY DEF IInv, HasFile
<1>7. recorded => mod[i].top <= BufferLength
  BY DEF IInv, BufferWithinLength
<1>8. n <= BufferLength
  BY <1>1, ReadoutAssumption
<1>. HIDE DEF a, n, g, id, o, l, r
<1>9. a.taken + n <= MaxWords /\ n \in Nat
  BY <1>1, <1>2 DEF n
<1>10. ReadsInto(a, n, g, id, FileTarget, r)
  BY <1>2, <1>3, <1>4, <1>9, ReadModuleState
<1>11. /\ Filled(r)
       /\ a.taken <= r.taken /\ r.taken <= a.taken + n
       /\ FileTarget # "none" /\ a.top <= BufferLength /\ n <= BufferLength
             => r.top <= BufferLength
       /\ IF g /\ a.loaned /\ ~Outgrown(r)
          THEN \E w \in Seq(Words) : r.packets = Append(a.packets, [id |-> id, words |-> w])
          ELSE r.packets = a.packets
       /\ Fits(r)
       /\ Len(r.payload) <= PacketSize \/ (g /\ Outgrown(r))
  <2>1. Len(a.payload) <= PacketSize /\ Fits(a)
    BY <1>2
  <2>. QED
    BY <1>5, <1>10, <2>1 DEF ReadsInto
<1>12. mod[i].taken <= r.taken /\ r.taken <= produced[i]
  BY <1>1, <1>2, <1>11 DEF n
<1>13. recorded => r.top <= BufferLength
  BY <1>2, <1>6, <1>7, <1>8, <1>11
<1>14. IF g /\ (AlwaysLoaned \/ r.packets # mod[i].packets)
       THEN Outgrown(r) \/ Appends(i, r.packets) ELSE r.packets = mod[i].packets
  <2>1. CASE g /\ a.loaned /\ ~Outgrown(r)
    <3>1. Appends(i, r.packets)
      BY <1>2, <1>11, <2>1 DEF Appends, id
    <3>. QED
      BY <2>1, <3>1
  <2>2. CASE ~(g /\ a.loaned /\ ~Outgrown(r))
    <3>1. r.packets = mod[i].packets
      BY <1>2, <1>11, <2>2
    <3>. QED
      BY <1>2, <2>2, <3>1
  <2>. QED
    BY <2>1, <2>2
<1>. QED
  BY <1>11, <1>12, <1>13, <1>14 DEF ReadIsKept, g, r

LEMMA PassKeeps ==
    ASSUME IInv, phase \in {"running", "ending"}, NEW endofrun \in BOOLEAN,
           NEW loan \in Outcomes("alloc"), NEW fifo \in Outcomes("read"),
           NEW pass \in PassOutcomes(endofrun, loan, fifo)
    PROVE  PassIsKept(pass)
<1>. DEFINE thres == Thres(endofrun)
<1>1. /\ loan \in [Modules -> BOOLEAN] /\ fifo \in [Modules -> BOOLEAN]
      /\ AlwaysLoaned => \A j \in Modules : loan[j]
  BY OutcomeTypes
<1>2. NextIds \in [Modules \cup Groups -> Nat] /\ packet_id \in [Modules \cup Groups -> Nat]
  BY DEF IInv, TypeOK, NextIds
<1>3. thres \in Nat
  BY ReadoutAssumption DEF Thres
<1>4. PICK lost \in [Modules -> Nat], k \in Modules :
        \/ pass = AfterPass(loan, fifo, thres, lost)
        \/ pass = AfterFailedCheck(loan, k)
        \/ pass = DeadPass
  <2>1. 0 \in Modules /\ [i \in Modules |-> 0] \in [Modules -> Nat]
    BY ReadoutAssumption DEF Modules
  <2>2. Losses \subseteq [Modules -> Nat]
    BY OutcomeTypes
  <2>. QED
    BY <2>1, <2>2 DEF PassOutcomes
<1>. HIDE DEF thres
<1>5. CASE pass = DeadPass
  <2>1. pass.mod = mod /\ pass.packet_id = packet_id /\ pass.alive = FALSE
    BY <1>5 DEF DeadPass
  <2>2. mod \in [Modules -> ModuleState]
    BY DEF IInv, TypeOK
  <2>3. ASSUME NEW i \in Modules
        PROVE  /\ Filled(mod[i]) /\ mod[i].taken <= mod[i].taken /\ mod[i].taken <= produced[i]
               /\ recorded => mod[i].top <= BufferLength
               /\ Fits(mod[i])
    BY <1>1, AllocateKeeps
  <2>. QED
    BY <1>2, <2>1, <2>2, <2>3 DEF PassIsKept
<1>6. CASE pass = AfterFailedCheck(loan, k)
  <2>1. /\ pass.mod = [i \in Modules |-> IF i < k THEN AllocatePayload(i, loan) ELSE mod[i]]
        /\ pass.packet_id = packet_id /\ pass.alive = TRUE
    BY <1>6 DEF AfterFailedCheck
  <2>2. ASSUME NEW i \in Modules
        PROVE  /\ Filled(pass.mod[i]) /\ pass.mod[i].packets = mod[i].packets
               /\ mod[i].taken <= pass.mod[i].taken /\ pass.mod[i].taken <= produced[i]
               /\ recorded => pass.mod[i].top <= BufferLength
               /\ Fits(pass.mod[i]) /\ Len(pass.mod[i].payload) <= PacketSize
    <3>1. pass.mod[i] = mod[i] \/ pass.mod[i] = AllocatePayload(i, loan)
      BY <2>1
    <3>. QED
      BY <1>1, <3>1, AllocateKeeps
  <2>3. pass.mod \in [Modules -> ModuleState]
    BY <2>1, <2>2 DEF Filled
  <2>. QED
    BY <1>2, <2>1, <2>2, <2>3 DEF PassIsKept, PassPublishes
<1>7. CASE pass = AfterPass(loan, fifo, thres, lost)
  <2>. DEFINE done == AllRead(loan, fifo, thres, lost)
              dies(i) == GroupRead(i) /\ Outgrown(done[i])
              alive == \A i \in Modules : ~dies(i)
  <2>1. /\ pass.mod = [i \in Modules |-> IF \E j \in 0 .. i - 1 : dies(j)
                                         THEN AllocatePayload(i, loan) ELSE done[i]]
        /\ pass.packet_id = IF alive THEN NextIds ELSE packet_id
        /\ pass.alive = alive
    BY <1>7 DEF AfterPass
  <2>2. ASSUME NEW i \in Modules PROVE ReadIsKept(i, done[i])
    BY <1>1, <1>3, ReadIsKeptByRun
  <2>3. ASSUME NEW i \in Modules PROVE ReadIsKept(i, done[i]) /\ (~dies(i) => Len(done[i].payload) <= PacketSize)
    BY <2>2 DEF ReadIsKept
  <2>4. alive => \A i \in Modules : pass.mod[i] = done[i]
    <3>1. \A i \in Modules : \A j \in 0 .. i - 1 : j \in Modules
      BY ReadoutAssumption DEF Modules
    <3>. HIDE DEF done
    <3>. QED
      BY <2>1, <3>1
  <2>. HIDE DEF done
  <2>5. ASSUME NEW i \in Modules
        PROVE  /\ Filled(pass.mod[i])
               /\ mod[i].taken <= pass.mod[i].taken /\ pass.mod[i].taken <= produced[i]
               /\ recorded => pass.mod[i].top <= BufferLength
               /\ Fits(pass.mod[i])
    <3>1. pass.mod[i] = done[i] \/ pass.mod[i] = AllocatePayload(i, loan)
      BY <2>1
    <3>2. CASE pass.mod[i] = done[i]
      BY <2>2, <3>2 DEF ReadIsKept
    <3>3. CASE pass.mod[i] = AllocatePayload(i, loan)
      BY <1>1, <3>3, AllocateKeeps
    <3>. QED
      BY <3>1, <3>2, <3>3
  <2>6. pass.mod \in [Modules -> ModuleState]
    BY <2>1, <2>5 DEF Filled
  <2>7. ASSUME alive, NEW i \in Modules
        PROVE  /\ Len(pass.mod[i].payload) <= PacketSize
               /\ IF GroupRead(i) /\ (AlwaysLoaned \/ pass.mod[i].packets # mod[i].packets)
                  THEN Appends(i, pass.mod[i].packets) ELSE pass.mod[i].packets = mod[i].packets
    <3>1. pass.mod[i] = done[i] /\ ~dies(i)
      BY <2>4, <2>7
    <3>2. /\ Len(done[i].payload) <= PacketSize
          /\ IF GroupRead(i) /\ (AlwaysLoaned \/ done[i].packets # mod[i].packets)
             THEN Outgrown(done[i]) \/ Appends(i, done[i].packets)
             ELSE done[i].packets = mod[i].packets
      BY <2>3, <3>1 DEF ReadIsKept
    <3>. QED
      BY <3>1, <3>2
  <2>8. pass.alive => PassPublishes(pass)
    BY <2>1, <2>7 DEF PassPublishes
  <2>9. pass.alive \in BOOLEAN /\ pass.packet_id \in [Modules \cup Groups -> Nat]
    BY <1>2, <2>1
  <2>. QED
    BY <2>1, <2>5, <2>6, <2>7, <2>8, <2>9 DEF PassIsKept
<1>. QED
  BY <1>4, <1>5, <1>6, <1>7

------------------------------------------------------------------------------
(* The steps keep the invariant.                                            *)

\* A module with nothing buffered, taken or published.
LEMMA IdleState ==
    ASSUME NEW b \in Seq(Words)
    PROVE  LET s == Idle(b) IN
           /\ Filled(s)
           /\ s.taken = 0 /\ s.top = 0 /\ s.unread = 0 /\ s.buffer = b
           /\ s.file = <<>> /\ s.filesize = 0
           /\ s.payload = <<>> /\ s.packets = <<>> /\ Fits(s)
<1>1. Idle(b) = [taken |-> 0, buffer |-> b, top |-> 0, position |-> 0, unread |-> 0,
                 loaned |-> FALSE, payload |-> <<>>, file |-> <<>>, filesize |-> 0,
                 packets |-> <<>>]
  BY DEF Idle
<1>2. Idle(b) \in ModuleState
  BY <1>1, ReadoutAssumption DEF ModuleState, Words
<1>3. Len(b) \in Nat
  OBVIOUS
<1>. QED
  BY <1>1, <1>2, <1>3 DEF Filled, Fits

\* Nothing is buffered before the first run.
LEMMA InitInv == Init => IInv
<1>. SUFFICES ASSUME Init PROVE IInv
  OBVIOUS
<1>. DEFINE idle == Idle(<<>>)
<1>1. /\ Filled(idle) /\ idle.taken = 0 /\ idle.top = 0 /\ idle.payload = <<>> /\ Fits(idle)
  <2>1. <<>> \in Seq(Words)
    OBVIOUS
  <2>. QED
    BY <2>1, IdleState
<1>2. mod = [i \in Modules |-> idle]
  BY DEF Init
<1>. HIDE DEF idle
<1>3. /\ phase = "ready" /\ frecord = TRUE /\ recorded = FALSE /\ fsave = 0 /\ fopen = FALSE
      /\ counter = 0 /\ runs = 0
      /\ produced = [i \in Modules |-> 0] /\ busy = [i \in Modules |-> FALSE]
      /\ packet_id = [k \in Modules \cup Groups |-> 0]
  BY DEF Init
<1>4. TypeOK
  <2>1. mod \in [Modules -> ModuleState]
    BY <1>1, <1>2 DEF Filled
  <2>2. 0 \in Nat /\ 0 \in Words /\ 0 \in 0 .. MaxRuns /\ 0 \in 0 .. StopTries + 1 /\ 0 \in 0 .. 0
    BY ReadoutAssumption DEF Words
  <2>. QED
    BY <1>3, <2>1, <2>2 DEF TypeOK
<1>5. FifoInv
  BY <1>1, <1>2, <1>3, ReadoutAssumption DEF FifoInv
<1>6. Sized
  BY <1>1, <1>2, ReadoutAssumption DEF Sized
<1>. QED
  BY <1>3, <1>4, <1>5, <1>6 DEF IInv, HasFile, BufferWithinLength

\* The start of a run empties every module or, unrecorded, leaves its buffer alone.
LEMMA StartState ==
    ASSUME IInv, StartRun, NEW i \in Modules
    PROVE  /\ Filled(mod'[i]) /\ Fits(mod'[i])
           /\ mod'[i].taken = 0
           /\ Len(mod'[i].payload) <= PacketSize
           /\ frecord => mod'[i] = Idle(mod[i].buffer)
           /\ frecord => mod'[i].top = 0
<1>. DEFINE s == mod[i]
            c == mod'[i]
<1>1. /\ s \in ModuleState /\ s.top <= Len(s.buffer) /\ s.buffer \in Seq(Words)
      /\ Len(s.payload) <= PacketSize
  BY DEF IInv, FifoInv, Filled, Sized, StartRun, ModuleState
<1>2. c = FirstState(i)
  BY DEF StartRun
<1>3. FirstState(i) = IF frecord THEN Idle(s.buffer)
                      ELSE [s EXCEPT !.taken = 0, !.file = <<>>, !.packets = <<>>]
  BY DEF FirstState
<1>. HIDE DEF s, c
<1>4. CASE frecord
  <2>1. c = Idle(s.buffer)
    BY <1>2, <1>3, <1>4
  <2>2. Filled(c) /\ c.taken = 0 /\ c.top = 0 /\ c.payload = <<>> /\ Fits(c)
    BY <1>1, <2>1, IdleState
  <2>. QED
    BY <2>1, <2>2, ReadoutAssumption DEF s, c
<1>5. CASE ~frecord
  <2>1. c = [s EXCEPT !.taken = 0, !.file = <<>>, !.packets = <<>>]
    BY <1>2, <1>3, <1>5
  <2>2. c = [taken |-> 0, buffer |-> s.buffer, top |-> s.top, position |-> s.position,
             unread |-> s.unread, loaned |-> s.loaned, payload |-> s.payload,
             file |-> <<>>, filesize |-> s.filesize, packets |-> <<>>]
    BY <1>1, <2>1 DEF ModuleState
  <2>3. c \in ModuleState
    BY <1>1, <2>2, ReadoutAssumption DEF ModuleState, Words
  <2>4. /\ c.taken = 0 /\ c.top = s.top /\ c.buffer = s.buffer /\ c.payload = s.payload
        /\ c.packets = <<>>
    BY <2>2
  <2>. QED
    BY <1>1, <1>5, <2>3, <2>4 DEF Filled, Fits, s, c
<1>. QED
  BY <1>4, <1>5

LEMMA StartKeeps == IInv /\ StartRun => IInv'
<1>. SUFFICES ASSUME IInv, StartRun PROVE IInv'
  OBVIOUS
<1>1. /\ phase' = "running" /\ recorded' = frecord /\ frecord' = frecord
      /\ fsave' = (IF frecord THEN runs + 1 ELSE fsave) /\ fopen' = (frecord \/ fopen)
      /\ runs' = runs + 1 /\ runs < MaxRuns /\ counter' = 0
      /\ produced' = [i \in Modules |-> 0] /\ busy' = [i \in Modules |-> TRUE]
      /\ mod' = [i \in Modules |-> FirstState(i)] /\ packet_id' = FirstIds
  BY DEF StartRun
<1>2. ASSUME NEW i \in Modules
      PROVE  /\ Filled(mod'[i]) /\ Fits(mod'[i]) /\ mod'[i].taken = 0
             /\ Len(mod'[i].payload) <= PacketSize /\ (frecord => mod'[i].top = 0)
  BY StartState
<1>3. TypeOK'
  <2>1. mod' \in [Modules -> ModuleState]
    BY <1>1, <1>2 DEF Filled
  <2>2. packet_id' \in [Modules \cup Groups -> Nat]
    BY <1>1 DEF IInv, TypeOK, FirstIds
  <2>3. frecord \in BOOLEAN /\ fopen \in BOOLEAN /\ fsave \in 0 .. runs /\ runs \in 0 .. MaxRuns
    BY DEF IInv, TypeOK
  <2>4. fsave' \in 0 .. runs' /\ runs' \in 0 .. MaxRuns
    BY <1>1, <2>3, ReadoutAssumption
  <2>5. 0 \in Words /\ counter' \in 0 .. StopTries + 1
    BY <1>1, ReadoutAssumption DEF Words
  <2>. QED
    BY <1>1, <2>1, <2>2, <2>3, <2>4, <2>5 DEF TypeOK
<1>4. FifoInv'
  BY <1>1, <1>2, ReadoutAssumption DEF FifoInv, Filled
<1>5. HasFile'
  <2>1. runs \in Nat
    BY ReadoutAssumption DEF IInv, TypeOK
  <2>2. runs + 1 # 0
    BY <2>1
  <2>3. frecord => fsave' = runs' /\ fopen' = TRUE /\ fsave' # 0
    BY <1>1, <2>2
  <2>. QED
    BY <1>1, <2>3 DEF HasFile, FileTarget
<1>6. BufferWithinLength'
  BY <1>1, <1>2, ReadoutAssumption DEF BufferWithinLength
<1>7. Sized'
  BY <1>2 DEF Sized, Fits
<1>. QED
  BY <1>3, <1>4, <1>5, <1>6, <1>7 DEF IInv

\* The words that a module has taken since are still in what was produced.
LEMMA TakenKeepsFifo ==
    ASSUME IInv, UNCHANGED produced,
           \A i \in Modules : /\ Filled(mod'[i])
                              /\ mod[i].taken <= mod'[i].taken /\ mod'[i].taken <= produced[i]
    PROVE  FifoInv'
<1>. SUFFICES ASSUME NEW i \in Modules
              PROVE  /\ Filled(mod'[i]) /\ mod'[i].taken <= produced[i]
                     /\ produced[i] - mod'[i].taken <= FifoDepth
  BY DEF FifoInv, Filled
<1>1. produced[i] \in Nat /\ mod[i].taken \in Nat /\ mod'[i].taken \in Nat
  <2>1. mod'[i] \in ModuleState
    BY DEF Filled
  <2>2. mod[i] \in ModuleState /\ produced[i] \in Words
    BY DEF IInv, TypeOK
  <2>. QED
    BY <2>1, <2>2, TakenIsCount
<1>2. mod[i].taken <= produced[i] /\ produced[i] - mod[i].taken <= FifoDepth
  BY DEF IInv, FifoInv
<1>3. Filled(mod'[i]) /\ mod[i].taken <= mod'[i].taken /\ mod'[i].taken <= produced[i]
  OBVIOUS
<1>. QED
  BY <1>1, <1>2, <1>3, ReadoutAssumption

\* A pass during the run, or while StopRun waits, keeps the invariant.
LEMMA ReadKeeps ==
    ASSUME IInv, ReadDataFromModules, phase \in {"running", "ending"},
           UNCHANGED <<files, produced, busy, runs>>, counter' \in 0 .. StopTries + 1
    PROVE  IInv'
<1>. PICK loan \in Outcomes("alloc"), fifo \in Outcomes("read") :
        \E pass \in PassOutcomes(FALSE, loan, fifo) :
           /\ mod' = pass.mod /\ packet_id' = pass.packet_id
           /\ phase' = IF pass.alive THEN phase ELSE "crashed"
  BY DEF ReadDataFromModules
<1>1. PICK pass \in PassOutcomes(FALSE, loan, fifo) :
        /\ mod' = pass.mod /\ packet_id' = pass.packet_id
        /\ phase' = IF pass.alive THEN phase ELSE "crashed"
  OBVIOUS
<1>2. PassIsKept(pass)
  BY PassKeeps
<1>3. UNCHANGED <<frecord, recorded, fsave, fopen>>
  BY DEF files
<1>4. TypeOK'
  BY <1>1, <1>2, <1>3 DEF PassIsKept, IInv, TypeOK
<1>5. FifoInv'
  <2>1. \A i \in Modules : /\ Filled(mod'[i])
                           /\ mod[i].taken <= mod'[i].taken /\ mod'[i].taken <= produced[i]
    BY <1>1, <1>2 DEF PassIsKept
  <2>. QED
    BY <2>1, TakenKeepsFifo
<1>6. HasFile'
  BY <1>1, <1>3 DEF IInv, HasFile, FileTarget
<1>7. BufferWithinLength'
  BY <1>1, <1>2, <1>3 DEF PassIsKept, BufferWithinLength
<1>8. Sized'
  <2>1. \A i \in Modules : Fits(mod'[i]) /\ (phase' # "crashed" => Len(mod'[i].payload) <= PacketSize)
    BY <1>1, <1>2 DEF PassIsKept
  <2>. QED
    BY <2>1 DEF Sized, Fits
<1>. QED
  BY <1>4, <1>5, <1>6, <1>7, <1>8 DEF IInv

\* The last readout and the closing of the modules keep it.
LEMMA FinishKeeps == IInv /\ FinishStop => IInv'
<1>. SUFFICES ASSUME IInv, FinishStop PROVE IInv'
  OBVIOUS
<1>. PICK loan \in Outcomes("alloc"), fifo \in Outcomes("read") :
        \E pass \in PassOutcomes(TRUE, loan, fifo) :
           /\ packet_id' = pass.packet_id
           /\ IF pass.alive
              THEN mod' \in AllClosed(pass) /\ phase' \in CloseEnds
              ELSE mod' = pass.mod /\ phase' = "crashed"
  BY DEF FinishStop
<1>1. PICK pass \in PassOutcomes(TRUE, loan, fifo) :
        /\ packet_id' = pass.packet_id
        /\ IF pass.alive
           THEN mod' \in AllClosed(pass) /\ phase' \in CloseEnds
           ELSE mod' = pass.mod /\ phase' = "crashed"
  OBVIOUS
<1>2. PassIsKept(pass)
  BY PassKeeps DEF FinishStop
<1>3. /\ UNCHANGED <<frecord, recorded, fsave, produced, busy, counter, runs>>
      /\ fopen' \in BOOLEAN /\ phase = "ending"
  BY DEF FinishStop
<1>4. phase' \in {"stopped", "crashed"}
  BY <1>1 DEF CloseEnds
<1>5. ASSUME NEW i \in Modules
      PROVE  /\ Filled(mod'[i])
             /\ mod[i].taken <= mod'[i].taken /\ mod'[i].taken <= produced[i]
             /\ recorded => mod'[i].top <= BufferLength
             /\ Fits(mod'[i])
             /\ phase' # "crashed" => Len(mod'[i].payload) <= PacketSize
  <2>1. CASE ~pass.alive
    BY <1>1, <1>2, <2>1 DEF PassIsKept
  <2>2. CASE pass.alive
    <3>1. PICK lost \in [Modules -> Nat] :
            mod' = [j \in Modules |->
                       CloseModule(pass.mod[j], pass.packet_id[j], FileTarget, lost[j])]
      BY <1>1, <2>2, OutcomeTypes DEF AllClosed
    <3>. DEFINE s == pass.mod[i]
                id == pass.packet_id[i]
                l == lost[i]
    <3>2. /\ Filled(s) /\ Fits(s) /\ Len(s.payload) <= PacketSize /\ id \in Nat /\ l \in Nat
          /\ mod[i].taken <= s.taken /\ s.taken <= produced[i]
      BY <1>2, <2>2 DEF PassIsKept
    <3>3. mod'[i] = CloseModule(s, id, FileTarget, l)
      BY <3>1
    <3>4. recorded => FileTarget # "none"
      BY <1>3 DEF IInv, HasFile
    <3>. HIDE DEF s, id, l
    <3>5. /\ Filled(mod'[i]) /\ mod'[i].taken = s.taken
          /\ FileTarget # "none" => mod'[i].top = 0
          /\ Len(mod'[i].payload) <= PacketSize /\ Fits(mod'[i])
      BY <3>2, <3>3, CloseModuleState
    <3>. QED
      BY <3>2, <3>4, <3>5, ReadoutAssumption
  <2>. QED
    BY <1>2, <2>1, <2>2 DEF PassIsKept
<1>6. TypeOK'
  <2>1. DOMAIN mod' = Modules /\ mod' = [i \in Modules |-> mod'[i]]
    BY <1>1, <1>2 DEF AllClosed, PassIsKept
  <2>2. mod' \in [Modules -> ModuleState]
    BY <1>5, <2>1 DEF Filled
  <2>3. packet_id' \in [Modules \cup Groups -> Nat]
    BY <1>1, <1>2 DEF PassIsKept
  <2>. QED
    BY <1>3, <1>4, <2>2, <2>3 DEF IInv, TypeOK
<1>7. FifoInv'
  BY <1>3, <1>5, TakenKeepsFifo
<1>8. HasFile'
  BY <1>4 DEF HasFile
<1>9. BufferWithinLength'
  BY <1>3, <1>5 DEF BufferWithinLength
<1>10. Sized'
  BY <1>5 DEF Sized, Fits
<1>. QED
  BY <1>6, <1>7, <1>8, <1>9, <1>10 DEF IInv

\* The other steps leave the modules' state alone.
LEMMA SameModules ==
    ASSUME IInv, UNCHANGED <<mod, produced, runs>>, TypeOK', recorded' => recorded,
           phase' \in {"running", "ending"} => phase \in {"running", "ending"},
           phase' # "crashed" => phase # "crashed",
           recorded' => FileTarget' = FileTarget
    PROVE  IInv'
<1>1. FifoInv'
  BY DEF IInv, FifoInv, Filled
<1>2. HasFile'
  BY DEF IInv, HasFile
<1>3. BufferWithinLength'
  BY DEF IInv, BufferWithinLength
<1>4. Sized'
  BY DEF IInv, Sized, Fits
<1>. QED
  BY <1>1, <1>2, <1>3, <1>4 DEF IInv

\* The Record box: files that were open stay open, but a run recorded from its start
\* on is no longer recorded when the box is cleared.
LEMMA RecordKeeps == IInv /\ SetRecordFlag => IInv'
<1>. SUFFICES ASSUME IInv, SetRecordFlag PROVE IInv'
  OBVIOUS
<1>1. /\ frecord' \in BOOLEAN /\ recorded' = (recorded /\ (phase \in {"running", "ending"} => frecord'))
      /\ UNCHANGED <<phase, fsave, fopen, produced, busy, counter, packet_id, mod, runs>>
  BY ReadoutAssumption DEF SetRecordFlag
<1>2. TypeOK'
  BY <1>1 DEF IInv, TypeOK
<1>3. FifoInv' /\ Sized'
  BY <1>1 DEF IInv, FifoInv, Filled, Sized, Fits
<1>4. HasFile'
  <2>. SUFFICES ASSUME recorded', phase' \in {"running", "ending"} PROVE FileTarget' = "file"
    BY DEF HasFile
  <2>1. recorded /\ frecord' /\ phase \in {"running", "ending"}
    BY <1>1
  <2>2. FileTarget = "file"
    BY <2>1 DEF IInv, HasFile
  <2>3. ~(~frecord \/ fsave = 0) /\ (fopen /\ fsave = runs)
    BY <2>2 DEF FileTarget
  <2>. QED
    BY <1>1, <2>1, <2>3 DEF FileTarget
<1>5. BufferWithinLength'
  BY <1>1 DEF IInv, BufferWithinLength
<1>. QED
  BY <1>2, <1>3, <1>4, <1>5 DEF IInv

\* The hardware fills the FIFO up to its depth.
LEMMA ProduceKeeps == ASSUME NEW i \in Modules, IInv, Produce(i) PROVE IInv'
<1>1. UNCHANGED <<phase, frecord, recorded, fsave, fopen, busy, counter, packet_id, mod, runs>>
  BY DEF Produce, files
<1>2. /\ produced[i] \in Nat /\ produced[i] < MaxWords
      /\ produced' = [produced EXCEPT ![i] = @ + 1] /\ nwords(i) < FifoDepth
  BY ReadoutAssumption DEF Produce, IInv, TypeOK, Words
<1>3. produced \in [Modules -> Words]
  BY DEF IInv, TypeOK
<1>4. produced' \in [Modules -> Words]
  BY <1>2, <1>3, ReadoutAssumption DEF Words
<1>5. TypeOK'
  BY <1>1, <1>4 DEF IInv, TypeOK
<1>6. FifoInv'
  <2>. SUFFICES ASSUME NEW j \in Modules
                PROVE  /\ mod[j].taken <= produced'[j]
                       /\ produced'[j] - mod[j].taken <= FifoDepth
    BY <1>1 DEF IInv, FifoInv, Filled
  <2>1. mod[j].taken \in Nat /\ produced[j] \in Nat
    BY <1>3, TakenIsCount DEF IInv, TypeOK
  <2>2. mod[j].taken <= produced[j] /\ produced[j] - mod[j].taken <= FifoDepth
    BY DEF IInv, FifoInv
  <2>3. CASE j = i
    <3>1. produced'[j] = produced[j] + 1
      BY <1>2, <1>3, <2>3
    <3>. QED
      BY <1>2, <2>1, <2>2, <2>3, <3>1, ReadoutAssumption DEF nwords
  <2>4. CASE j # i
    BY <1>2, <1>3, <2>2, <2>4
  <2>. QED
    BY <2>3, <2>4
<1>7. HasFile' /\ BufferWithinLength' /\ Sized'
  BY <1>1 DEF IInv, HasFile, FileTarget, BufferWithinLength, Sized, Fits
<1>. QED
  BY <1>5, <1>6, <1>7 DEF IInv

LEMMA StepKeeps == IInv /\ [Next]_vars => IInv'
<1>. SUFFICES ASSUME IInv, [Next]_vars PROVE IInv'
  OBVIOUS
<1>1. CASE UNCHANGED vars
  <2>1. UNCHANGED <<phase, frecord, recorded, fsave, fopen, produced, busy, counter, packet_id,
                    mod, runs>>
    BY <1>1 DEF vars, files
  <2>2. TypeOK' /\ FileTarget' = FileTarget
    BY <2>1 DEF IInv, TypeOK, FileTarget
  <2>. QED
    BY <2>1, <2>2, SameModules
<1>2. CASE StartRun
  BY <1>2, StartKeeps
<1>3. CASE ReadPass
  <2>1. counter' \in 0 .. StopTries + 1
    BY <1>3 DEF ReadPass, IInv, TypeOK
  <2>. QED
    BY <1>3, <2>1, ReadKeeps DEF ReadPass
<1>4. CASE StopPass
  <2>1. counter' \in 0 .. StopTries + 1
    BY <1>4, ReadoutAssumption DEF StopPass, Waits, IInv, TypeOK
  <2>. QED
    BY <1>4, <2>1, ReadKeeps DEF StopPass
<1>5. CASE FinishStop
  BY <1>5, FinishKeeps
<1>6. CASE EndRun
  <2>1. /\ phase = "running" /\ phase' = "ending"
        /\ UNCHANGED <<frecord, recorded, fsave, fopen, produced, busy, counter, packet_id, mod, runs>>
    BY <1>6 DEF EndRun, files
  <2>2. TypeOK' /\ FileTarget' = FileTarget
    BY <2>1 DEF IInv, TypeOK, FileTarget
  <2>. QED
    BY <2>1, <2>2, SameModules
<1>7. ASSUME NEW i \in Modules, ModuleEnds(i) PROVE IInv'
  <2>1. /\ busy' = [busy EXCEPT ![i] = FALSE]
        /\ UNCHANGED <<phase, frecord, recorded, fsave, fopen, produced, counter, packet_id, mod, runs>>
    BY <1>7 DEF ModuleEnds, files
  <2>2. TypeOK' /\ FileTarget' = FileTarget
    BY <2>1 DEF IInv, TypeOK, FileTarget
  <2>. QED
    BY <2>1, <2>2, SameModules
<1>8. ASSUME NEW i \in Modules, Produce(i) PROVE IInv'
  BY <1>8, ProduceKeeps
<1>9. CASE SetRecordFlag
  BY <1>9, RecordKeeps
<1>. QED
  BY <1>1, <1>2, <1>3, <1>4, <1>5, <1>6, <1>7, <1>8, <1>9 DEF Next

------------------------------------------------------------------------------
\* The strengthened invariant holds in every reachable state.
THEOREM ReadoutInvariant == Spec => []IInv
BY InitInv, StepKeeps, PTL DEF Spec

\* The variables keep their types: no pass takes more words than the hardware
\* produced, and StopRun never counts beyond its tries.
THEOREM TypeCorrect == Spec => []TypeOK
<1>1. IInv => TypeOK
  BY DEF IInv
<1>. QED
  BY ReadoutInvariant, <1>1, PTL

\* In a run that is recorded from its start on no buffer is ever written beyond its end
\* (line 790), whatever fails and whatever the sizes, as long as a FIFO fits into a
\* buffer, as it does by a factor of ten.
THEOREM BuffersBounded == Spec => []BufferWithinLength
<1>1. IInv => BufferWithinLength
  BY DEF IInv
<1>. QED
  BY ReadoutInvariant, <1>1, PTL

\* No packet that outgrew DaqPacket::data is ever published, recorded or not, whatever
\* the sizes and whatever fails.  The code does not look: it holds because a payload
\* that is not read fits with all that waits for it (lines 751-757), and one that is read
\* and outgrew its packet takes the process down in line 813.
THEOREM PacketsBounded == Spec => []PublishedWithinSize
<1>1. IInv => PublishedWithinSize
  BY DEF IInv, Sized, Fits, PublishedWithinSize
<1>. QED
  BY ReadoutInvariant, <1>1, PTL

------------------------------------------------------------------------------
(* The ids of the packets.                                                  *)

\* The configuration numbers the groups below the number of modules, so that the id of
\* every group advances.
OwnGroups == GroupIndex \in [Modules -> Modules]

IdsInv == (OwnGroups => RunningSequence) /\ (AlwaysLoaned => GroupPublishedTogether)

\* A module has as many ids as packets.
LEMMA IdsOfPackets ==
    ASSUME NEW s, s.packets \in Seq([id : Nat, words : Seq(Words)])
    PROVE  /\ PacketIds(s) \in Seq(Nat) /\ Len(PacketIds(s)) = Len(s.packets)
           /\ \A k \in 1 .. Len(s.packets) : PacketIds(s)[k] = s.packets[k].id
<1>. DEFINE q == s.packets
            f == PacketIds(s)
<1>1. f = [k \in DOMAIN q |-> q[k].id] /\ q \in Seq([id : Nat, words : Seq(Words)])
  BY DEF PacketIds
<1>. HIDE DEF f, q
<1>2. Len(q) \in Nat /\ DOMAIN q = 1 .. Len(q)
  BY <1>1
<1>3. ASSUME NEW k \in 1 .. Len(q) PROVE q[k].id \in Nat
  <2>1. q[k] \in [id : Nat, words : Seq(Words)]
    BY <1>1, <1>2, ElementOfSeq
  <2>. QED
    BY <2>1
<1>4. f \in [1 .. Len(q) -> Nat]
  BY <1>1, <1>2, <1>3
<1>5. f \in Seq(Nat) /\ Len(f) = Len(q)
  BY <1>2, <1>4
<1>6. \A k \in 1 .. Len(q) : f[k] = q[k].id
  BY <1>1, <1>2
<1>. QED
  BY <1>5, <1>6 DEF f, q

\* A packet published under id adds id to the ids of the module.
LEMMA AppendedIds ==
    ASSUME NEW s, NEW t, s.packets \in Seq([id : Nat, words : Seq(Words)]),
           NEW id \in Nat, NEW w \in Seq(Words),
           t.packets = Append(s.packets, [id |-> id, words |-> w])
    PROVE  PacketIds(t) = Append(PacketIds(s), id) /\ PacketIds(s) \in Seq(Nat)
<1>. DEFINE q == s.packets
            e == [id |-> id, words |-> w]
            f == PacketIds(s)
            g == PacketIds(t)
<1>1. q \in Seq([id : Nat, words : Seq(Words)]) /\ e \in [id : Nat, words : Seq(Words)]
      /\ e.id = id /\ t.packets = Append(q, e)
  OBVIOUS
<1>2. /\ f \in Seq(Nat) /\ Len(f) = Len(q)
      /\ \A k \in 1 .. Len(q) : f[k] = q[k].id
  BY IdsOfPackets
<1>3. /\ Append(q, e) \in Seq([id : Nat, words : Seq(Words)])
      /\ Len(Append(q, e)) = Len(q) + 1 /\ Len(q) \in Nat
      /\ Append(q, e)[Len(q) + 1] = e
      /\ \A k \in 1 .. Len(q) : Append(q, e)[k] = q[k]
  <2>. HIDE DEF q, e
  <2>. QED
    BY <1>1, AppendProperties
<1>4. /\ g \in Seq(Nat) /\ Len(g) = Len(t.packets)
      /\ \A k \in 1 .. Len(t.packets) : g[k] = t.packets[k].id
  <2>. HIDE DEF q, e
  <2>1. t.packets \in Seq([id : Nat, words : Seq(Words)])
    BY <1>1, <1>3
  <2>. QED
    BY <2>1, IdsOfPackets
<1>. HIDE DEF q, e, f, g
<1>5. /\ Append(f, id) \in Seq(Nat) /\ Len(Append(f, id)) = Len(q) + 1
      /\ Append(f, id)[Len(q) + 1] = id
      /\ \A k \in 1 .. Len(q) : Append(f, id)[k] = f[k]
  BY <1>2, AppendProperties
<1>6. ASSUME NEW k \in 1 .. Len(q) + 1 PROVE g[k] = Append(f, id)[k]
  <2>1. g[k] = Append(q, e)[k].id
    BY <1>1, <1>3, <1>4
  <2>2. CASE k = Len(q) + 1
    BY <1>1, <1>3, <1>5, <2>1, <2>2
  <2>3. CASE k # Len(q) + 1
    <3>1. k \in 1 .. Len(q)
      BY <1>3, <2>3
    <3>. QED
      BY <1>2, <1>3, <1>5, <2>1, <3>1
  <2>. QED
    BY <2>2, <2>3
<1>7. Len(g) = Len(q) + 1
  BY <1>1, <1>3, <1>4
<1>8. g = Append(f, id)
  BY <1>4, <1>5, <1>6, <1>7, SeqEqual
<1>. QED
  BY <1>2, <1>8 DEF f, g

\* An id above all others of an increasing sequence may be appended to it.
LEMMA AppendIncreasing ==
    ASSUME NEW q \in Seq(Nat), NEW id \in Nat, Increasing(q), \A k \in DOMAIN q : q[k] < id
    PROVE  Increasing(Append(q, id)) /\ \A k \in DOMAIN Append(q, id) : Append(q, id)[k] < id + 1
<1>1. Len(q) \in Nat /\ DOMAIN q = 1 .. Len(q) /\ DOMAIN Append(q, id) = 1 .. Len(q) + 1
  OBVIOUS
<1>2. \A k \in 1 .. Len(q) : q[k] \in Nat /\ Append(q, id)[k] = q[k]
  BY <1>1
<1>3. Append(q, id)[Len(q) + 1] = id
  OBVIOUS
<1>4. ASSUME NEW k \in 1 .. Len(q) + 1 PROVE k \in 1 .. Len(q) \/ k = Len(q) + 1
  BY <1>1
<1>5. Increasing(Append(q, id))
  <2>. SUFFICES ASSUME NEW j \in 1 .. Len(q) + 1, NEW k \in 1 .. Len(q) + 1, j < k
                PROVE  Append(q, id)[j] < Append(q, id)[k]
    BY <1>1 DEF Increasing
  <2>1. j \in 1 .. Len(q)
    BY <1>1
  <2>2. CASE k \in 1 .. Len(q)
    BY <1>1, <1>2, <2>1, <2>2 DEF Increasing
  <2>3. CASE k = Len(q) + 1
    BY <1>1, <1>2, <1>3, <2>1, <2>3
  <2>. QED
    BY <1>4, <2>2, <2>3
<1>6. ASSUME NEW k \in 1 .. Len(q) + 1 PROVE Append(q, id)[k] < id + 1
  <2>1. CASE k \in 1 .. Len(q)
    BY <1>1, <1>2, <2>1
  <2>2. CASE k = Len(q) + 1
    BY <1>3, <2>2
  <2>. QED
    BY <1>4, <2>1, <2>2
<1>. QED
  BY <1>1, <1>5, <1>6

\* What a pass does to the ids of a module's packets: nothing, or it appends the id of
\* the group, and then the group moves on.
LEMMA PassIds ==
    ASSUME IInv, ReadDataFromModules, phase \in {"running", "ending"}, phase' = phase,
           NEW i \in Modules
    PROVE  /\ packet_id[GroupIndex[i]] \in Nat /\ PacketIds(mod[i]) \in Seq(Nat)
           /\ DOMAIN mod[i].packets = DOMAIN PacketIds(mod[i])
           /\ DOMAIN mod'[i].packets = DOMAIN PacketIds(mod'[i])
           /\ \/ PacketIds(mod'[i]) = PacketIds(mod[i])
              \/ /\ GroupRead(i) /\ packet_id' = NextIds
                 /\ PacketIds(mod'[i]) = Append(PacketIds(mod[i]), packet_id[GroupIndex[i]])
           /\ \A k \in DOMAIN mod[i].packets : PacketIds(mod[i])[k] = mod[i].packets[k].id
           /\ \A k \in DOMAIN mod'[i].packets : PacketIds(mod'[i])[k] = mod'[i].packets[k].id
           /\ packet_id' = packet_id \/ packet_id' = NextIds
<1>. PICK loan \in Outcomes("alloc"), fifo \in Outcomes("read") :
        \E pass \in PassOutcomes(FALSE, loan, fifo) :
           /\ mod' = pass.mod /\ packet_id' = pass.packet_id
           /\ phase' = IF pass.alive THEN phase ELSE "crashed"
  BY DEF ReadDataFromModules
<1>1. PICK pass \in PassOutcomes(FALSE, loan, fifo) :
        /\ mod' = pass.mod /\ packet_id' = pass.packet_id
        /\ phase' = IF pass.alive THEN phase ELSE "crashed"
  OBVIOUS
<1>2. PassPublishes(pass)
  <2>1. PassIsKept(pass)
    BY PassKeeps
  <2>. QED
    BY <1>1, <2>1 DEF PassIsKept
<1>3. packet_id[GroupIndex[i]] \in Nat
  BY DEF IInv, TypeOK, Groups
<1>4. mod[i].packets \in Seq([id : Nat, words : Seq(Words)])
  BY DEF IInv, TypeOK, ModuleState
<1>5. \/ mod'[i].packets = mod[i].packets
      \/ GroupRead(i) /\ packet_id' = NextIds /\ Appends(i, mod'[i].packets)
  BY <1>1, <1>2 DEF PassPublishes
<1>6. PacketIds(mod[i]) \in Seq(Nat)
  BY <1>4, IdsOfPackets
<1>7. ASSUME Appends(i, mod'[i].packets)
      PROVE  PacketIds(mod'[i]) = Append(PacketIds(mod[i]), packet_id[GroupIndex[i]])
  BY <1>3, <1>4, <1>7, AppendedIds DEF Appends
<1>8. ASSUME mod'[i].packets = mod[i].packets
      PROVE  PacketIds(mod'[i]) = PacketIds(mod[i])
  BY <1>8 DEF PacketIds
<1>9. packet_id' = packet_id \/ packet_id' = NextIds
  BY <1>1, <1>2 DEF PassPublishes
<1>10. /\ DOMAIN mod[i].packets = DOMAIN PacketIds(mod[i])
       /\ DOMAIN mod'[i].packets = DOMAIN PacketIds(mod'[i])
       /\ \A k \in DOMAIN mod[i].packets : PacketIds(mod[i])[k] = mod[i].packets[k].id
       /\ \A k \in DOMAIN mod'[i].packets : PacketIds(mod'[i])[k] = mod'[i].packets[k].id
  BY DEF PacketIds
<1>. QED
  BY <1>3, <1>5, <1>6, <1>7, <1>8, <1>9, <1>10

\* A pass keeps the ids of a run increasing: a used id is below the group's.
LEMMA PassSequence ==
    ASSUME IInv, OwnGroups, RunningSequence, ReadDataFromModules,
           phase \in {"running", "ending"}, phase' = phase
    PROVE  RunningSequence'
<1>. SUFFICES ASSUME NEW i \in Modules
              PROVE  /\ Increasing(PacketIds(mod'[i]))
                     /\ \A k \in DOMAIN mod'[i].packets :
                           mod'[i].packets[k].id < packet_id'[GroupIndex[i]]
  BY DEF RunningSequence
<1>. DEFINE q == PacketIds(mod[i])
            r == PacketIds(mod'[i])
            id == packet_id[GroupIndex[i]]
<1>1. /\ Increasing(q)
      /\ \A k \in DOMAIN mod[i].packets : mod[i].packets[k].id < id
  BY DEF RunningSequence
<1>2. /\ id \in Nat /\ q \in Seq(Nat)
      /\ DOMAIN mod[i].packets = DOMAIN q
      /\ \A k \in DOMAIN q : q[k] = mod[i].packets[k].id
      /\ DOMAIN mod'[i].packets = DOMAIN r
      /\ \A k \in DOMAIN r : r[k] = mod'[i].packets[k].id
      /\ r = q \/ (GroupRead(i) /\ packet_id' = NextIds /\ r = Append(q, id))
      /\ packet_id' = packet_id \/ packet_id' = NextIds
  BY PassIds
<1>3. \A k \in DOMAIN q : q[k] < id
  BY <1>1, <1>2
<1>4. /\ NextIds[GroupIndex[i]] \in Nat /\ id <= NextIds[GroupIndex[i]]
      /\ GroupRead(i) => NextIds[GroupIndex[i]] = id + 1
  <2>1. GroupIndex[i] \in Modules /\ GroupIndex[i] \in DOMAIN packet_id
    BY DEF OwnGroups, IInv, TypeOK
  <2>. QED
    BY <1>2, <2>1 DEF NextIds, GroupRead
<1>. HIDE DEF q, r, id
<1>5. CASE r = q
  <2>1. packet_id'[GroupIndex[i]] \in Nat /\ id <= packet_id'[GroupIndex[i]]
    BY <1>2, <1>4 DEF id
  <2>2. ASSUME NEW k \in DOMAIN r PROVE r[k] < packet_id'[GroupIndex[i]]
    BY <1>2, <1>3, <1>5, <2>1
  <2>. QED
    BY <1>1, <1>2, <1>5, <2>2 DEF r
<1>6. CASE GroupRead(i) /\ packet_id' = NextIds /\ r = Append(q, id)
  <2>1. Increasing(r) /\ \A k \in DOMAIN r : r[k] < id + 1
    BY <1>1, <1>2, <1>3, <1>6, AppendIncreasing
  <2>2. packet_id'[GroupIndex[i]] = id + 1
    BY <1>4, <1>6
  <2>. QED
    BY <1>2, <2>1, <2>2 DEF r
<1>. QED
  BY <1>2, <1>5, <1>6

\* With a payload for every module, a pass publishes for all of a group or for none.
LEMMA PassTogether ==
    ASSUME IInv, AlwaysLoaned, GroupPublishedTogether, ReadDataFromModules,
           phase \in {"running", "ending"}, phase' = phase
    PROVE  GroupPublishedTogether'
<1>. SUFFICES ASSUME NEW i \in Modules, NEW j \in Modules, GroupIndex[i] = GroupIndex[j]
              PROVE  PacketIds(mod'[i]) = PacketIds(mod'[j])
  BY DEF GroupPublishedTogether
<1>. PICK loan \in Outcomes("alloc"), fifo \in Outcomes("read") :
        \E pass \in PassOutcomes(FALSE, loan, fifo) :
           /\ mod' = pass.mod /\ packet_id' = pass.packet_id
           /\ phase' = IF pass.alive THEN phase ELSE "crashed"
  BY DEF ReadDataFromModules
<1>1. PICK pass \in PassOutcomes(FALSE, loan, fifo) :
        /\ mod' = pass.mod /\ packet_id' = pass.packet_id
        /\ phase' = IF pass.alive THEN phase ELSE "crashed"
  OBVIOUS
<1>2. PassPublishes(pass)
  <2>1. PassIsKept(pass)
    BY PassKeeps
  <2>. QED
    BY <1>1, <2>1 DEF PassIsKept
<1>3. PacketIds(mod[i]) = PacketIds(mod[j])
  BY DEF GroupPublishedTogether
<1>4. GroupRead(i) <=> GroupRead(j)
  BY DEF GroupRead
<1>5. ASSUME NEW m \in Modules, Appends(m, mod'[m].packets)
      PROVE  PacketIds(mod'[m]) = Append(PacketIds(mod[m]), packet_id[GroupIndex[m]])
  <2>1. packet_id[GroupIndex[m]] \in Nat
    BY DEF IInv, TypeOK, Groups
  <2>2. mod[m].packets \in Seq([id : Nat, words : Seq(Words)])
    BY DEF IInv, TypeOK, ModuleState
  <2>. QED
    BY <1>5, <2>1, <2>2, AppendedIds DEF Appends
<1>6. ASSUME NEW m \in Modules, mod'[m].packets = mod[m].packets
      PROVE  PacketIds(mod'[m]) = PacketIds(mod[m])
  BY <1>6 DEF PacketIds
<1>7. CASE \A m \in Modules : mod'[m].packets = mod[m].packets
  BY <1>3, <1>6, <1>7
<1>8. CASE \A m \in Modules : IF GroupRead(m) THEN Appends(m, mod'[m].packets)
                              ELSE mod'[m].packets = mod[m].packets
  <2>1. CASE GroupRead(i)
    BY <1>3, <1>4, <1>5, <1>8, <2>1
  <2>2. CASE ~GroupRead(i)
    BY <1>3, <1>4, <1>6, <1>8, <2>2
  <2>. QED
    BY <2>1, <2>2
<1>. QED
  BY <1>1, <1>2, <1>7, <1>8 DEF PassPublishes

\* A run starts without packets, a pass keeps the ids, and no other step of a run
\* touches them; the last packets of StopRun come when the run is over.
LEMMA IdsStep == IInv /\ IdsInv /\ [Next]_vars => IdsInv'
<1>. SUFFICES ASSUME IInv, IdsInv, [Next]_vars PROVE IdsInv'
  OBVIOUS
<1>. USE DEF OwnGroups, AlwaysLoaned
<1>1. CASE UNCHANGED <<phase, packet_id, mod>>
  BY <1>1 DEF IdsInv, RunningSequence, GroupPublishedTogether, PacketIds
<1>2. CASE UNCHANGED <<packet_id, mod>> /\ phase \in {"running", "ending"}
  BY <1>2 DEF IdsInv, RunningSequence, GroupPublishedTogether, PacketIds
<1>3. CASE StartRun
  <2>1. ASSUME NEW i \in Modules PROVE mod'[i].packets = <<>>
    <3>1. mod'[i] = FirstState(i)
      BY <1>3 DEF StartRun
    <3>2. mod[i] \in ModuleState
      BY DEF IInv, TypeOK
    <3>. QED
      BY <3>1, <3>2 DEF FirstState, Idle, ModuleState
  <2>2. ASSUME NEW i \in Modules PROVE PacketIds(mod'[i]) = <<>>
    BY <2>1, <2>2 DEF PacketIds
  <2>. QED
    BY <2>1, <2>2 DEF IdsInv, RunningSequence, GroupPublishedTogether, Increasing
<1>4. CASE ReadDataFromModules /\ phase \in {"running", "ending"} /\ phase' = phase
  BY <1>4, PassSequence, PassTogether DEF IdsInv
<1>5. CASE phase' \notin {"running", "ending"}
  BY <1>5 DEF IdsInv, RunningSequence, GroupPublishedTogether
<1>6. ReadDataFromModules => phase' = phase \/ phase' = "crashed"
  BY DEF ReadDataFromModules
<1>7. CASE FinishStop
  <2>1. phase' \notin {"running", "ending"}
    BY <1>7 DEF FinishStop, CloseEnds
  <2>. QED
    BY <1>5, <2>1
<1>. QED
  BY <1>1, <1>2, <1>3, <1>4, <1>5, <1>6, <1>7
  DEF Next, vars, SetRecordFlag, ReadPass, EndRun, StopPass, Produce, ModuleEnds

\* Before the first run there is nothing to compare.
LEMMA IdsInit == Init => IdsInv
BY DEF Init, IdsInv, RunningSequence, GroupPublishedTogether

\* What the readout promises of the ids holds in every reachable state.
LEMMA IdsInvariant == Spec => []IdsInv
BY ReadoutInvariant, IdsInit, IdsStep, PTL DEF Spec

\* While a run lasts the packets of a module carry increasing ids, each used once, if
\* the configuration numbers its groups below the number of modules; whatever fails.
THEOREM IdsIncrease == Spec => [](OwnGroups => RunningSequence)
<1>1. IdsInv => (OwnGroups => RunningSequence)
  BY DEF IdsInv
<1>. QED
  BY IdsInvariant, <1>1, PTL

\* The members of a group have published packets of the same ids at every moment of a
\* run, if every payload can be loaned: the group policy the receivers rely on.
THEOREM GroupsPublishTogether == Spec => [](AlwaysLoaned => GroupPublishedTogether)
<1>1. IdsInv => (AlwaysLoaned => GroupPublishedTogether)
  BY DEF IdsInv
<1>. QED
  BY IdsInvariant, <1>1, PTL

------------------------------------------------------------------------------
(* The streams of words.                                                    *)

\* The packets, the payload and what is unread of the buffer are the hardware's stream ...
OnlineStream(s) == Published(s) \o s.payload \o Slice(s, s.unread) = FirstWords(s.taken)

\* ... which reaches to the top of the buffer.
UnreadToTop(s) == s.position + s.unread = s.top

\* A file in which z words count as written.
FileOf(f, z) ==
    /\ Len(f) <= z
    /\ Increasing(f)
    /\ \A k \in DOMAIN f : f[k] <= z
    /\ Len(f) = z => f = FirstWords(z)

LEMMA FirstThenNext ==
    ASSUME NEW n \in Nat, NEW m \in Nat, n + m <= MaxWords
    PROVE  /\ FirstWords(n) \in Seq(Words) /\ NextWords(n, m) \in Seq(Words)
           /\ FirstWords(n + m) = FirstWords(n) \o NextWords(n, m)
<1>1. \A k \in 1 .. n + m : k \in Words
  BY ReadoutAssumption DEF Words
<1>2. FirstWords(n) \in Seq(Words) /\ Len(FirstWords(n)) = n
  BY <1>1 DEF FirstWords
<1>3. NextWords(n, m) \in Seq(Words) /\ Len(NextWords(n, m)) = m
  BY <1>1 DEF NextWords
<1>4. FirstWords(n + m) \in Seq(Words) /\ Len(FirstWords(n + m)) = n + m
  BY <1>1 DEF FirstWords
<1>. DEFINE a == FirstWords(n)
            b == NextWords(n, m)
            c == FirstWords(n + m)
<1>5. /\ \A k \in 1 .. n : a[k] = k
      /\ \A k \in 1 .. m : b[k] = n + k
      /\ \A k \in 1 .. n + m : c[k] = k
  BY DEF FirstWords, NextWords
<1>. HIDE DEF a, b, c
<1>6. a \in Seq(Words) /\ Len(a) = n /\ b \in Seq(Words) /\ Len(b) = m
      /\ c \in Seq(Words) /\ Len(c) = n + m
  BY <1>2, <1>3, <1>4 DEF a, b, c
<1>7. /\ a \o b \in Seq(Words) /\ Len(a \o b) = n + m
      /\ \A k \in 1 .. n + m : (a \o b)[k] = IF k <= n THEN a[k] ELSE b[k - n]
  BY <1>6, ConcatProperties
<1>8. ASSUME NEW k \in 1 .. n + m PROVE (a \o b)[k] = c[k]
  <2>1. CASE k <= n
    BY <1>5, <1>7, <2>1
  <2>2. CASE ~(k <= n)
    <3>1. k - n \in 1 .. m
      BY <2>2
    <3>. QED
      BY <1>5, <1>7, <2>2, <3>1
  <2>. QED
    BY <2>1, <2>2
<1>9. a \o b = c
  BY <1>6, <1>7, <1>8, SeqEqual
<1>. QED
  BY <1>6, <1>9 DEF a, b, c

\* A buffer holds the next words of a stream if it does so word by word.
LEMMA BufferedWords ==
    ASSUME NEW b \in Seq(Words), NEW t \in Nat, t <= Len(b), NEW z \in Nat
    PROVE  SubSeq(b, 1, t) = NextWords(z, t) <=> \A k \in 1 .. t : b[k] = z + k
<1>1. SubSeq(b, 1, t) = Stretch(b, 0, t)
  BY SubSeqIsStretch
<1>2. Stretch(b, 0, t) = [k \in 1 .. t |-> b[k]]
  BY DEF Stretch
<1>. DEFINE f == [k \in 1 .. t |-> b[k]]
            g == NextWords(z, t)
<1>3. /\ f = [k \in 1 .. t |-> f[k]] /\ \A k \in 1 .. t : f[k] = b[k]
      /\ g = [k \in 1 .. t |-> g[k]] /\ \A k \in 1 .. t : g[k] = z + k
  BY DEF NextWords
<1>. HIDE DEF f, g
<1>4. f = g <=> \A k \in 1 .. t : f[k] = g[k]
  BY <1>3
<1>. QED
  BY <1>1, <1>2, <1>3, <1>4 DEF f, g

\* Some of the next m words of the stream, the first k, go to the file, and m count.
LEMMA FileGrows ==
    ASSUME NEW f \in Seq(Words), NEW z \in Nat, NEW m \in Nat, NEW k \in Nat, k <= m,
           z + m <= MaxWords, FileOf(f, z)
    PROVE  f \o NextWords(z, k) \in Seq(Words) /\ FileOf(f \o NextWords(z, k), z + m)
<1>. DEFINE w == NextWords(z, k)
            g == f \o w
            n == Len(f)
<1>0. z + k \in Nat /\ z + k <= MaxWords /\ MaxWords \in Nat
  BY ReadoutAssumption
<1>1. w \in Seq(Words) /\ Len(w) = k /\ (\A j \in 1 .. k : w[j] = z + j)
  <2>1. w \in Seq(Words)
    BY <1>0, FirstThenNext
  <2>. QED
    BY <2>1 DEF NextWords
<1>2. n \in Nat /\ DOMAIN f = 1 .. n /\ n <= z
  <2>1. n \in Nat /\ DOMAIN f = 1 .. n
    OBVIOUS
  <2>. QED
    BY <2>1 DEF FileOf
<1>3. /\ \A j \in 1 .. n : f[j] \in Nat /\ f[j] <= z
      /\ \A i, j \in 1 .. n : i < j => f[i] < f[j]
      /\ n = z => f = FirstWords(z)
  <2>1. \A j \in 1 .. n : f[j] \in Nat
    <3>. SUFFICES ASSUME NEW j \in 1 .. n PROVE f[j] \in Nat
      OBVIOUS
    <3>1. f[j] \in Words
      BY <1>2
    <3>. QED
      BY <1>0, <3>1 DEF Words
  <2>. QED
    BY <1>2, <2>1 DEF FileOf, Increasing
<1>. HIDE DEF w
<1>4. /\ g \in Seq(Words) /\ Len(g) = n + k
      /\ \A j \in 1 .. n + k : g[j] = IF j <= n THEN f[j] ELSE w[j - n]
  BY <1>1, ConcatProperties
<1>. HIDE DEF g, n
<1>5. DOMAIN g = 1 .. n + k
  <2>1. n + k \in Nat
    BY <1>2
  <2>. QED
    BY <1>4, <2>1
<1>6. ASSUME NEW j \in 1 .. n + k
      PROVE  /\ g[j] \in Nat /\ g[j] <= z + m
             /\ j <= n => g[j] = f[j] /\ g[j] <= z
             /\ j > n => g[j] = z + (j - n)
  <2>0. j \in Nat /\ 1 <= j /\ j <= n + k
    BY <1>2
  <2>1. CASE j <= n
    <3>1. j \in 1 .. n
      BY <1>2, <2>0, <2>1
    <3>2. g[j] = f[j] /\ f[j] \in Nat /\ f[j] <= z
      BY <1>3, <1>4, <2>1, <3>1
    <3>3. z <= z + m /\ ~(j > n)
      BY <1>2, <2>0, <2>1
    <3>4. f[j] <= z + m
      BY <3>2, <3>3
    <3>. QED
      BY <3>2, <3>3, <3>4
  <2>2. CASE j > n
    <3>1. j - n \in 1 .. k /\ ~(j <= n)
      BY <1>2, <2>0, <2>2
    <3>2. g[j] = z + (j - n)
      BY <1>1, <1>4, <3>1
    <3>3. z + (j - n) \in Nat /\ z + (j - n) <= z + m
      BY <3>1
    <3>. QED
      BY <3>1, <3>2, <3>3
  <2>. QED
    BY <1>2, <2>0, <2>1, <2>2
<1>7. ASSUME NEW i \in 1 .. n + k, NEW j \in 1 .. n + k, i < j PROVE g[i] < g[j]
  <2>0. i \in Nat /\ j \in Nat /\ 1 <= i /\ 1 <= j
    BY <1>2
  <2>1. CASE j <= n
    <3>1. i \in 1 .. n /\ j \in 1 .. n
      BY <1>2, <1>7, <2>0, <2>1
    <3>2. f[i] < f[j]
      BY <1>3, <1>7, <3>1
    <3>3. i <= n
      BY <1>2, <3>1
    <3>4. g[i] = f[i] /\ g[j] = f[j]
      BY <1>6, <2>1, <3>3
    <3>. QED
      BY <3>2, <3>4
  <2>2. CASE i <= n /\ j > n
    <3>1. g[i] <= z /\ g[j] = z + (j - n) /\ g[i] \in Nat
      BY <1>6, <2>2
    <3>2. j - n \in Nat /\ j - n > 0
      BY <1>2, <2>0, <2>2
    <3>. QED
      BY <3>1, <3>2
  <2>3. CASE i > n
    <3>1. j > n
      BY <1>2, <1>7, <2>0, <2>3
    <3>2. g[i] = z + (i - n) /\ g[j] = z + (j - n)
      BY <1>6, <2>3, <3>1
    <3>3. z + (i - n) < z + (j - n)
      BY <1>2, <1>7, <2>0
    <3>. QED
      BY <3>2, <3>3
  <2>. QED
    BY <1>2, <2>0, <2>1, <2>2, <2>3
<1>8. ASSUME Len(g) = z + m PROVE g = FirstWords(z + m)
  <2>1. n + k = z + m
    BY <1>4, <1>8
  <2>2. n = z /\ k = m
    BY <1>2, <2>1
  <2>3. f = FirstWords(z) /\ g = f \o NextWords(z, m)
    BY <1>3, <2>2 DEF g, w
  <2>. QED
    BY <2>3, FirstThenNext
<1>9. FileOf(g, z + m)
  <2>1. Len(g) <= z + m
    <3>1. n + k <= z + m
      BY <1>2
    <3>. QED
      BY <1>4, <3>1
  <2>2. Increasing(g)
    BY <1>5, <1>7 DEF Increasing
  <2>3. \A j \in DOMAIN g : g[j] <= z + m
    BY <1>5, <1>6
  <2>. QED
    BY <1>8, <2>1, <2>2, <2>3 DEF FileOf
<1>. QED
  BY <1>4, <1>9 DEF g, w

\* What is published is a sequence of words, and a packet more adds its words.
LEMMA PublishedAppends ==
    ASSUME NEW s, s.packets \in Seq([id : Nat, words : Seq(Words)]),
           NEW t, NEW id \in Nat, NEW w \in Seq(Words),
           t.packets = Append(s.packets, [id |-> id, words |-> w])
    PROVE  Published(s) \in Seq(Words) /\ Published(t) = Published(s) \o w
<1>. DEFINE q == s.packets
            e == [id |-> id, words |-> w]
            f == [k \in DOMAIN q |-> q[k].words]
            g == [k \in DOMAIN t.packets |-> t.packets[k].words]
<1>1. q \in Seq([id : Nat, words : Seq(Words)]) /\ e \in [id : Nat, words : Seq(Words)]
      /\ e.words = w /\ t.packets = Append(q, e)
  OBVIOUS
<1>2. Published(s) = FlattenSeq(f) /\ Published(t) = FlattenSeq(g)
  BY DEF Published
<1>. HIDE DEF q, e
<1>3. Len(q) \in Nat /\ DOMAIN q = 1 .. Len(q)
  BY <1>1
<1>4. /\ Len(Append(q, e)) = Len(q) + 1 /\ DOMAIN Append(q, e) = 1 .. Len(q) + 1
      /\ Append(q, e)[Len(q) + 1] = e /\ \A k \in 1 .. Len(q) : Append(q, e)[k] = q[k]
  BY <1>1, <1>3, AppendProperties
<1>5. ASSUME NEW k \in 1 .. Len(q) PROVE q[k].words \in Seq(Words)
  <2>1. q[k] \in [id : Nat, words : Seq(Words)]
    BY <1>1, ElementOfSeq
  <2>. QED
    BY <2>1
<1>6. f \in Seq(Seq(Words)) /\ Len(f) = Len(q)
  BY <1>3, <1>5
<1>7. /\ DOMAIN g = 1 .. Len(f) + 1 /\ g = [k \in DOMAIN g |-> g[k]]
      /\ \A k \in 1 .. Len(f) : g[k] = f[k]
      /\ g[Len(f) + 1] = w
  <2>1. DOMAIN g = 1 .. Len(q) + 1 /\ g = [k \in DOMAIN g |-> g[k]]
    BY <1>1, <1>4
  <2>2. ASSUME NEW k \in 1 .. Len(q) PROVE g[k] = f[k]
    <3>1. k \in DOMAIN q /\ k \in DOMAIN t.packets
      <4>1. k \in 1 .. Len(q) + 1
        BY <1>3
      <4>. QED
        BY <1>1, <1>3, <1>4, <4>1
    <3>2. g[k] = t.packets[k].words /\ f[k] = q[k].words
      BY <3>1
    <3>. QED
      BY <1>1, <1>4, <3>2
  <2>3. g[Len(q) + 1] = w
    <3>1. Len(q) + 1 \in DOMAIN t.packets
      BY <1>1, <1>3, <1>4
    <3>2. g[Len(q) + 1] = t.packets[Len(q) + 1].words
      BY <3>1
    <3>. QED
      BY <1>1, <1>4, <3>2
  <2>. HIDE DEF f, g
  <2>. QED
    BY <1>6, <2>1, <2>2, <2>3
<1>8. g = Append(f, w)
  <2>. HIDE DEF f, g
  <2>. QED
    BY <1>6, <1>7, AppendPointwise
<1>. HIDE DEF f, g
<1>. QED
  BY <1>2, <1>6, <1>8, FlattenType, FlattenAppend

LEMMA PublishedType ==
    ASSUME NEW s, s.packets \in Seq([id : Nat, words : Seq(Words)])
    PROVE  Published(s) \in Seq(Words)
<1>. DEFINE t == [packets |-> Append(s.packets, [id |-> 0, words |-> <<>>])]
<1>1. t.packets = Append(s.packets, [id |-> 0, words |-> <<>>])
  OBVIOUS
<1>2. <<>> \in Seq(Words)
  OBVIOUS
<1>. HIDE DEF t
<1>. QED
  BY <1>1, <1>2, PublishedAppends

\* The fields of a module's state that the streams are made of have their types.
LEMMA StreamFields ==
    ASSUME NEW s, Filled(s)
    PROVE  /\ s \in ModuleState /\ s.taken \in Nat /\ s.taken \in Words
           /\ s.buffer \in Seq(Words) /\ s.file \in Seq(Words) /\ s.payload \in Seq(Words)
           /\ s.filesize \in Nat
           /\ s.top \in Nat /\ s.position \in Nat /\ s.unread \in Nat /\ s.loaned \in BOOLEAN
           /\ s.top <= Len(s.buffer)
           /\ s.packets \in Seq([id : Nat, words : Seq(Words)])
           /\ Published(s) \in Seq(Words)
           /\ Slice(s, s.unread) \in Seq(Words)
           /\ SubSeq(s.buffer, 1, s.top) \in Seq(Words)
           /\ Len(SubSeq(s.buffer, 1, s.top)) = s.top
<1>1. /\ s \in ModuleState /\ s.taken \in Words
      /\ s.buffer \in Seq(Words) /\ s.file \in Seq(Words) /\ s.payload \in Seq(Words)
      /\ s.filesize \in Nat
      /\ s.top \in Nat /\ s.position \in Nat /\ s.unread \in Nat /\ s.loaned \in BOOLEAN
      /\ s.top <= Len(s.buffer)
      /\ s.packets \in Seq([id : Nat, words : Seq(Words)])
  BY DEF Filled, ModuleState
<1>2. s.taken \in Nat
  BY <1>1, TakenIsCount
<1>3. Published(s) \in Seq(Words)
  BY <1>1, PublishedType
<1>4. Slice(s, s.unread) \in Seq(Words)
  BY <1>1, SliceLength
<1>5. SubSeq(s.buffer, 1, s.top) \in Seq(Words) /\ Len(SubSeq(s.buffer, 1, s.top)) = s.top
  BY <1>1
<1>. QED
  BY <1>1, <1>2, <1>3, <1>4, <1>5

\* Nothing of a buffer, and nothing unread, is the empty sequence.
LEMMA NothingLeft ==
    ASSUME NEW s
    PROVE  /\ Slice(s, 0) = <<>>
           /\ \A b \in Seq(Words) : SubSeq(b, 1, 0) = <<>>
BY DEF Slice

\* CopyUnread keeps both streams: what was unread is in the payload.
LEMMA CopyUnreadStream ==
    ASSUME NEW s, Filled(s)
    PROVE  LET c == CopyUnread(s) IN
           /\ c.file = s.file /\ c.filesize = s.filesize
           /\ c.buffer = s.buffer /\ c.top = s.top /\ c.taken = s.taken
           /\ s.loaned => c.position = 0 /\ c.unread = 0
           /\ s.loaned /\ OnlineStream(s) => OnlineStream(c)
<1>. DEFINE c == CopyUnread(s)
            p == s.payload \o Slice(s, s.unread)
<1>1. s \in ModuleState
  BY DEF Filled
<1>2. CASE ~s.loaned
  BY <1>2 DEF CopyUnread
<1>3. CASE s.loaned
  <2>1. c = [taken |-> s.taken, buffer |-> s.buffer, top |-> s.top, position |-> 0, unread |-> 0,
             loaned |-> s.loaned, payload |-> p, file |-> s.file, filesize |-> s.filesize,
             packets |-> s.packets]
    BY <1>1, <1>3 DEF ModuleState, CopyUnread
  <2>2. /\ c.file = s.file /\ c.filesize = s.filesize /\ c.buffer = s.buffer /\ c.top = s.top /\ c.taken = s.taken
        /\ c.position = 0 /\ c.unread = 0 /\ c.payload = p /\ c.packets = s.packets
    <3>. HIDE DEF c, p
    <3>. QED
      BY <2>1
  <2>. HIDE DEF c
  <2>3. ASSUME OnlineStream(s) PROVE OnlineStream(c)
    <3>. DEFINE a == Published(s)
                b == s.payload
                d == Slice(s, s.unread)
    <3>1. a \in Seq(Words) /\ b \in Seq(Words) /\ d \in Seq(Words)
      BY StreamFields
    <3>2. Published(c) = a /\ Slice(c, c.unread) = <<>> /\ c.payload = b \o d
      BY <2>2, NothingLeft DEF Published
    <3>3. a \o b \o d = FirstWords(s.taken)
      BY <2>3 DEF OnlineStream
    <3>. HIDE DEF a, b, d
    <3>4. a \o (b \o d) \o <<>> = a \o b \o d
      BY <3>1, ConcatAssociative, ConcatEmptySeq
    <3>. QED
      BY <2>2, <3>2, <3>3, <3>4 DEF OnlineStream
  <2>. QED
    BY <2>2, <2>3 DEF c
<1>. QED
  BY <1>2, <1>3

\* SavetoFile keeps both streams: what was buffered counts as written, what the write
\* did not lose is in the file, and what is unread stays where it is.
LEMMA SavetoFileStream ==
    ASSUME NEW s, Filled(s), NEW lost \in Nat
    PROVE  LET c == SavetoFile(s, "file", lost) IN
           /\ c.top = 0
           /\ FileStream(s) => FileStream(c)
           /\ OnlineStream(s) => OnlineStream(c)
<1>. DEFINE c == SavetoFile(s, "file", lost)
            f == s.file \o Stored(s, lost)
            x == s.buffer
            z == s.filesize
            t == s.top
            k == IF lost <= t THEN t - lost ELSE 0
<1>1. s \in ModuleState
  BY DEF Filled
<1>2. c = [taken |-> s.taken, buffer |-> s.buffer, top |-> 0, position |-> s.position,
           unread |-> s.unread, loaned |-> s.loaned, payload |-> s.payload, file |-> f,
           filesize |-> z + t, packets |-> s.packets]
  <2>. HIDE DEF f
  <2>. QED
    BY <1>1 DEF ModuleState, SavetoFile, f
<1>3. /\ c.taken = s.taken /\ c.buffer = x /\ c.top = 0 /\ c.position = s.position
      /\ c.unread = s.unread /\ c.payload = s.payload /\ c.file = f /\ c.packets = s.packets
      /\ c.filesize = z + t
  <2>. HIDE DEF c, f
  <2>. QED
    BY <1>2
<1>. HIDE DEF c
<1>4. /\ x \in Seq(Words) /\ t \in Nat /\ t <= Len(x) /\ z \in Nat /\ s.file \in Seq(Words)
      /\ s.taken \in Nat /\ s.taken <= MaxWords
  BY StreamFields, TakenIsCount
<1>5. k \in Nat /\ k <= t /\ Stored(s, lost) = SubSeq(x, 1, k)
  BY <1>4 DEF Stored
<1>. HIDE DEF f, x, z, t, k
<1>6. ASSUME FileStream(s) PROVE FileStream(c)
  <2>1. /\ z + t = s.taken /\ SubSeq(x, 1, t) = NextWords(z, t)
        /\ FileOf(s.file, z)
    BY <1>6 DEF FileStream, FileOf, x, z, t
  <2>2. SubSeq(x, 1, k) = NextWords(z, k)
    <3>1. \A j \in 1 .. t : x[j] = z + j
      BY <1>4, <2>1, BufferedWords
    <3>2. \A j \in 1 .. k : x[j] = z + j
      BY <1>4, <1>5, <3>1
    <3>3. k <= Len(x)
      <4>1. Len(x) \in Nat
        BY <1>4
      <4>. QED
        BY <1>4, <1>5, <4>1
    <3>. QED
      BY <1>4, <1>5, <3>2, <3>3, BufferedWords
  <2>3. FileOf(f, z + t)
    <3>1. f = s.file \o NextWords(z, k)
      BY <1>5, <2>2 DEF f
    <3>. QED
      BY <1>4, <1>5, <2>1, <3>1, FileGrows
  <2>4. SubSeq(c.buffer, 1, c.top) = NextWords(c.filesize, c.top)
    <3>1. SubSeq(x, 1, 0) = <<>>
      BY <1>4, NothingLeft
    <3>2. NextWords(c.filesize, 0) = <<>>
      BY DEF NextWords
    <3>. QED
      BY <1>3, <3>1, <3>2
  <2>5. c.filesize + c.top = c.taken
    BY <1>3, <1>4, <2>1
  <2>. QED
    BY <1>3, <2>3, <2>4, <2>5 DEF FileStream, FileOf
<1>7. ASSUME OnlineStream(s) PROVE OnlineStream(c)
  <2>1. Published(c) = Published(s) /\ Slice(c, c.unread) = Slice(s, s.unread)
    BY <1>3 DEF Published, Slice, x
  <2>. QED
    BY <1>3, <1>7, <2>1 DEF OnlineStream
<1>. QED
  BY <1>3, <1>6, <1>7 DEF c

\* A slice of the buffer is a stretch of it.
LEMMA SliceIsStretch ==
    ASSUME NEW s, s.buffer \in Seq(Words), s.position \in Nat, NEW n \in Nat,
           s.position + n <= Len(s.buffer)
    PROVE  Slice(s, n) = Stretch(s.buffer, s.position, n)
<1>1. \A k \in 1 .. n : s.position + k <= Len(s.buffer)
  OBVIOUS
<1>. QED
  BY <1>1 DEF Slice, Stretch

\* The n words that are read come on top of the buffer, which is as it was below.
LEMMA ReadFIFOBuffer ==
    ASSUME NEW s, Filled(s), NEW n \in Nat, s.taken + n <= MaxWords
    PROVE  LET c == ReadFIFO(s, n, TRUE)
               w == NextWords(s.taken, n) IN
           /\ c.buffer \in Seq(Words) /\ s.top + n <= Len(c.buffer)
           /\ \A k \in 1 .. s.top : c.buffer[k] = s.buffer[k]
           /\ Stretch(c.buffer, s.top, n) = w
           /\ w \in Seq(Words) /\ Len(w) = n
           /\ c.top = s.top + n /\ c.unread = s.unread + n /\ c.taken = s.taken + n
           /\ c.position = s.position /\ c.payload = s.payload /\ c.file = s.file
           /\ c.packets = s.packets /\ c.filesize = s.filesize
<1>. DEFINE w == NextWords(s.taken, n)
            r == SubSeq(s.buffer, s.top + n + 1, Len(s.buffer))
            b == SubSeq(s.buffer, 1, s.top) \o w \o r
            c == ReadFIFO(s, n, TRUE)
<1>1. /\ s \in ModuleState /\ s.buffer \in Seq(Words) /\ s.taken \in Nat
      /\ s.top \in Nat /\ s.top <= Len(s.buffer)
  BY StreamFields
<1>2. w \in Seq(Words) /\ Len(w) = n
  <2>1. w \in Seq(Words)
    BY <1>1, FirstThenNext
  <2>. QED
    BY <2>1 DEF NextWords
<1>3. r \in Seq(Words)
  BY <1>1
<1>4. c = [s EXCEPT !.buffer = b, !.top = @ + n, !.unread = @ + n, !.taken = @ + n]
  BY DEF ReadFIFO, NextWords
<1>. HIDE DEF w, r
<1>5. /\ b \in Seq(Words) /\ s.top + n <= Len(b)
      /\ \A k \in 1 .. s.top : b[k] = s.buffer[k]
      /\ Stretch(b, s.top, n) = w
  <2>. DEFINE x == s.buffer
              t == s.top
  <2>1. /\ x \in Seq(Words) /\ t \in Nat /\ t <= Len(x) /\ w \in Seq(Words) /\ r \in Seq(Words)
        /\ Len(w) = n /\ b = SubSeq(x, 1, t) \o w \o r
    BY <1>1, <1>2, <1>3
  <2>. HIDE DEF x, t
  <2>2. /\ b \in Seq(Words) /\ t + Len(w) <= Len(b)
        /\ \A k \in 1 .. t : b[k] = x[k]
        /\ Stretch(b, t, Len(w)) = w
    <3>. DEFINE d == SubSeq(x, 1, t) \o w \o r
    <3>1. /\ d \in Seq(Words) /\ t + Len(w) <= Len(d)
          /\ \A k \in 1 .. t : d[k] = x[k]
          /\ Stretch(d, t, Len(w)) = w
      <4>1. x \in Seq(Words) /\ t \in Nat /\ t <= Len(x) /\ w \in Seq(Words) /\ r \in Seq(Words)
        BY <2>1
      <4>. QED
        BY <4>1, WrittenOnTop
    <3>2. b = d
      BY <2>1
    <3>. HIDE DEF b, d
    <3>. QED
      BY <3>1, <3>2
  <2>. QED
    BY <2>1, <2>2 DEF x, t
<1>. HIDE DEF b, c
<1>6. /\ c.buffer = b
      /\ c.top = s.top + n /\ c.unread = s.unread + n /\ c.taken = s.taken + n
      /\ c.position = s.position /\ c.payload = s.payload /\ c.file = s.file
      /\ c.packets = s.packets /\ c.filesize = s.filesize
  BY <1>1, <1>4 DEF ModuleState
<1>. QED
  BY <1>2, <1>5, <1>6 DEF c, w

\* ReadFIFO makes both streams n words longer.
LEMMA ReadFIFOStream ==
    ASSUME NEW s, Filled(s), NEW n \in Nat, s.taken + n <= MaxWords
    PROVE  LET c == ReadFIFO(s, n, TRUE) IN
           /\ UnreadToTop(s) => UnreadToTop(c)
           /\ FileStream(s) => FileStream(c)
           /\ UnreadToTop(s) /\ OnlineStream(s) => OnlineStream(c)
<1>. DEFINE c == ReadFIFO(s, n, TRUE)
            w == NextWords(s.taken, n)
            x == s.buffer
            y == c.buffer
            t == s.top
<1>1. /\ y \in Seq(Words) /\ t + n <= Len(y)
      /\ \A k \in 1 .. t : y[k] = x[k]
      /\ Stretch(y, t, n) = w
      /\ w \in Seq(Words) /\ Len(w) = n
  BY ReadFIFOBuffer
<1>2. /\ c.top = t + n /\ c.unread = s.unread + n /\ c.taken = s.taken + n
      /\ c.position = s.position /\ c.payload = s.payload /\ c.file = s.file
      /\ c.packets = s.packets /\ c.filesize = s.filesize
  BY ReadFIFOBuffer
<1>3. /\ s.taken \in Nat /\ t \in Nat /\ s.position \in Nat /\ s.unread \in Nat
      /\ t <= Len(x) /\ x \in Seq(Words) /\ Len(x) \in Nat /\ Len(y) \in Nat
  <2>1. Len(y) \in Nat
    <3>. HIDE DEF y
    <3>. QED
      BY <1>1
  <2>2. x \in Seq(Words) /\ t \in Nat /\ t <= Len(x) /\ s.taken \in Nat
        /\ s.position \in Nat /\ s.unread \in Nat
    BY StreamFields
  <2>. HIDE DEF x, y, t
  <2>3. Len(x) \in Nat
    BY <2>2
  <2>. QED
    BY <2>1, <2>2, <2>3
<1>4. /\ s.filesize \in Nat /\ s.payload \in Seq(Words) /\ Published(s) \in Seq(Words)
  BY StreamFields
<1>5. FirstWords(s.taken + n) = FirstWords(s.taken) \o w
  BY <1>3, FirstThenNext
<1>. HIDE DEF c, w, x, y, t
<1>6. ASSUME FileStream(s) PROVE FileStream(c)
  <2>. DEFINE z == s.filesize
  <2>1. z \in Nat /\ z + t = s.taken /\ SubSeq(x, 1, t) = NextWords(z, t)
    BY <1>4, <1>6 DEF FileStream, x, t
  <2>. HIDE DEF z
  <2>2. \A k \in 1 .. t : y[k] = z + k
    <3>1. \A k \in 1 .. t : x[k] = z + k
      BY <1>3, <2>1, BufferedWords
    <3>. QED
      BY <1>1, <3>1
  <2>3. ASSUME NEW k \in 1 .. t + n PROVE y[k] = z + k
    <3>1. CASE k <= t
      <4>1. k \in 1 .. t
        BY <1>3, <3>1
      <4>. QED
        BY <2>2, <4>1
    <3>2. CASE k > t
      <4>. DEFINE j == k - t
      <4>1. j \in 1 .. n /\ t + j = k
        BY <1>3, <3>2
      <4>2. Stretch(y, t, n)[j] = y[t + j]
        BY <4>1 DEF Stretch
      <4>3. w[j] = s.taken + j
        BY <4>1 DEF w, NextWords
      <4>. HIDE DEF j
      <4>4. y[k] = s.taken + j
        BY <1>1, <4>1, <4>2, <4>3
      <4>5. j \in Nat /\ k \in Nat
        BY <1>3, <4>1
      <4>6. s.taken + j = z + k
        <5>. DEFINE v == s.taken
        <5>1. v \in Nat /\ z + t = v /\ t \in Nat
          BY <1>3, <2>1
        <5>. HIDE DEF v
        <5>2. v + j = z + k
          BY <2>1, <4>1, <4>5, <5>1
        <5>. QED
          BY <5>2 DEF v
      <4>. QED
        BY <4>4, <4>6
    <3>. QED
      BY <1>3, <3>1, <3>2
  <2>4. SubSeq(y, 1, t + n) = NextWords(z, t + n)
    <3>1. t + n \in Nat
      BY <1>3
    <3>. QED
      BY <1>1, <2>1, <2>3, <3>1, BufferedWords
  <2>5. c.buffer = y /\ c.top = t + n /\ c.filesize = z /\ c.taken = s.taken + n /\ c.file = s.file
    BY <1>2 DEF y, z
  <2>6. c.filesize + c.top = c.taken
    BY <1>3, <2>1, <2>5
  <2>7. FileOf(s.file, z)
    BY <1>6 DEF FileStream, FileOf, z
  <2>. QED
    BY <2>4, <2>5, <2>6, <2>7 DEF FileStream, FileOf
<1>7. ASSUME UnreadToTop(s), OnlineStream(s) PROVE OnlineStream(c)
  <2>. DEFINE o == s.position
              u == s.unread
              d == Stretch(x, o, u)
              m == Published(s) \o s.payload
  <2>1. o \in Nat /\ u \in Nat /\ o + u = t
    BY <1>3, <1>7 DEF UnreadToTop, t
  <2>2. m \in Seq(Words)
    BY <1>4
  <2>3. d \in Seq(Words) /\ Slice(s, u) = d
    <3>1. d \in Seq(Words)
      BY <1>3, <2>1, StretchType
    <3>2. o + u <= Len(s.buffer) /\ s.buffer \in Seq(Words)
      BY <1>3, <2>1 DEF x
    <3>. QED
      BY <2>1, <3>1, <3>2, SliceIsStretch DEF x
  <2>4. Slice(c, u + n) = Stretch(y, o, u + n)
    <3>1. c.position = o /\ c.buffer = y
      BY <1>2 DEF y
    <3>2. o + (u + n) <= Len(y) /\ u + n \in Nat
      BY <1>1, <1>3, <2>1
    <3>. HIDE DEF o, u
    <3>. QED
      BY <1>1, <2>1, <3>1, <3>2, SliceIsStretch
  <2>5. Published(c) = Published(s) /\ c.payload = s.payload /\ c.unread = u + n
    BY <1>2 DEF Published
  <2>6. m \o d = FirstWords(s.taken)
    BY <1>7, <2>3 DEF OnlineStream
  <2>. HIDE DEF d, m, o, u
  <2>7. Stretch(y, o, u + n) = Stretch(y, o, u) \o Stretch(y, t, n)
    <3>1. o + u + n <= Len(y)
      BY <1>1, <1>3, <2>1
    <3>2. y \in Seq(Words) /\ o \in Nat /\ u \in Nat /\ n \in Nat /\ o + u = t
      BY <1>1, <2>1
    <3>3. Splits(y, o, u, n)
      BY <3>1, <3>2, StretchAfterStretch
    <3>. QED
      BY <3>2, <3>3 DEF Splits
  <2>8. Stretch(y, o, u) = d
    <3>1. \A k \in o + 1 .. o + u : k \in 1 .. t
      BY <2>1
    <3>2. \A k \in o + 1 .. o + u : y[k] = x[k]
      BY <1>1, <3>1
    <3>. QED
      BY <2>1, <3>2, StretchAgrees DEF d
  <2>9. Slice(c, c.unread) = d \o w
    BY <1>1, <2>4, <2>5, <2>7, <2>8
  <2>10. m \o (d \o w) = m \o d \o w
    BY <1>1, <2>2, <2>3, ConcatAssociative
  <2>. QED
    BY <1>2, <1>5, <2>5, <2>6, <2>9, <2>10 DEF OnlineStream, m
<1>8. ASSUME UnreadToTop(s) PROVE UnreadToTop(c)
  BY <1>2, <1>3, <1>8 DEF UnreadToTop, t
<1>. QED
  BY <1>6, <1>7, <1>8 DEF c

\* PublishPacket keeps both streams: the words of the packet were in the payload and
\* the first of the unread ones.
LEMMA PublishPacketStream ==
    ASSUME NEW s, Filled(s), NEW id \in Nat
    PROVE  LET c == PublishPacket(s, id) IN
           /\ c.taken = s.taken
           /\ FileStream(s) => FileStream(c)
           /\ UnreadToTop(s) => UnreadToTop(c)
           /\ UnreadToTop(s) /\ OnlineStream(s) => OnlineStream(c)
<1>. DEFINE c == PublishPacket(s, id)
<1>1. CASE ~s.loaned \/ Outgrown(s)
  BY <1>1 DEF PublishPacket
<1>2. CASE s.loaned /\ ~Outgrown(s)
  <2>. DEFINE n == CopyWords(s)
              q == Slice(s, n)
              w == s.payload \o q
              o == s.position
              u == s.unread
              x == s.buffer
  <2>1. /\ s \in ModuleState /\ o \in Nat /\ u \in Nat /\ x \in Seq(Words)
        /\ s.payload \in Seq(Words) /\ Published(s) \in Seq(Words)
        /\ s.packets \in Seq([id : Nat, words : Seq(Words)])
        /\ s.top \in Nat /\ s.top <= Len(x)
    BY StreamFields
  <2>2. n \in Nat /\ u - n \in Nat
    <3>1. Len(s.payload) \in Nat
      BY <2>1
    <3>. QED
      BY <1>2, <2>1, <3>1, ReadoutAssumption DEF CopyWords, Outgrown
  <2>3. q \in Seq(Words)
    BY <2>1, <2>2, SliceLength
  <2>4. w \in Seq(Words)
    <3>. HIDE DEF q
    <3>. QED
      BY <2>1, <2>3
  <2>5. c = [s EXCEPT !.position = @ + n, !.unread = @ - n,
                      !.packets = Append(@, [id |-> id, words |-> w]),
                      !.loaned = FALSE, !.payload = <<>>]
    BY <1>2 DEF PublishPacket
  <2>. HIDE DEF c, n, w, q
  <2>6. /\ c.taken = s.taken /\ c.file = s.file /\ c.buffer = x /\ c.top = s.top
        /\ c.filesize = s.filesize
        /\ c.position = o + n /\ c.unread = u - n /\ c.payload = <<>>
        /\ c.packets = Append(s.packets, [id |-> id, words |-> w])
    BY <2>1, <2>5 DEF ModuleState
  <2>7. Published(c) = Published(s) \o w
    <3>1. c.packets = Append(s.packets, [id |-> id, words |-> w])
      BY <2>6
    <3>2. s.packets \in Seq([id : Nat, words : Seq(Words)]) /\ w \in Seq(Words)
      BY <2>1, <2>4
    <3>. HIDE DEF w
    <3>. QED
      BY <3>1, <3>2, PublishedAppends, ZenonT(60)
  <2>8. ASSUME UnreadToTop(s) PROVE UnreadToTop(c)
    BY <2>1, <2>2, <2>6, <2>8 DEF UnreadToTop
  <2>9. ASSUME UnreadToTop(s), OnlineStream(s) PROVE OnlineStream(c)
    <3>. DEFINE l == s.payload
                p == Published(s)
                r == Stretch(x, o + n, u - n)
    <3>. HIDE DEF o, u, x
    <3>1. o + u <= Len(x) /\ Len(x) \in Nat
      <4>1. Len(x) \in Nat
        BY <2>1
      <4>. QED
        BY <2>1, <2>9, <4>1 DEF UnreadToTop, o, u
    <3>2. q = Stretch(x, o, n)
      <4>1. o + n <= Len(x)
        BY <2>1, <2>2, <3>1
      <4>. QED
        BY <2>1, <2>2, <4>1, SliceIsStretch DEF q, x, o
    <3>3. Slice(s, s.unread) = Stretch(x, o, u)
      BY <2>1, <3>1, SliceIsStretch DEF x, o, u
    <3>4. Slice(c, c.unread) = r /\ r \in Seq(Words)
      <4>1. (o + n) + (u - n) <= Len(x) /\ o + n \in Nat
        BY <2>1, <2>2, <3>1
      <4>2. c.buffer = x /\ c.position = o + n /\ c.unread = u - n
        BY <2>6
      <4>3. r \in Seq(Words)
        BY <2>1, <2>2, <4>1, StretchType
      <4>. QED
        BY <2>1, <2>2, <4>1, <4>2, <4>3, SliceIsStretch
    <3>5. Stretch(x, o, u) = q \o r
      <4>. DEFINE m == u - n
      <4>1. m \in Nat /\ o + n + m <= Len(x) /\ n + m = u
        BY <2>1, <2>2, <3>1
      <4>2. Stretch(x, o + n, m) = r
        BY DEF r
      <4>. HIDE DEF m, r
      <4>3. Stretch(x, o, n + m) = Stretch(x, o, n) \o Stretch(x, o + n, m)
        <5>1. x \in Seq(Words) /\ o \in Nat /\ n \in Nat
          BY <2>1, <2>2 DEF x, o
        <5>2. Splits(x, o, n, m)
          BY <4>1, <5>1, StretchAfterStretch
        <5>. QED
          BY <5>2 DEF Splits
      <4>. QED
        BY <3>2, <4>1, <4>2, <4>3
    <3>6. p \in Seq(Words) /\ l \in Seq(Words)
      BY <2>1
    <3>7. p \o l \o (q \o r) = FirstWords(s.taken)
      BY <2>9, <3>3, <3>5 DEF OnlineStream
    <3>. HIDE DEF l, p, r
    <3>8. (p \o (l \o q)) \o <<>> \o r = p \o l \o (q \o r)
      <4>1. q \in Seq(Words) /\ r \in Seq(Words)
        BY <2>3, <3>4
      <4>. HIDE DEF q
      <4>2. Regrouped(p, l, q, r)
        BY <3>6, <4>1, Regroup
      <4>. QED
        BY <4>2, Zenon DEF Regrouped
    <3>. QED
      BY <2>6, <2>7, <3>4, <3>7, <3>8 DEF OnlineStream, w, p, l
  <2>10. FileStream(s) => FileStream(c)
    BY <2>6 DEF FileStream
  <2>. QED
    BY <2>6, <2>8, <2>9, <2>10 DEF c
<1>. QED
  BY <1>1, <1>2

\* What a step does to a module that has what it needs keeps the streams.
StreamsKept(s, c) ==
    /\ FileStream(s) => FileStream(c)
    /\ s.loaned /\ UnreadToTop(s) /\ OnlineStream(s) => UnreadToTop(c) /\ OnlineStream(c)

\* The second loop of ReadDataFromModules keeps the streams, and takes all the words it
\* counted, if it takes any.
ReadKeepsStreams(s, n, thres, group_read, id, lost) ==
    LET r == ReadModule(s, n, TRUE, thres, group_read, id, "file", lost) IN
    /\ StreamsKept(s, r)
    /\ group_read \/ n > thres \/ n = 0 => r.taken = s.taken + n

LEMMA ReadModuleStream ==
    ASSUME NEW s, Filled(s), NEW n \in Nat, s.taken + n <= MaxWords,
           NEW thres \in Nat, NEW group_read \in BOOLEAN, NEW id \in Nat,
           NEW lost \in Nat
    PROVE  ReadKeepsStreams(s, n, thres, group_read, id, lost)
<1>. DEFINE read == group_read \/ n > thres
            full == read /\ BufferFull(s, n)
            v == IF full THEN SavetoFile(CopyUnread(s), "file", lost) ELSE s
            f == IF read /\ n > 0 THEN ReadFIFO(v, n, TRUE) ELSE v
            r == IF group_read THEN PublishPacket(f, id) ELSE f
<1>1. ReadModule(s, n, TRUE, thres, group_read, id, "file", lost) = r
  BY DEF ReadModule
<1>2. Filled(v) /\ v.taken = s.taken /\ StreamsKept(s, v)
  <2>1. CASE ~full
    BY <2>1 DEF StreamsKept
  <2>2. CASE full
    <3>. DEFINE c == CopyUnread(s)
                d == SavetoFile(c, "file", lost)
    <3>1. /\ Filled(c) /\ c.taken = s.taken /\ c.file = s.file /\ c.buffer = s.buffer
          /\ c.top = s.top /\ c.filesize = s.filesize
      BY CopyUnreadState, CopyUnreadStream
    <3>2. s.loaned => c.position = 0 /\ c.unread = 0
      BY CopyUnreadStream
    <3>3. s.loaned /\ OnlineStream(s) => OnlineStream(c)
      BY CopyUnreadStream
    <3>4. FileStream(s) => FileStream(c)
      BY <3>1 DEF FileStream
    <3>. HIDE DEF c
    <3>5. /\ Filled(d) /\ d.taken = c.taken /\ d.top = 0
          /\ d.unread = c.unread /\ d.position = c.position
      BY <3>1, SavetoFileState, SavetoFileStream
    <3>6. (FileStream(c) => FileStream(d)) /\ (OnlineStream(c) => OnlineStream(d))
      BY <3>1, SavetoFileStream
    <3>7. v = d
      BY <2>2 DEF c
    <3>. HIDE DEF v, d
    <3>. QED
      BY <3>1, <3>2, <3>3, <3>4, <3>5, <3>6, <3>7 DEF StreamsKept, UnreadToTop
  <2>. QED
    BY <2>1, <2>2
<1>. HIDE DEF v
<1>3. /\ Filled(f) /\ StreamsKept(s, f)
      /\ f.taken = IF read /\ n > 0 THEN s.taken + n ELSE s.taken
  <2>1. CASE ~(read /\ n > 0)
    BY <1>2, <2>1
  <2>2. CASE read /\ n > 0
    <3>. DEFINE c == ReadFIFO(v, n, TRUE)
    <3>1. v.taken + n <= MaxWords
      BY <1>2
    <3>2. Filled(c) /\ c.taken = v.taken + n
      BY <1>2, <3>1, ReadFIFOState
    <3>3. /\ UnreadToTop(v) => UnreadToTop(c)
          /\ FileStream(v) => FileStream(c)
          /\ UnreadToTop(v) /\ OnlineStream(v) => OnlineStream(c)
      BY <1>2, <3>1, ReadFIFOStream
    <3>4. f = c
      BY <2>2
    <3>. HIDE DEF c, f
    <3>. QED
      BY <1>2, <2>2, <3>2, <3>3, <3>4 DEF StreamsKept
  <2>. QED
    BY <2>1, <2>2
<1>. HIDE DEF f
<1>4. r.taken = f.taken /\ StreamsKept(s, r)
  <2>1. CASE ~group_read
    BY <1>3, <2>1
  <2>2. CASE group_read
    <3>. DEFINE c == PublishPacket(f, id)
    <3>1. /\ c.taken = f.taken
          /\ FileStream(f) => FileStream(c)
          /\ UnreadToTop(f) => UnreadToTop(c)
          /\ UnreadToTop(f) /\ OnlineStream(f) => OnlineStream(c)
      BY <1>3, PublishPacketStream
    <3>2. r = c
      BY <2>2
    <3>. HIDE DEF c, r
    <3>. QED
      BY <1>3, <3>1, <3>2 DEF StreamsKept
  <2>. QED
    BY <2>1, <2>2
<1>5. s.taken \in Nat
  BY StreamFields
<1>6. group_read \/ n > thres \/ n = 0 => r.taken = s.taken + n
  <2>. HIDE DEF r
  <2>1. CASE n = 0
    BY <1>3, <1>4, <1>5, <2>1
  <2>2. CASE n > 0
    BY <1>3, <1>4, <2>2
  <2>. QED
    BY <2>1, <2>2
<1>. HIDE DEF r
<1>. QED
  BY <1>1, <1>4, <1>6 DEF ReadKeepsStreams

\* CloseModule keeps the streams: the rest of the buffer goes to the file, the payload
\* to the packets.
LEMMA CloseModuleStream ==
    ASSUME NEW s, Filled(s), NEW id \in Nat, NEW lost \in Nat
    PROVE  LET c == CloseModule(s, id, "file", lost) IN
           /\ c.taken = s.taken /\ c.top = 0
           /\ FileStream(s) => FileStream(c)
           /\ OnlineStream(s) => OnlineStream(c)
<1>. DEFINE v == SavetoFile(s, "file", lost)
            c == CloseModule(s, id, "file", lost)
<1>1. /\ Filled(v) /\ v.taken = s.taken /\ v.top = 0 /\ v.loaned = s.loaned
      /\ v.payload = s.payload
  BY SavetoFileState
<1>2. /\ FileStream(s) => FileStream(v)
      /\ OnlineStream(s) => OnlineStream(v)
  BY SavetoFileStream
<1>3. CASE ~s.loaned
  <2>1. c = v
    BY <1>3 DEF CloseModule
  <2>. QED
    BY <1>1, <1>2, <2>1
<1>4. CASE s.loaned
  <2>1. c = [v EXCEPT !.packets = Append(@, [id |-> id, words |-> s.payload]),
                      !.loaned = FALSE, !.payload = <<>>]
    BY <1>4 DEF CloseModule
  <2>2. /\ v \in ModuleState /\ v.payload \in Seq(Words)
        /\ v.packets \in Seq([id : Nat, words : Seq(Words)])
        /\ Published(v) \in Seq(Words) /\ Slice(v, v.unread) \in Seq(Words)
    <3>. HIDE DEF v
    <3>. QED
      BY <1>1, StreamFields
  <2>. HIDE DEF c, v
  <2>3. /\ c.taken = v.taken /\ c.file = v.file /\ c.buffer = v.buffer /\ c.top = v.top
        /\ c.filesize = v.filesize
        /\ c.position = v.position /\ c.unread = v.unread /\ c.payload = <<>>
        /\ c.packets = Append(v.packets, [id |-> id, words |-> v.payload])
    BY <1>1, <2>1, <2>2 DEF ModuleState
  <2>4. FileStream(v) => FileStream(c)
    BY <2>3 DEF FileStream
  <2>5. ASSUME OnlineStream(v) PROVE OnlineStream(c)
    <3>. DEFINE p == Published(v)
                l == v.payload
                z == p \o l
    <3>1. Published(c) = p \o l
      <4>1. c.packets = Append(v.packets, [id |-> id, words |-> v.payload])
        BY <2>3
      <4>. QED
        BY <2>2, <4>1, PublishedAppends
    <3>2. z \in Seq(Words)
      BY <2>2
    <3>3. Slice(c, c.unread) = Slice(v, v.unread)
      BY <2>3 DEF Slice
    <3>. HIDE DEF z
    <3>4. z \o <<>> = z
      BY <3>2, ConcatEmptySeq
    <3>. QED
      BY <2>3, <2>5, <3>1, <3>3, <3>4 DEF OnlineStream, z
  <2>. QED
    BY <1>1, <1>2, <2>3, <2>4, <2>5 DEF c
<1>. QED
  BY <1>3, <1>4

\* Reading a FIFO, and querying it, never fails.
ReadsSucceed == "read" \notin Faults
ChecksSucceed == "check" \notin Faults

\* Loaning a payload changes nothing that a stream is made of.
LEMMA AllocateStream ==
    ASSUME NEW i \in Modules, Filled(mod[i]), NEW loan \in [Modules -> BOOLEAN]
    PROVE  LET a == AllocatePayload(i, loan) IN
           /\ Filled(a) /\ a.taken = mod[i].taken
           /\ loan[i] => a.loaned
           /\ UnreadToTop(mod[i]) <=> UnreadToTop(a)
           /\ FileStream(mod[i]) <=> FileStream(a)
           /\ OnlineStream(mod[i]) <=> OnlineStream(a)
<1>. DEFINE s == mod[i]
            a == AllocatePayload(i, loan)
<1>3. /\ a.taken = s.taken /\ a.buffer = s.buffer /\ a.top = s.top /\ a.packets = s.packets
      /\ a.payload = s.payload /\ a.unread = s.unread /\ a.position = s.position
      /\ a.file = s.file /\ a.filesize = s.filesize
  BY AllocateState
<1>5. Filled(a) /\ (loan[i] => a.loaned)
  BY AllocateState
<1>. HIDE DEF s, a
<1>7. (UnreadToTop(s) <=> UnreadToTop(a)) /\ (FileStream(s) <=> FileStream(a))
  BY <1>3 DEF UnreadToTop, FileStream
<1>8. OnlineStream(s) <=> OnlineStream(a)
  <2>1. Published(a) = Published(s) /\ Slice(a, a.unread) = Slice(s, s.unread)
    BY <1>3 DEF Published, Slice
  <2>. QED
    BY <1>3, <2>1 DEF OnlineStream
<1>. QED
  BY <1>3, <1>5, <1>7, <1>8 DEF s, a

\* A pass keeps the streams of every module; the last one, with nothing failing, takes
\* all that was produced.
LEMMA PassStreams ==
    ASSUME IInv, recorded, ReadsSucceed, phase \in {"running", "ending"},
           NEW endofrun \in BOOLEAN,
           NEW loan \in Outcomes("alloc"), NEW fifo \in Outcomes("read"),
           NEW pass \in PassOutcomes(endofrun, loan, fifo), NEW i \in Modules
    PROVE  /\ FileStream(mod[i]) => FileStream(pass.mod[i])
           /\ AlwaysLoaned /\ UnreadToTop(mod[i]) /\ OnlineStream(mod[i])
                 => UnreadToTop(pass.mod[i]) /\ OnlineStream(pass.mod[i])
           /\ endofrun /\ ChecksSucceed /\ pass.alive => pass.mod[i].taken = produced[i]
<1>1. /\ loan \in [Modules -> BOOLEAN]
      /\ AlwaysLoaned => \A j \in Modules : loan[j]
  BY OutcomeTypes
<1>2. fifo[i] = TRUE /\ FileTarget = "file"
  BY DEF Outcomes, ReadsSucceed, IInv, HasFile
<1>. DEFINE a == AllocatePayload(i, loan)
            n == nwords(i)
            g == GroupRead(i)
            id == packet_id[GroupIndex[i]]
            t == Thres(endofrun)
<1>3. /\ Filled(a) /\ a.taken = mod[i].taken /\ (loan[i] => a.loaned)
      /\ UnreadToTop(mod[i]) <=> UnreadToTop(a)
      /\ FileStream(mod[i]) <=> FileStream(a)
      /\ OnlineStream(mod[i]) <=> OnlineStream(a)
  <2>1. Filled(mod[i])
    BY DEF IInv, FifoInv
  <2>. QED
    BY <1>1, <2>1, AllocateStream
<1>4. n \in Nat /\ mod[i].taken \in Nat /\ mod[i].taken + n = produced[i] /\ produced[i] <= MaxWords
  <2>1. mod[i].taken \in Nat /\ produced[i] \in Nat /\ produced[i] <= MaxWords
    BY TakenIsCount DEF IInv, TypeOK
  <2>2. mod[i].taken <= produced[i]
    BY DEF IInv, FifoInv
  <2>. QED
    BY <2>1, <2>2 DEF nwords
<1>5. t \in Nat /\ g \in BOOLEAN /\ id \in Nat /\ (endofrun => t = 0)
  <2>1. t \in Nat /\ (endofrun => t = 0)
    BY ReadoutAssumption DEF Thres
  <2>2. id \in Nat
    BY DEF IInv, TypeOK, Groups
  <2>. QED
    BY <2>1, <2>2 DEF GroupRead
<1>6. PICK lost \in [Modules -> Nat], k \in Modules :
        \/ pass = AfterPass(loan, fifo, Thres(endofrun), lost)
        \/ pass = AfterFailedCheck(loan, k) /\ ~ChecksSucceed
        \/ pass = DeadPass
  <2>1. 0 \in Modules /\ [j \in Modules |-> 0] \in [Modules -> Nat]
    BY ReadoutAssumption DEF Modules
  <2>2. Losses \subseteq [Modules -> Nat]
    BY OutcomeTypes
  <2>. QED
    BY <2>1, <2>2 DEF PassOutcomes, ChecksSucceed
<1>. DEFINE r == ReadModule(a, n, TRUE, t, g, id, "file", lost[i])
<1>7. StreamsKept(a, r) /\ (endofrun => r.taken = produced[i])
  <2>. DEFINE l == lost[i]
  <2>. HIDE DEF a, n, t, g, id
  <2>1. Filled(a) /\ n \in Nat /\ a.taken + n <= MaxWords
    BY <1>3, <1>4
  <2>2. t \in Nat /\ g \in BOOLEAN /\ id \in Nat /\ l \in Nat
    BY <1>5
  <2>. HIDE DEF l
  <2>3. ReadKeepsStreams(a, n, t, g, id, l)
    BY <2>1, <2>2, ReadModuleStream
  <2>4. StreamsKept(a, r) /\ (g \/ n > t \/ n = 0 => r.taken = a.taken + n)
    BY <2>3 DEF ReadKeepsStreams, r, l
  <2>5. endofrun => n > t \/ n = 0
    BY <1>4, <1>5
  <2>. HIDE DEF r
  <2>. QED
    BY <1>3, <1>4, <2>4, <2>5
<1>8. \/ pass.mod[i] = mod[i] \/ pass.mod[i] = a \/ pass.mod[i] = r
  <2>1. CASE pass = AfterPass(loan, fifo, Thres(endofrun), lost)
    <3>1. AllRead(loan, fifo, Thres(endofrun), lost)[i] = r
      BY <1>2 DEF AllRead
    <3>2. \/ pass.mod[i] = AllRead(loan, fifo, Thres(endofrun), lost)[i]
          \/ pass.mod[i] = a
      BY <2>1 DEF AfterPass
    <3>. HIDE DEF r, a
    <3>. QED
      BY <3>1, <3>2
  <2>2. CASE pass = AfterFailedCheck(loan, k)
    BY <2>2 DEF AfterFailedCheck
  <2>3. CASE pass = DeadPass
    BY <2>3 DEF DeadPass
  <2>. QED
    BY <1>6, <2>1, <2>2, <2>3
<1>9. ASSUME endofrun, ChecksSucceed, pass.alive PROVE pass.mod[i] = r
  <2>1. pass = AfterPass(loan, fifo, Thres(endofrun), lost)
    <3>1. pass # DeadPass
      BY <1>9 DEF DeadPass
    <3>. QED
      BY <1>6, <1>9, <3>1
  <2>. DEFINE done == AllRead(loan, fifo, Thres(endofrun), lost)
              dies(j) == GroupRead(j) /\ Outgrown(done[j])
  <2>2. /\ pass.mod = [j \in Modules |-> IF \E m \in 0 .. j - 1 : dies(m)
                                         THEN AllocatePayload(j, loan) ELSE done[j]]
        /\ \A j \in Modules : ~dies(j)
    BY <1>9, <2>1 DEF AfterPass
  <2>3. \A m \in 0 .. i - 1 : m \in Modules
    BY ReadoutAssumption DEF Modules
  <2>4. done[i] = r
    BY <1>2 DEF AllRead
  <2>. HIDE DEF done, r
  <2>. QED
    BY <2>2, <2>3, <2>4
<1>10. AlwaysLoaned => a.loaned
  BY <1>1, <1>3
<1>. HIDE DEF a, r
<1>. QED
  BY <1>3, <1>7, <1>8, <1>9, <1>10 DEF StreamsKept

------------------------------------------------------------------------------
(* The streams of a run.                                                    *)

\* Of a run that is recorded from its start on: the file's stream if every read
\* succeeds, the packets' stream if moreover every payload can be loaned, and what is
\* left when the run is over.
StreamInv ==
    recorded /\ ReadsSucceed =>
        \A i \in Modules :
            /\ FileStream(mod[i])
            /\ AlwaysLoaned => OnlineStream(mod[i])
            /\ AlwaysLoaned /\ phase \in {"running", "ending"} => UnreadToTop(mod[i])
            /\ phase = "stopped" => mod[i].top = 0
            /\ phase = "stopped" /\ ChecksSucceed /\ ~RunStatus => mod[i].taken = produced[i]

\* The invariant spelt out after a step.
LEMMA StreamInvNext ==
    ASSUME recorded' /\ ReadsSucceed =>
           \A i \in Modules :
              /\ FileStream(mod'[i])
              /\ AlwaysLoaned => OnlineStream(mod'[i])
              /\ AlwaysLoaned /\ phase' \in {"running", "ending"} => UnreadToTop(mod'[i])
              /\ phase' = "stopped" => mod'[i].top = 0
              /\ phase' = "stopped" /\ ChecksSucceed /\ ~RunStatus'
                    => mod'[i].taken = produced'[i]
    PROVE  StreamInv'
BY DEF StreamInv, ReadsSucceed, ChecksSucceed, AlwaysLoaned, FileStream, Increasing,
       OnlineStream, UnreadToTop, Published, Slice, Stale, FirstWords, NextWords, RunStatus

\* No run is recorded before the first one.
LEMMA StreamInit == Init => StreamInv
BY DEF Init, StreamInv

\* The streams of a recorded run begin empty.
LEMMA StreamStart == IInv /\ StartRun => StreamInv'
<1>. SUFFICES ASSUME IInv, StartRun, frecord, NEW i \in Modules
              PROVE  /\ FileStream(mod'[i]) /\ OnlineStream(mod'[i]) /\ UnreadToTop(mod'[i])
                     /\ phase' # "stopped"
  BY StreamInvNext DEF StartRun
<1>. DEFINE c == mod'[i]
<1>1. c = Idle(mod[i].buffer)
  BY DEF StartRun, FirstState
<1>2. mod[i].buffer \in Seq(Words)
  BY DEF IInv, TypeOK, ModuleState
<1>. HIDE DEF c
<1>3. /\ c.taken = 0 /\ c.top = 0 /\ c.position = 0 /\ c.unread = 0
      /\ c.payload = <<>> /\ c.file = <<>> /\ c.filesize = 0
      /\ c.packets = <<>> /\ c.buffer = mod[i].buffer
  BY <1>1 DEF Idle
<1>4. FirstWords(0) = <<>> /\ NextWords(0, 0) = <<>>
  BY DEF FirstWords, NextWords
<1>5. SubSeq(c.buffer, 1, c.top) = <<>> /\ Slice(c, c.unread) = <<>>
  BY <1>2, <1>3, NothingLeft
<1>6. Published(c) = <<>>
  <2>1. [k \in DOMAIN c.packets |-> c.packets[k].words] = <<>>
    BY <1>3
  <2>. QED
    BY <2>1, FlattenEmpty DEF Published
<1>7. <<>> \o <<>> = <<>>
  OBVIOUS
<1>8. FileStream(c)
  <2>1. Len(c.file) = 0 /\ DOMAIN c.file = {}
    BY <1>3
  <2>2. Increasing(c.file) /\ \A k \in DOMAIN c.file : c.file[k] <= c.filesize
    BY <2>1 DEF Increasing
  <2>3. SubSeq(c.buffer, 1, c.top) = NextWords(c.filesize, c.top) /\ c.file = FirstWords(c.filesize)
    BY <1>3, <1>4, <1>5
  <2>4. c.filesize + c.top = c.taken /\ Len(c.file) <= c.filesize
    BY <1>3, <2>1
  <2>. QED
    BY <2>2, <2>3, <2>4 DEF FileStream
<1>9. OnlineStream(c)
  <2>1. Published(c) \o c.payload = <<>>
    BY <1>3, <1>6, <1>7
  <2>. QED
    BY <1>3, <1>4, <1>5, <1>7, <2>1 DEF OnlineStream
<1>10. UnreadToTop(c)
  BY <1>3 DEF UnreadToTop
<1>. QED
  BY <1>8, <1>9, <1>10 DEF c, StartRun

\* A pass during the run keeps them, even the one in which the process dies.
LEMMA StreamPass ==
    ASSUME IInv, StreamInv, ReadDataFromModules, phase \in {"running", "ending"},
           recorded' = recorded
    PROVE  StreamInv'
<1>1. phase' = phase \/ phase' = "crashed"
  BY DEF ReadDataFromModules
<1>. SUFFICES ASSUME recorded, ReadsSucceed, NEW i \in Modules
              PROVE  /\ FileStream(mod'[i])
                     /\ AlwaysLoaned => OnlineStream(mod'[i]) /\ UnreadToTop(mod'[i])
  BY <1>1, StreamInvNext
<1>. PICK loan \in Outcomes("alloc"), fifo \in Outcomes("read") :
        \E pass \in PassOutcomes(FALSE, loan, fifo) : mod' = pass.mod
  BY DEF ReadDataFromModules
<1>2. PICK pass \in PassOutcomes(FALSE, loan, fifo) : mod' = pass.mod
  OBVIOUS
<1>3. /\ FileStream(mod[i]) => FileStream(pass.mod[i])
      /\ AlwaysLoaned /\ UnreadToTop(mod[i]) /\ OnlineStream(mod[i])
            => UnreadToTop(pass.mod[i]) /\ OnlineStream(pass.mod[i])
  BY PassStreams
<1>4. /\ FileStream(mod[i])
      /\ AlwaysLoaned => OnlineStream(mod[i]) /\ UnreadToTop(mod[i])
  BY DEF StreamInv
<1>. QED
  BY <1>2, <1>3, <1>4

\* So do the last readout and the closing of the modules, after which nothing is left
\* in the buffers.
LEMMA StreamFinish == IInv /\ StreamInv /\ FinishStop => StreamInv'
<1>. SUFFICES ASSUME IInv, StreamInv, FinishStop, recorded, ReadsSucceed, NEW i \in Modules
              PROVE  /\ FileStream(mod'[i])
                     /\ AlwaysLoaned => OnlineStream(mod'[i])
                     /\ phase' = "stopped" => mod'[i].top = 0
                     /\ phase' = "stopped" /\ ChecksSucceed => mod'[i].taken = produced[i]
                     /\ produced' = produced /\ phase' \notin {"running", "ending"}
  <2>1. FinishStop => recorded' = recorded
    BY DEF FinishStop
  <2>2. SUFFICES ASSUME IInv, StreamInv, FinishStop PROVE StreamInv'
    OBVIOUS
  <2>3. SUFFICES ASSUME recorded', ReadsSucceed, NEW i \in Modules
                 PROVE  /\ FileStream(mod'[i])
                        /\ AlwaysLoaned => OnlineStream(mod'[i])
                        /\ AlwaysLoaned /\ phase' \in {"running", "ending"} => UnreadToTop(mod'[i])
                        /\ phase' = "stopped" => mod'[i].top = 0
                        /\ phase' = "stopped" /\ ChecksSucceed /\ ~RunStatus'
                              => mod'[i].taken = produced'[i]
    BY StreamInvNext
  <2>4. recorded
    BY <2>1, <2>2, <2>3
  <2>. QED
    BY <2>2, <2>3, <2>4
<1>1. phase = "ending" /\ produced' = produced
  BY DEF FinishStop
<1>. PICK loan \in Outcomes("alloc"), fifo \in Outcomes("read") :
        \E pass \in PassOutcomes(TRUE, loan, fifo) :
           IF pass.alive THEN mod' \in AllClosed(pass) /\ phase' \in CloseEnds
           ELSE mod' = pass.mod /\ phase' = "crashed"
  BY DEF FinishStop
<1>2. PICK pass \in PassOutcomes(TRUE, loan, fifo) :
           IF pass.alive THEN mod' \in AllClosed(pass) /\ phase' \in CloseEnds
           ELSE mod' = pass.mod /\ phase' = "crashed"
  OBVIOUS
<1>3. phase' \in {"stopped", "crashed"}
  BY <1>2 DEF CloseEnds
<1>. DEFINE s == pass.mod[i]
<1>4. /\ FileStream(mod[i]) => FileStream(s)
      /\ AlwaysLoaned /\ UnreadToTop(mod[i]) /\ OnlineStream(mod[i])
            => UnreadToTop(s) /\ OnlineStream(s)
      /\ ChecksSucceed /\ pass.alive => s.taken = produced[i]
  BY <1>1, PassStreams
<1>5. /\ FileStream(mod[i])
      /\ AlwaysLoaned => OnlineStream(mod[i]) /\ UnreadToTop(mod[i])
  BY <1>1 DEF StreamInv
<1>6. CASE ~pass.alive
  BY <1>1, <1>2, <1>4, <1>5, <1>6
<1>7. CASE pass.alive
  <2>1. PICK lost \in [Modules -> Nat] :
          mod' = [j \in Modules |->
                     CloseModule(pass.mod[j], pass.packet_id[j], FileTarget, lost[j])]
    BY <1>2, <1>7, OutcomeTypes DEF AllClosed
  <2>. DEFINE id == pass.packet_id[i]
              l == lost[i]
  <2>2. Filled(s) /\ id \in Nat /\ l \in Nat
    <3>1. PassIsKept(pass)
      BY <1>1, PassKeeps
    <3>. QED
      BY <3>1 DEF PassIsKept
  <2>3. FileTarget = "file"
    BY <1>1 DEF IInv, HasFile
  <2>4. mod'[i] = CloseModule(s, id, "file", l)
    BY <2>1, <2>3
  <2>. HIDE DEF s, id, l
  <2>5. /\ mod'[i].taken = s.taken /\ mod'[i].top = 0
        /\ FileStream(s) => FileStream(mod'[i])
        /\ OnlineStream(s) => OnlineStream(mod'[i])
    BY <2>2, <2>4, CloseModuleStream
  <2>. QED
    BY <1>1, <1>3, <1>4, <1>5, <1>7, <2>5
<1>. QED
  BY <1>6, <1>7

\* No other step touches what the streams are made of, and none but FinishStop ends a run.
LEMMA StreamSame ==
    ASSUME StreamInv, mod' = mod, recorded' => recorded,
           \/ phase \in {"running", "ending"} /\ phase' \in {"running", "ending"}
           \/ phase' = phase /\ RunStatus'
           \/ phase' = phase /\ busy' = busy /\ produced' = produced
    PROVE  StreamInv'
<1>. SUFFICES ASSUME recorded, ReadsSucceed, NEW i \in Modules
              PROVE  /\ FileStream(mod'[i])
                     /\ AlwaysLoaned => OnlineStream(mod'[i])
                     /\ AlwaysLoaned /\ phase' \in {"running", "ending"} => UnreadToTop(mod'[i])
                     /\ phase' = "stopped" => mod'[i].top = 0
                     /\ phase' = "stopped" /\ ChecksSucceed /\ ~RunStatus'
                           => mod'[i].taken = produced'[i]
  BY StreamInvNext
<1>1. /\ FileStream(mod[i])
      /\ AlwaysLoaned => OnlineStream(mod[i])
      /\ AlwaysLoaned /\ phase \in {"running", "ending"} => UnreadToTop(mod[i])
      /\ phase = "stopped" => mod[i].top = 0
      /\ phase = "stopped" /\ ChecksSucceed /\ ~RunStatus => mod[i].taken = produced[i]
  BY DEF StreamInv
<1>2. CASE phase \in {"running", "ending"} /\ phase' \in {"running", "ending"}
  BY <1>1, <1>2
<1>3. CASE phase' = phase /\ RunStatus'
  BY <1>1, <1>3
<1>4. CASE phase' = phase /\ busy' = busy /\ produced' = produced
  <2>1. RunStatus' <=> RunStatus
    BY <1>4 DEF RunStatus
  <2>. QED
    BY <1>1, <1>4, <2>1
<1>. QED
  BY <1>2, <1>3, <1>4

LEMMA StreamStep == IInv /\ StreamInv /\ [Next]_vars => StreamInv'
<1>. SUFFICES ASSUME IInv, StreamInv, [Next]_vars PROVE StreamInv'
  OBVIOUS
<1>1. CASE UNCHANGED vars
  <2>1. /\ mod' = mod /\ recorded' = recorded /\ phase' = phase /\ produced' = produced
        /\ busy' = busy
    BY <1>1 DEF vars, files
  <2>. QED
    BY <2>1, StreamSame
<1>2. CASE UNCHANGED <<recorded, mod>> /\ phase \in {"running", "ending"}
           /\ phase' \in {"running", "ending"}
  BY <1>2, StreamSame
<1>3. CASE StartRun
  BY <1>3, StreamStart
<1>4. CASE ReadDataFromModules /\ phase \in {"running", "ending"} /\ recorded' = recorded
  BY <1>4, StreamPass
<1>5. CASE FinishStop
  BY <1>5, StreamFinish
<1>6. ASSUME NEW i \in Modules, Produce(i) PROVE StreamInv'
  <2>1. UNCHANGED <<phase, recorded, mod, busy>> /\ RunStatus'
    BY <1>6 DEF Produce, RunStatus, files
  <2>2. phase' = phase /\ recorded' = recorded /\ mod' = mod
    BY <2>1
  <2>. QED
    BY <2>1, <2>2, StreamSame
<1>7. CASE SetRecordFlag
  <2>1. /\ mod' = mod /\ phase' = phase /\ produced' = produced /\ busy' = busy
        /\ recorded' => recorded
    BY <1>7 DEF SetRecordFlag
  <2>. QED
    BY <2>1, StreamSame
<1>. QED
  BY <1>1, <1>2, <1>3, <1>4, <1>5, <1>6, <1>7
  DEF Next, ReadPass, EndRun, StopPass, ModuleEnds, files

LEMMA StreamInvariant == Spec => []StreamInv
BY ReadoutInvariant, StreamInit, StreamStep, PTL DEF Spec

\* Of a run that is recorded from its start on, the words that count as written, then
\* what is buffered, are what was taken out of the FIFO, word for word, and the file
\* holds those of them that a write did not lose (line 1095), in order: for any sizes,
\* groups and points where the buffer is saved, as long as every read succeeds.
THEOREM FileIsTheStream == Spec => [](ReadsSucceed => FileKeepsStream)
<1>1. StreamInv => (ReadsSucceed => FileKeepsStream)
  BY DEF StreamInv, FileKeepsStream
<1>. QED
  BY StreamInvariant, <1>1, PTL

\* The packets, then the payload, then what is unread in the buffer, are the same
\* stream if moreover every payload can be loaned, even if a FIFO cannot be queried or a
\* write is short; for sizes with which a payload may outgrow its packet, until it does
\* and the process dies (line 813).
THEOREM PacketsAreTheStream ==
    Spec => [](ReadsSucceed /\ AlwaysLoaned => OnlineKeepsStream)
<1>1. StreamInv => (ReadsSucceed /\ AlwaysLoaned => OnlineKeepsStream)
  BY DEF StreamInv, OnlineKeepsStream, OnlineStream
<1>. QED
  BY StreamInvariant, <1>1, PTL

\* After StopRun all that the run produced counts as written, and it is all in the file
\* unless a write was short, if every module reported its end and no FIFO failed, even
\* if payloads could not be loaned.
THEOREM FileGetsEverything ==
    Spec => [](ReadsSucceed /\ ChecksSucceed => FileComplete)
<1>1. IInv /\ StreamInv => (ReadsSucceed /\ ChecksSucceed => FileComplete)
  <2>. SUFFICES ASSUME IInv, StreamInv, ReadsSucceed, ChecksSucceed, phase = "stopped",
                       recorded, ~RunStatus, NEW i \in Modules
                PROVE  /\ mod[i].filesize = produced[i]
                       /\ Len(mod[i].file) = produced[i] => mod[i].file = FirstWords(produced[i])
    BY DEF FileComplete
  <2>1. FileStream(mod[i]) /\ mod[i].top = 0 /\ mod[i].taken = produced[i]
    BY DEF StreamInv
  <2>2. mod[i].filesize \in Nat
    BY DEF IInv, TypeOK, ModuleState
  <2>. QED
    BY <2>1, <2>2 DEF FileStream
<1>. QED
  BY ReadoutInvariant, StreamInvariant, <1>1, PTL
==============================================================================

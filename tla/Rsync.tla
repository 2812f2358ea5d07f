------------------------------- MODULE Rsync -------------------------------
(***************************************************************************)
(* The block arithmetic of lib/rsync: what the destination sends about its *)
(* file (blockChecksums), what the source answers (roll), what becomes of  *)
(* the answer on the web socket, and what patching makes of it.            *)
(*                                                                         *)
(* A file is a sequence of byte values.  Byte offsets are the source's,    *)
(* from 0.  MD5 is taken to be injective, so a strong checksum is the data *)
(* itself.  A loop of the code is a recursive function of its turns.       *)
(***************************************************************************)
EXTENDS Integers, Sequences, SequencesExt, FiniteSetsExt

CONSTANTS Size,        \* rsyncDefaults.size, the length of a block
          Undefined    \* JavaScript's undefined

ASSUME SizeAssumption == Size \in Nat \ {0}
ASSUME UndefinedAssumption == Undefined \notin Seq(Int)

Byte == 0 .. 255

\* The modulus of the weak checksum, and JavaScript's %: the result has the
\* sign of the dividend.
N == 65521
JsMod(n) == IF n >= 0 THEN n % N ELSE 0 - ((0 - n) % N)

\* Buffer.slice(from, to)
Slice(data, from, to) == SubSeq(data, from + 1, Min({to, Len(data)}))

-----------------------------------------------------------------------------
(* calcWeak32() without a previous value: len bytes from the first one.     *)
(* Reading past the end adds undefined, and the sum is NaN: <<>> here.      *)
NaN == <<>>

\* The sums a and b over the first len bytes.
WeakTurn(data, len, w, i) == << w[1] + data[i], w[2] + (len - i + 1) * data[i] >>

WeakLoop(data, len) ==
  LET w[i \in 0 .. len] == IF i = 0 THEN <<0, 0>> ELSE WeakTurn(data, len, w[i - 1], i)
  IN w[len]

calcWeak32(data, len) ==
  IF len > Len(data) THEN NaN
  ELSE LET w == WeakLoop(data, len) IN << w[1] % N, w[2] % N >>

\* What it returns as the `sum`.
WeakSum(w) == w[1] + w[2] * 65536

\* calcWeak32() with one: the window [start, end) from the window before it.
rollWeak32(data, prev, start, end) ==
  IF prev = NaN THEN NaN
  ELSE LET a == JsMod(prev[1] - data[start] + data[end])
       IN << a, JsMod(prev[2] - (end - start) * data[start] + a) >>

WindowLength(data) == Min({Size, Len(data)})

\* Mutant: as many bytes as the window has, so the blocks do match.
WeakOfWindow_Exact(data) ==
  LET blk == WindowLength(data)
      f[start \in 0 .. Len(data) - blk] ==
        IF start = 0 THEN calcWeak32(data, blk)
        ELSE rollWeak32(data, f[start - 1], start, start + blk)
  IN f

\* The weak value of every window that roll() looks at.  For the first one
\* roll() asks for the bytes 0 to end INCLUSIVE: one more than the window.
WeakOfWindow(data) ==
  LET blk == WindowLength(data)
      f[start \in 0 .. Len(data) - blk] ==
        IF start = 0 THEN calcWeak32(data, blk + 1)
        ELSE rollWeak32(data, f[start - 1], start, start + blk)
  IN f

\* The destination's side: one record for each block, the last one shorter.
blockChecksums(data) ==
  [i \in 1 .. (Len(data) + Size - 1) \div Size |->
     LET chunk == Slice(data, (i - 1) * Size, i * Size)
     IN [index |-> i - 1, weak |-> WeakSum(calcWeak32(chunk, Len(chunk))), strong |-> chunk]]

\* createHashtable() and its lookup: the buckets only order the search, so
\* the block found is the first whose weak and strong checksums both agree.
Candidates(sums, weak, chunk) ==
  {i \in DOMAIN sums : weak # NaN /\ sums[i].weak = WeakSum(weak) /\ sums[i].strong = chunk}

\* What roll() records at a window that matches block `index`.
MatchEntry(data, start, end, last, index) ==
  [data  |-> IF start < last THEN Slice(data, last - 1, end)
             ELSE IF start > last THEN Slice(data, last, start)
             ELSE Undefined,
   index |-> index]

\* The window at `start`, whose weak value is given: a match, the rest of the
\* file, or nothing yet.
RollTurn(data, sums, weak, acc, start) ==
  LET end   == start + WindowLength(data)
      found == Candidates(sums, weak, Slice(data, start, end))
  IN IF found # {}
     THEN [diffs |-> Append(acc.diffs, MatchEntry(data, start, end, acc.last,
                                                  sums[Min(found)].index)),
           last |-> end]
     ELSE IF end = Len(data)
     THEN [acc EXCEPT !.diffs = Append(@, [data  |-> Slice(data, acc.last, end),
                                           index |-> Undefined])]
     ELSE acc

roll(data, sums) ==
  LET weak == WeakOfWindow(data)
      last == Len(data) - WindowLength(data)
      acc[k \in 0 .. last + 1] ==
        IF k = 0 THEN [diffs |-> <<>>, last |-> 0]
        ELSE RollTurn(data, sums, weak[k - 1], acc[k - 1], k - 1)
  IN acc[last + 1].diffs

-----------------------------------------------------------------------------
(* serialize() drops an undefined `data`, and deserialize() makes a Buffer  *)
(* of every `data` it finds or does not find: `new Buffer(undefined)`       *)
(* throws.                                                                  *)
Deserializable(diffs) == \A i \in DOMAIN diffs : diffs[i].data # Undefined

\* getPatchedData(): `block.data && block.index` is false for block 0.
RawBlock(raw, index) == Slice(raw, index * Size, (index + 1) * Size)

Patched(raw, block) ==
  IF block.data = Undefined THEN RawBlock(raw, block.index)
  ELSE IF block.index \in {Undefined, 0} THEN block.data
  ELSE block.data \o RawBlock(raw, block.index)

getPatchedData(raw, diffs) ==
  FlattenSeq([i \in DOMAIN diffs |-> Patched(raw, diffs[i])])

=============================================================================

--------------------------- MODULE PixelPipeProofs ---------------------------
(***************************************************************************)
(* Proofs about PixelPipe, the darkroom's pixelpipe and its cache.  The    *)
(* inductive invariant says what the lines of the cache hold while they    *)
(* have a name, what the job reads and writes at each point of a run, and  *)
(* that nothing but a completed run makes the pipe valid.                  *)
(***************************************************************************)
EXTENDS PixelPipe, DataFacts

(* The state of the cache, in full. *)
Names == [roi : Roi, work : Seq(Int)]
Sizes == {0} \cup {SizeOf(r) : r \in Roi}
CacheStates ==
  [hash : [Line -> Names], size : [Line -> Sizes], used : [Line -> Int],
   order : [Line -> Nat], data : [Line -> Buffers], calls : {0, 1}, lastline : Line,
   allmem : Int, interrupted : BOOLEAN]

Points == {"idle", "restart", "change", "clear", "begin", "trim", "flush", "fresh", "down",
           "hit", "base", "up", "run", "ran", "copy", "finish", "check", "dims", "valid"}

IsTyped ==
  /\ params \in [Module -> Nat] /\ history \in [Module -> Nat] /\ gestures \in Nat
  /\ top \in 0..Gamma /\ lastModule \in 0..Gamma /\ roi \in Roi
  /\ status \in {"DIRTY", "RUNNING", "VALID"} /\ shutdown \in {"NO", "HQ"}
  /\ changed \subseteq {"TOP", "SYNCH", "REMOVE", "ZOOMED"}
  /\ pieces \in [Module -> [params : Nat, hash : Nat]] /\ mask \in BOOLEAN
  /\ pc \in Points /\ pos \in 0..Gamma /\ run \in Roi
  /\ input \in 0..Entries /\ out \in 0..Entries /\ early \in BOOLEAN
  /\ cache \in CacheStates /\ backbuf \in Buffers

-----------------------------------------------------------------------------
(* What holds of the cache, c, whatever the job does. *)

Counts(c) == c.allmem = SumFunctionOnSet(c.size, Line)

(* The memory of a line is of the size of its name, and of what it holds. *)
Sized(c) ==
  \A k \in Named : c.hash[k] # NoName =>
    c.size[k] = SizeOf(c.hash[k].roi) /\ c.data[k].roi = c.hash[k].roi

Unique(c) ==
  \A j, k \in Named : c.hash[j] = c.hash[k] /\ j # k => c.hash[k] = NoName

(* But for the line a module has just written, a line with a name holds    *)
(* what it says.                                                           *)
Says(c, k) ==
  /\ c.data[k].kind # "none"
  /\ c.data[k].kind = "image" => c.data[k].work = c.hash[k].work
  /\ c.data[k].kind = "mask" => c.interrupted
Honest(c, written) ==
  \A k \in Named \ written : c.hash[k] # NoName => Says(c, k)

Written == IF pc = "ran" THEN {out} ELSE {}
CacheInv == Counts(cache) /\ Sized(cache) /\ Unique(cache) /\ Honest(cache, Written)

(* The line that the last call of Get has returned: the next call returns  *)
(* another one.                                                            *)
Recent(c, k) ==
  /\ k \in Named => c.used[k] =< 0
  /\ k \notin Named => k = c.calls

(* A line made for a run on the region r. *)
MadeFor(c, k, r) ==
  /\ c.size[k] >= SizeOf(r) /\ (Entries # 2 => c.size[k] = SizeOf(r))
  /\ c.data[k].roi = r

-----------------------------------------------------------------------------
(* What the job has at each point. *)

Hashes(ps, p) == [i \in 1..p |-> ps[i].hash]
NameIn(r, ps, p) == [roi |-> r, work |-> Hashes(ps, p)]

PosInv ==
  /\ pc \in {"up", "run", "ran"} => pos >= 1
  /\ pc = "copy" => pos = Gamma
  /\ pc = "base" => pos = 0
  /\ pc \in {"down", "hit", "base"} => ~mask
  /\ pc \in {"run", "ran", "copy"} => out \in Line

(* The output of the modules before p: an image unless a mask is shown. *)
Holds(c, k, work, masked) ==
  /\ c.data[k].kind # "none"
  /\ c.data[k].kind = "image" => ~masked /\ c.data[k].work = work
  /\ c.data[k].kind = "mask" /\ ~masked => c.interrupted

InputInv ==
  /\ pc \in {"up", "run", "ran"} /\ input # PipeInput =>
       /\ input \in Line /\ MadeFor(cache, input, run)
       /\ cache.data[input].kind = "image" => cache.data[input].work = Hashes(pieces, pos - 1)
       /\ pc # "up" => input # out
       /\ pc = "up" =>
            /\ Recent(cache, input)
            /\ input \in Named /\ cache.hash[input] # NoName =>
                 cache.hash[input] = NameIn(run, pieces, pos - 1)
  /\ pc \in {"up", "run", "ran"} /\ input = PipeInput => pos = 1
  /\ pc \in {"up", "run"} =>
       IF input = PipeInput THEN ~mask ELSE Holds(cache, input, Hashes(pieces, pos - 1), mask)

OutInv ==
  /\ pc \in {"run", "ran"} =>
       /\ MadeFor(cache, out, run) /\ Recent(cache, out)
       /\ out \in Named /\ cache.hash[out] # NoName =>
            cache.hash[out] = NameIn(run, pieces, pos) /\ (pc = "run" => ~mask)
  /\ pc \in {"ran", "copy"} => Holds(cache, out, Hashes(pieces, pos), mask)

(* The back buffer is what the nodes of the pipe are due to show. *)
Due == backbuf.kind = "image" => backbuf.work = Hashes(pieces, Gamma)

BackInv ==
  /\ status = "VALID" => pc = "idle"
  /\ status = "VALID" /\ ~redraw => ~misfit \/ todo = <<"zoomed">>
  /\ pc \in {"trim", "flush", "fresh", "down", "hit", "base", "up", "run", "ran", "copy"}
       => ~early
  /\ pc \in {"finish", "check"} /\ early =>
       changed # {} \/ (pc = "finish" /\ shutdown # "NO")
  /\ (pc \in {"finish", "check"} /\ ~early) \/ pc \in {"dims", "valid", "idle"} => Due
  /\ (pc \in {"finish", "check"} /\ ~early) \/ pc \in {"dims", "valid"} \/ status = "VALID"
       => backbuf.kind # "none"

PipeInv == IsTyped /\ CacheInv /\ PosInv /\ InputInv /\ OutInv /\ BackInv
-----------------------------------------------------------------------------
(* The lines and the cache. *)

LEMMA LineFacts ==
  /\ Named \subseteq Line /\ IsFiniteSet(Line) /\ IsFiniteSet(Named) /\ Line \subseteq Nat
  /\ 0 \in Line /\ 1 \in Line /\ 0 \notin Named /\ 1 \notin Named
  /\ \A k \in Line \ Named : k \in {0, 1}
  /\ PipeInput \notin Line /\ PipeInput \in 0..Entries /\ Line \subseteq 0..Entries
  /\ Entries = 2 => Named = {}
<1>1. Entries \in Nat /\ Entries >= 2
  BY PipeConstants
<1>2. Named \subseteq Line
  BY <1>1 DEF Named, Line
<1>3. IsFiniteSet(Line)
  BY <1>1, FS_Interval DEF Line
<1> QED BY <1>1, <1>2, <1>3, FS_Subset DEF Named, Line, PipeInput

LEMMA SizeFacts ==
  /\ \A r \in Roi : SizeOf(r) \in Nat /\ SizeOf(r) > 0 /\ SizeOf(r) \in Sizes
  /\ Sizes \subseteq Nat /\ 0 \in Sizes /\ FullRoi \in Roi
BY PipeConstants DEF Sizes

LEMMA NameFacts ==
  /\ NoName \in Names
  /\ \A h \in Names : h.work \in Seq(Nat) => h # NoName
<1>1. NoName \in Names
  <2>1. -1 \in Int /\ <<-1>> \in Seq(Int)
    OBVIOUS
  <2> QED BY <2>1, SizeFacts DEF NoName, Names
<1>2. <<-1>> \notin Seq(Nat)
  <2> SUFFICES ASSUME <<-1>> \in Seq(Nat) PROVE FALSE
    OBVIOUS
  <2>1. Len(<<-1>>) = 1 /\ <<-1>>[1] = -1
    OBVIOUS
  <2>2. <<-1>>[1] \in Nat
    BY <2>1
  <2> QED BY <2>1, <2>2
<1> QED BY <1>1, <1>2 DEF NoName

LEMMA BufferFacts ==
  /\ NoData \in Buffers
  /\ \A r \in Roi : /\ Base(r) \in Buffers /\ Base(r).roi = r /\ Base(r).kind = "image"
                    /\ Base(r).work = <<>>
                    /\ Buffer("unwritten", r) \in Buffers /\ Buffer("unwritten", r).roi = r
                    /\ Buffer("unwritten", r).kind = "unwritten"
BY SizeFacts DEF NoData, Buffers, Buffer, Base

LEMMA CacheFields ==
  ASSUME NEW c \in CacheStates
  PROVE  /\ c.hash \in [Line -> Names] /\ c.size \in [Line -> Sizes] /\ c.used \in [Line -> Int]
         /\ c.order \in [Line -> Nat] /\ c.data \in [Line -> Buffers] /\ c.calls \in {0, 1}
         /\ c.lastline \in Line /\ c.allmem \in Int /\ c.interrupted \in BOOLEAN
         /\ c.size \in [Line -> Nat]
<1>1. /\ c.hash \in [Line -> Names] /\ c.size \in [Line -> Sizes] /\ c.used \in [Line -> Int]
      /\ c.order \in [Line -> Nat] /\ c.data \in [Line -> Buffers] /\ c.calls \in {0, 1}
      /\ c.lastline \in Line /\ c.allmem \in Int /\ c.interrupted \in BOOLEAN
  BY DEF CacheStates
<1> QED BY <1>1, SizeFacts

(* The oldest line there is, and 0, which has no name, if there is none. *)
LEMMA OldestFacts ==
  ASSUME NEW c \in CacheStates, NEW lines, lines \subseteq Named
  PROVE  \/ Oldest(c, lines) = 0
         \/ Oldest(c, lines) \in lines /\ c.used[Oldest(c, lines)] > 1
<1> DEFINE old == {k \in lines : OldEnough(c, k)}
           R == {p \in old \X old : c.used[p[1]] >= c.used[p[2]]}
           most == {k \in old : \A j \in old : c.used[j] =< c.used[k]}
<1>1. CASE old = {}
  BY <1>1 DEF Oldest
<1>2. CASE old # {}
  <2>1. /\ old \subseteq lines /\ old \subseteq Nat /\ IsFiniteSet(old)
        /\ \A k \in old : c.used[k] \in Int /\ c.used[k] > 1
    BY LineFacts, CacheFields, FS_Subset DEF OldEnough
  <2> HIDE DEF old
  <2>6. \A x, y \in old : <<x, y>> \in R <=> c.used[x] >= c.used[y]
    OBVIOUS
  <2> HIDE DEF R
  <2>2. /\ \A x, y \in old : x # y => <<x, y>> \in R \/ <<y, x>> \in R
        /\ \A x, y, z \in old : <<x, y>> \in R /\ <<y, z>> \in R => <<x, z>> \in R
    BY <2>1, <2>6
  <2>3. PICK x \in old : \A y \in old \ {x} : <<x, y>> \in R
    BY <1>2, <2>1, <2>2, FirstInOrder
  <2>4. x \in most
    <3>1. \A j \in old : c.used[j] =< c.used[x]
      <4> TAKE j \in old
      <4>1. c.used[x] \in Int /\ c.used[j] \in Int
        BY <2>1
      <4>2. CASE j = x
        BY <4>1, <4>2
      <4>3. CASE j # x
        <5>1. c.used[x] >= c.used[j]
          BY <2>3, <2>6, <4>3
        <5> QED BY <4>1, <5>1
      <4> QED BY <4>2, <4>3
    <3> QED BY <3>1
  <2> HIDE DEF most
  <2>5. Min(most) \in most
    <3>1. most \subseteq Nat
      BY <2>1 DEF most
    <3> QED BY <2>4, <3>1, MinIsLeast
  <2>7. Oldest(c, lines) = Min(most)
    BY <1>2 DEF Oldest, most, old
  <2> QED BY <2>1, <2>5, <2>7 DEF most
<1> QED BY <1>1, <1>2

-----------------------------------------------------------------------------
(* The operations on the cache. *)

LEMMA InvalidIs ==
  ASSUME NEW c \in CacheStates, NEW lines
  PROVE  /\ Invalid(c, lines) \in CacheStates
         /\ \A k \in Line : Invalid(c, lines).hash[k] = IF k \in lines THEN NoName ELSE c.hash[k]
         /\ Invalid(c, lines).size = c.size /\ Invalid(c, lines).used = c.used
         /\ Invalid(c, lines).data = c.data /\ Invalid(c, lines).calls = c.calls
         /\ Invalid(c, lines).allmem = c.allmem /\ Invalid(c, lines).interrupted = c.interrupted
<1> DEFINE h == [k \in Line |-> IF k \in lines THEN NoName ELSE c.hash[k]]
           o == [k \in Line |-> IF k \in lines THEN 0 ELSE c.order[k]]
<1>1. h \in [Line -> Names] /\ o \in [Line -> Nat]
  BY CacheFields, NameFacts
<1>2. Invalid(c, lines) = [c EXCEPT !.hash = h, !.order = o]
  BY DEF Invalid
<1> HIDE DEF h, o
<1>3. /\ Invalid(c, lines) \in CacheStates /\ Invalid(c, lines).hash = h
      /\ Invalid(c, lines).size = c.size /\ Invalid(c, lines).used = c.used
      /\ Invalid(c, lines).data = c.data /\ Invalid(c, lines).calls = c.calls
      /\ Invalid(c, lines).allmem = c.allmem /\ Invalid(c, lines).interrupted = c.interrupted
  BY <1>1, <1>2 DEF CacheStates
<1> QED BY <1>3 DEF h

(* A cache with fewer names and the same lines. *)
Forgets(d, c) ==
  /\ d \in CacheStates /\ d.size = c.size /\ d.data = c.data /\ d.calls = c.calls
  /\ d.allmem = c.allmem /\ d.interrupted = c.interrupted
  /\ \A k \in Line : d.hash[k] = NoName \/ d.hash[k] = c.hash[k]
  /\ \A k \in Line : d.used[k] = c.used[k] \/ d.used[k] =< 0

LEMMA ForgetsKeeps ==
  ASSUME NEW c \in CacheStates, NEW d, Forgets(d, c)
  PROVE  /\ Counts(c) => Counts(d)
         /\ Sized(c) => Sized(d)
         /\ Unique(c) => Unique(d)
         /\ \A S : Honest(c, S) => Honest(d, S)
         /\ \A k \in Line : Recent(c, k) => Recent(d, k)
         /\ \A k, r : MadeFor(c, k, r) => MadeFor(d, k, r)
<1>1. Named \subseteq Line
  BY LineFacts
<1>2. Counts(c) => Counts(d)
  BY DEF Forgets, Counts
<1>3. Sized(c) => Sized(d)
  BY <1>1 DEF Forgets, Sized
<1>4. Unique(c) => Unique(d)
  BY <1>1 DEF Forgets, Unique
<1>5. \A S : Honest(c, S) => Honest(d, S)
  BY <1>1 DEF Forgets, Honest, Says
<1>6. \A k \in Line : Recent(c, k) => Recent(d, k)
  BY <1>1, CacheFields DEF Forgets, Recent
<1>7. \A k, r : MadeFor(c, k, r) => MadeFor(d, k, r)
  BY DEF Forgets, MadeFor
<1> QED BY <1>2, <1>3, <1>4, <1>5, <1>6, <1>7

LEMMA InvalidForgets ==
  ASSUME NEW c \in CacheStates, NEW lines
  PROVE  Forgets(Invalid(c, lines), c)
BY InvalidIs DEF Forgets

LEMMA FlushedFacts ==
  ASSUME NEW c \in CacheStates, Counts(c)
  PROVE  /\ Flushed(c) \in CacheStates /\ Counts(Flushed(c)) /\ Sized(Flushed(c))
         /\ Unique(Flushed(c)) /\ Honest(Flushed(c), {})
<1> DEFINE lines == {k \in Named : c.order[k] >= 0 /\ c.hash[k] # NoName}
<1>1. PICK d : d = Invalid(c, lines)
  OBVIOUS
<1>2. /\ d \in CacheStates /\ d.size = c.size /\ d.allmem = c.allmem
      /\ \A k \in Line : d.hash[k] = IF k \in lines THEN NoName ELSE c.hash[k]
  BY <1>1, InvalidIs
<1>3. \A k \in Named : d.hash[k] = NoName
  BY <1>2, LineFacts, CacheFields
<1>4. Flushed(c) = [d EXCEPT !.interrupted = FALSE]
  BY <1>1 DEF Flushed, InvalidLater
<1> HIDE DEF lines
<1>5. /\ Flushed(c) \in CacheStates /\ Flushed(c).hash = d.hash
      /\ Flushed(c).size = d.size /\ Flushed(c).allmem = d.allmem
  BY <1>2, <1>4 DEF CacheStates
<1> QED BY <1>2, <1>3, <1>5 DEF Counts, Sized, Unique, Honest

LEMMA FreedFacts ==
  ASSUME NEW c \in CacheStates, NEW lines, lines \subseteq Named,
         Counts(c), Sized(c), Unique(c), Honest(c, {})
  PROVE  /\ Freed(c, lines) \in CacheStates /\ Counts(Freed(c, lines))
         /\ Sized(Freed(c, lines)) /\ Unique(Freed(c, lines)) /\ Honest(Freed(c, lines), {})
<1> DEFINE size == [k \in Line |-> IF k \in lines THEN 0 ELSE c.size[k]]
           data == [k \in Line |-> IF k \in lines THEN NoData ELSE c.data[k]]
           mem == c.allmem - SumFunctionOnSet(c.size, lines)
           e == Freed(c, lines)
<1>1. PICK d : d = Invalid(c, lines)
  OBVIOUS
<1>2. /\ d \in CacheStates /\ d.size = c.size /\ d.data = c.data /\ d.allmem = c.allmem
      /\ d.interrupted = c.interrupted
      /\ \A k \in Line : d.hash[k] = IF k \in lines THEN NoName ELSE c.hash[k]
  BY <1>1, InvalidIs
<1>3. /\ lines \subseteq Line /\ IsFiniteSet(Line) /\ IsFiniteSet(lines) /\ Named \subseteq Line
      /\ \A k \in Line : c.size[k] \in Nat
  <2>1. /\ lines \subseteq Line /\ IsFiniteSet(Line) /\ Named \subseteq Line
        /\ \A k \in Line : c.size[k] \in Nat
    BY LineFacts, CacheFields
  <2> QED BY <2>1, FS_Subset
<1>4. /\ size \in [Line -> Sizes] /\ data \in [Line -> Buffers] /\ mem \in Int
      /\ \A k \in Line : size[k] \in Nat
  <2>1. SumFunctionOnSet(c.size, lines) \in Int
    BY <1>3, SumOverType
  <2> QED BY <1>3, <2>1, CacheFields, SizeFacts, BufferFacts
<1>5. e = [d EXCEPT !.size = size, !.data = data, !.allmem = mem]
  BY <1>1, <1>2 DEF Freed, FreedMemory
<1>6. mem = SumFunctionOnSet(size, Line)
  <2>1. /\ SumFunctionOnSet(c.size, Line) \in Int /\ SumFunctionOnSet(c.size, lines) \in Int
        /\ SumFunctionOnSet(c.size, Line \ lines)
             = SumFunctionOnSet(c.size, Line) - SumFunctionOnSet(c.size, lines)
    BY <1>3, SumOverLeave
  <2>2. SumFunctionOnSet(c.size, Line \ lines) = SumFunctionOnSet(size, Line \ lines)
    <3>1. IsFiniteSet(Line \ lines)
      BY <1>3, FS_Subset
    <3>2. \A k \in Line \ lines : c.size[k] = size[k]
      OBVIOUS
    <3> HIDE DEF size
    <3> QED BY <3>1, <3>2, SumOverEqual
  <2>3. SumFunctionOnSet(size, lines) = 0
    <3>1. \A k \in lines : [j \in lines |-> 0][k] = size[k]
      BY <1>3
    <3> HIDE DEF size
    <3>2. SumFunctionOnSet([j \in lines |-> 0], lines) = SumFunctionOnSet(size, lines)
      BY <1>3, <3>1, SumOverEqual
    <3> QED BY <1>3, <3>2, ZeroSum
  <2>4. /\ SumFunctionOnSet(size, Line) \in Int /\ SumFunctionOnSet(size, Line \ lines) \in Int
        /\ SumFunctionOnSet(size, Line \ lines)
             = SumFunctionOnSet(size, Line) - SumFunctionOnSet(size, lines)
    <3>1. \A k \in Line : size[k] \in Nat
      BY <1>4
    <3> HIDE DEF size
    <3>2. /\ SumFunctionOnSet(size, Line) \in Nat /\ SumFunctionOnSet(size, Line \ lines) \in Nat
          /\ SumFunctionOnSet(size, Line \ lines)
               = SumFunctionOnSet(size, Line) - SumFunctionOnSet(size, lines)
      BY <1>3, <3>1, SumOverLeave
    <3> QED BY <3>2
  <2>5. c.allmem = SumFunctionOnSet(c.size, Line)
    BY DEF Counts
  <2> HIDE DEF size
  <2> QED BY <2>1, <2>2, <2>3, <2>4, <2>5
<1> HIDE DEF size, data, mem, e
<1>7. /\ e \in CacheStates /\ e.hash = d.hash /\ e.size = size /\ e.data = data
      /\ e.allmem = mem /\ e.interrupted = d.interrupted
  BY <1>2, <1>4, <1>5 DEF CacheStates
<1>8. \A k \in Named : /\ k \in Line
                       /\ e.hash[k] = NoName \/ (k \notin lines /\ e.hash[k] = c.hash[k])
  BY <1>2, <1>3, <1>7
<1>9. \A k \in Line : k \notin lines => e.size[k] = c.size[k] /\ e.data[k] = c.data[k]
  BY <1>7 DEF size, data
<1>10. Counts(e)
  BY <1>6, <1>7 DEF Counts
<1>11. Sized(e)
  BY <1>8, <1>9 DEF Sized
<1>12. Unique(e)
  BY <1>8 DEF Unique
<1>13. Honest(e, {})
  BY <1>2, <1>7, <1>8, <1>9 DEF Honest, Says
<1> QED BY <1>7, <1>10, <1>11, <1>12, <1>13 DEF e

LEMMA ImportantForgets ==
  ASSUME NEW c \in CacheStates, NEW k
  PROVE  Forgets(ImportantLine(c, k), c)
<1>1. CASE ImportantLine(c, k) = c
  BY <1>1 DEF Forgets
<1>2. CASE ImportantLine(c, k) # c
  <2>1. k \in Line /\ ImportantLine(c, k) = [c EXCEPT !.used[k] = -Entries]
    BY <1>2, LineFacts DEF ImportantLine
  <2>2. PICK used : used = [c.used EXCEPT ![k] = -Entries]
    OBVIOUS
  <2>3. ImportantLine(c, k) = [c EXCEPT !.used = used]
    BY <2>1, <2>2
  <2>4. -Entries \in Int /\ -Entries =< 0
    BY PipeConstants
  <2>5. used \in [Line -> Int] /\ used[k] =< 0 /\ \A j \in Line : j # k => used[j] = c.used[j]
    BY <2>1, <2>2, <2>4, CacheFields
  <2> QED BY <2>3, <2>5 DEF Forgets, CacheStates
<1> QED BY <1>1, <1>2

LEMMA ForgetsMore ==
  ASSUME NEW b, NEW c, NEW d, Forgets(d, c), Forgets(c, b)
  PROVE  Forgets(d, b)
BY DEF Forgets

LEMMA AgedIs ==
  ASSUME NEW c \in CacheStates
  PROVE  /\ Aged(c) \in CacheStates /\ Aged(c).hash = c.hash /\ Aged(c).size = c.size
         /\ Aged(c).data = c.data /\ Aged(c).allmem = c.allmem /\ Aged(c).order = c.order
         /\ Aged(c).interrupted = c.interrupted /\ Aged(c).calls = 1 - c.calls
         /\ \A k \in Line : Aged(c).used[k] = c.used[k] + 1
<1> DEFINE used == [k \in Line |-> c.used[k] + 1]
           calls == 1 - c.calls
<1>1. used \in [Line -> Int] /\ calls \in {0, 1}
  BY CacheFields
<1>2. Aged(c) = [c EXCEPT !.calls = calls, !.used = used]
  BY DEF Aged
<1> HIDE DEF used, calls
<1>3. /\ Aged(c) \in CacheStates /\ Aged(c).hash = c.hash /\ Aged(c).size = c.size
      /\ Aged(c).data = c.data /\ Aged(c).allmem = c.allmem /\ Aged(c).order = c.order
      /\ Aged(c).interrupted = c.interrupted /\ Aged(c).calls = calls /\ Aged(c).used = used
  BY <1>1, <1>2 DEF CacheStates
<1> QED BY <1>3 DEF used, calls

LEMMA LineTaken ==
  ASSUME mask \in BOOLEAN, NEW c \in CacheStates
  PROVE  /\ GetCacheLine(c) \in Line
         /\ \/ GetCacheLine(c) \in Named /\ c.used[GetCacheLine(c)] > 1
            \/ GetCacheLine(c) = c.calls
<1> DEFINE invalid == {k \in Named : c.hash[k] = NoName}
           free == {k \in Named : c.size[k] = 0}
           good(k) == k \in Named /\ c.used[k] > 1
<1>1. /\ Oldest(c, invalid) # 0 => good(Oldest(c, invalid))
      /\ Oldest(c, free) # 0 => good(Oldest(c, free))
      /\ Oldest(c, Named) # 0 => good(Oldest(c, Named))
  <2>1. invalid \subseteq Named /\ free \subseteq Named
    OBVIOUS
  <2> HIDE DEF invalid, free
  <2> QED BY <2>1, OldestFacts
<1>2. GetCacheLine(c) \in {c.calls} \/ good(GetCacheLine(c))
  BY <1>1 DEF GetCacheLine
<1>3. c.calls \in Line /\ Named \subseteq Line
  BY CacheFields, LineFacts
<1> QED BY <1>2, <1>3

LEMMA ReservedIs ==
  ASSUME mask \in BOOLEAN, run \in Roi, NEW c \in CacheStates, Counts(c), NEW k \in Line,
         NEW n \in Names, NEW p \in Nat, NEW important \in BOOLEAN
  PROVE  LET d == Reserved(c, k, n, p, important) IN
         /\ d \in CacheStates /\ Counts(d) /\ d.interrupted = c.interrupted /\ d.calls = c.calls
         /\ d.hash[k] = (IF mask THEN NoName ELSE n) /\ d.used[k] =< 0
         /\ d.data[k] = Buffer("unwritten", run)
         /\ d.size[k] >= SizeOf(run) /\ (Entries # 2 => d.size[k] = SizeOf(run))
         /\ \A j \in Line : j # k => /\ d.hash[j] = c.hash[j] /\ d.used[j] = c.used[j]
                                     /\ d.data[j] = c.data[j] /\ d.size[j] = c.size[j]
<1> DEFINE s == SizeOf(run)
           grow == IF Entries = 2 THEN c.size[k] < s ELSE c.size[k] # s
           size == [c.size EXCEPT ![k] = IF grow THEN s ELSE c.size[k]]
           mem == IF grow THEN c.allmem - c.size[k] + s ELSE c.allmem
           hash == [c.hash EXCEPT ![k] = IF mask THEN NoName ELSE n]
           used == [c.used EXCEPT ![k] = IF important /\ ~mask THEN -Entries ELSE 0]
           order == [c.order EXCEPT ![k] = p]
           data == [c.data EXCEPT ![k] = Buffer("unwritten", run)]
           last == IF Toggling THEN c.lastline ELSE k
           d == Reserved(c, k, n, p, important)
<1>1. s \in Sizes /\ s \in Nat /\ Entries \in Nat /\ c.size[k] \in Nat /\ c.size[k] \in Sizes
  BY SizeFacts, PipeConstants, CacheFields
<1>2. /\ size \in [Line -> Sizes] /\ size \in [Line -> Nat]
      /\ size[k] >= s /\ (Entries # 2 => size[k] = s)
      /\ \A j \in Line : j # k => size[j] = c.size[j]
  BY <1>1, CacheFields
<1>3. /\ hash \in [Line -> Names] /\ hash[k] = (IF mask THEN NoName ELSE n)
      /\ \A j \in Line : j # k => hash[j] = c.hash[j]
  BY NameFacts, CacheFields
<1>4. /\ used \in [Line -> Int] /\ used[k] =< 0
      /\ \A j \in Line : j # k => used[j] = c.used[j]
  BY <1>1, CacheFields
<1>5. /\ order \in [Line -> Nat] /\ last \in Line
      /\ data \in [Line -> Buffers] /\ data[k] = Buffer("unwritten", run)
      /\ \A j \in Line : j # k => data[j] = c.data[j]
  BY BufferFacts, CacheFields
<1>6. mem = SumFunctionOnSet(size, Line) /\ mem \in Int
  <2>1. /\ IsFiniteSet(Line) /\ c.allmem = SumFunctionOnSet(c.size, Line) /\ c.allmem \in Int
        /\ \A j \in Line : c.size[j] \in Int /\ size[j] \in Int
        /\ \A j \in Line : j # k => c.size[j] = size[j]
    BY <1>2, LineFacts, CacheFields DEF Counts
  <2>2. size[k] = IF grow THEN s ELSE c.size[k]
    BY CacheFields
  <2> HIDE DEF size
  <2>3. SumFunctionOnSet(size, Line) = SumFunctionOnSet(c.size, Line) - c.size[k] + size[k]
    BY <2>1, SumOverChange
  <2>4. CASE grow
    BY <1>1, <2>1, <2>2, <2>3, <2>4
  <2>5. CASE ~grow
    <3>1. size[k] = c.size[k] /\ mem = c.allmem
      BY <2>2, <2>5
    <3> HIDE DEF mem
    <3> QED BY <1>1, <2>1, <2>3, <3>1
  <2> QED BY <2>4, <2>5
<1>7. d = [c EXCEPT !.lastline = last, !.size = size, !.allmem = mem, !.hash = hash,
                    !.used = used, !.order = order, !.data = data]
  BY DEF Reserved
<1> HIDE DEF s, grow, size, mem, hash, used, order, data, last, d
<1>8. /\ d \in CacheStates /\ d.hash = hash /\ d.size = size /\ d.used = used /\ d.data = data
      /\ d.allmem = mem /\ d.calls = c.calls /\ d.interrupted = c.interrupted
  BY <1>2, <1>3, <1>4, <1>5, <1>6, <1>7 DEF CacheStates
<1> USE DEF d
<1> QED BY <1>2, <1>3, <1>4, <1>5, <1>6, <1>8 DEF Counts, s

LEMMA NameOfFacts ==
  ASSUME IsTyped, NEW p \in 0..Gamma
  PROVE  /\ NameOf(p) \in Names /\ NameOf(p) # NoName /\ NameOf(p) = NameIn(run, pieces, p)
         /\ NameOf(p).roi = run /\ NameOf(p).work = Hashes(pieces, p)
         /\ Hashes(pieces, p) \in Seq(Nat) /\ Len(Hashes(pieces, p)) = p
<1>1. Gamma \in Nat /\ \A i \in 1..p : i \in Module /\ pieces[i].hash \in Nat
  BY PipeConstants DEF IsTyped, Module
<1>2. Hashes(pieces, p) \in [1..p -> Nat] /\ p \in Nat
  BY <1>1 DEF Hashes
<1>3. Hashes(pieces, p) \in Seq(Nat) /\ Len(Hashes(pieces, p)) = p
  <2>1. \A q \in Nat : \A s \in [1..q -> Nat] : s \in Seq(Nat) /\ Len(s) = q
    OBVIOUS
  <2> QED BY <1>2, <2>1
<1>4. /\ NameOf(p) = NameIn(run, pieces, p)
      /\ NameOf(p) = [roi |-> run, work |-> Hashes(pieces, p)]
  BY DEF NameOf, NameIn, Hashes
<1>5. Hashes(pieces, p) \in Seq(Int) /\ run \in Roi
  BY <1>3 DEF IsTyped
<1> HIDE DEF Hashes
<1>6. NameOf(p) \in Names /\ NameOf(p).roi = run /\ NameOf(p).work = Hashes(pieces, p)
  BY <1>4, <1>5 DEF Names
<1> QED BY <1>3, <1>4, <1>6, NameFacts

(* What a call of Get gives, a line k and a cache d: a line that is of the *)
(* run's size and not the one the last call gave (unless it is that of the *)
(* name asked for), either empty or holding what the name says.            *)
Given(k, d, p) ==
  /\ k \in Line /\ d \in CacheStates /\ Counts(d) /\ Sized(d) /\ Unique(d) /\ Honest(d, {})
  /\ MadeFor(d, k, run) /\ Recent(d, k) /\ d.interrupted = cache.interrupted
  /\ k \in Named /\ d.hash[k] # NoName => d.hash[k] = NameOf(p) /\ ~mask
  /\ \/ d.data[k].kind = "unwritten"
     \/ k \in Named /\ d.hash[k] = NameOf(p) /\ ~mask
  /\ \A j \in Line : j # k => d.data[j] = cache.data[j] /\ d.size[j] = cache.size[j]
  /\ Recent(cache, k) => k \in Named /\ cache.hash[k] = NameOf(p)

LEMMA TakenFacts ==
  ASSUME IsTyped, NEW p \in 0..Gamma, NEW k, NEW important \in BOOLEAN,
         Sized(cache), Honest(cache, {}), Counts(cache), Unique(cache),
         k \in Hits(Aged(cache), NameOf(p)), ~mask
  PROVE  Given(k, [Aged(cache) EXCEPT !.used[k] = -Entries], p)
<1>1. PICK c : c = Aged(cache)
  OBVIOUS
<1>2. /\ c \in CacheStates /\ c.hash = cache.hash /\ c.size = cache.size
      /\ c.data = cache.data /\ c.allmem = cache.allmem /\ c.interrupted = cache.interrupted
  BY <1>1, AgedIs DEF IsTyped
<1>3. k \in Named /\ k \in Line /\ cache.hash[k] = NameOf(p)
  BY <1>1, <1>2, LineFacts DEF Hits
<1>4. PICK used : used = [c.used EXCEPT ![k] = -Entries]
  OBVIOUS
<1>5. used \in [Line -> Int] /\ used[k] =< 0
  BY <1>2, <1>3, <1>4, CacheFields, PipeConstants
<1>6. PICK d : d = [c EXCEPT !.used = used]
  OBVIOUS
<1>7. /\ d \in CacheStates /\ d.hash = cache.hash /\ d.size = cache.size
      /\ d.data = cache.data /\ d.allmem = cache.allmem /\ d.interrupted = cache.interrupted
      /\ d.used = used
  BY <1>2, <1>5, <1>6 DEF CacheStates
<1>8. d = [Aged(cache) EXCEPT !.used[k] = -Entries]
  BY <1>1, <1>4, <1>6
<1>9. NameOf(p) # NoName /\ NameOf(p).roi = run
  BY NameOfFacts
<1>10. SizeOf(run) \in Nat /\ cache.size[k] = SizeOf(run) /\ cache.data[k].roi = run
  BY <1>3, <1>9, SizeFacts DEF Sized, IsTyped
<1>11. MadeFor(d, k, run) /\ Recent(d, k)
  BY <1>3, <1>5, <1>7, <1>10 DEF MadeFor, Recent
<1>12. Counts(d) /\ Sized(d) /\ Unique(d) /\ Honest(d, {})
  BY <1>7 DEF Counts, Sized, Unique, Honest, Says
<1>13. Given(k, d, p)
  BY <1>3, <1>7, <1>11, <1>12 DEF Given
<1> QED BY <1>8, <1>13

LEMMA ReservedFacts ==
  ASSUME IsTyped, NEW p \in 0..Gamma, NEW c, NEW important \in BOOLEAN,
         Counts(cache), Sized(cache), Unique(cache), Honest(cache, {}),
         Forgets(c, Aged(cache)), mask \/ \A j \in Named : c.hash[j] # NameOf(p)
  PROVE  Given(GetCacheLine(c), Reserved(c, GetCacheLine(c), NameOf(p), p, important), p)
<1>1. PICK b : b = Aged(cache)
  OBVIOUS
<1>2. /\ b \in CacheStates /\ b.hash = cache.hash /\ b.size = cache.size
      /\ b.data = cache.data /\ b.allmem = cache.allmem /\ b.interrupted = cache.interrupted
      /\ b.calls = 1 - cache.calls /\ \A j \in Line : b.used[j] = cache.used[j] + 1
  BY <1>1, AgedIs DEF IsTyped
<1>3. Counts(b) /\ Sized(b) /\ Unique(b) /\ Honest(b, {})
  BY <1>2 DEF Counts, Sized, Unique, Honest, Says
<1>4. /\ c \in CacheStates /\ Counts(c) /\ Sized(c) /\ Unique(c) /\ Honest(c, {})
      /\ c.size = cache.size /\ c.data = cache.data /\ c.interrupted = cache.interrupted
      /\ c.calls = 1 - cache.calls
      /\ \A j \in Line : c.used[j] = cache.used[j] + 1 \/ c.used[j] =< 0
  BY <1>1, <1>2, <1>3, ForgetsKeeps DEF Forgets
<1>5. PICK k : k = GetCacheLine(c)
  OBVIOUS
<1>6. mask \in BOOLEAN /\ run \in Roi /\ cache \in CacheStates
  BY DEF IsTyped
<1>7. k \in Line /\ (k = c.calls \/ (k \in Named /\ c.used[k] > 1))
  BY <1>4, <1>5, <1>6, LineTaken
<1>8. PICK d : d = Reserved(c, k, NameOf(p), p, important)
  OBVIOUS
<1>9. p \in Nat /\ NameOf(p) \in Names /\ NameOf(p).roi = run
  BY NameOfFacts, PipeConstants
<1>10. /\ d \in CacheStates /\ Counts(d) /\ d.interrupted = c.interrupted /\ d.calls = c.calls
       /\ d.hash[k] = (IF mask THEN NoName ELSE NameOf(p)) /\ d.used[k] =< 0
       /\ d.data[k] = Buffer("unwritten", run)
       /\ d.size[k] >= SizeOf(run) /\ (Entries # 2 => d.size[k] = SizeOf(run))
       /\ \A j \in Line : j # k => /\ d.hash[j] = c.hash[j] /\ d.used[j] = c.used[j]
                                   /\ d.data[j] = c.data[j] /\ d.size[j] = c.size[j]
  <2>1. c \in CacheStates /\ Counts(c) /\ k \in Line
    BY <1>4, <1>7
  <2> QED BY <2>1, <1>6, <1>8, <1>9, ReservedIs
<1>11. d.data[k].kind = "unwritten" /\ d.data[k].roi = run
  BY <1>6, <1>10, BufferFacts
<1>12. Recent(d, k)
  <2>1. k \notin Named => k = d.calls
    BY <1>7, <1>10
  <2> QED BY <2>1, <1>10 DEF Recent
<1>13. MadeFor(d, k, run)
  BY <1>10, <1>11 DEF MadeFor
<1>14. Named \subseteq Line /\ (Named # {} => Entries # 2)
  BY LineFacts
<1>15. Sized(d)
  <2> SUFFICES ASSUME NEW j \in Named, d.hash[j] # NoName
               PROVE  d.size[j] = SizeOf(d.hash[j].roi) /\ d.data[j].roi = d.hash[j].roi
    BY DEF Sized
  <2>1. CASE j = k
    BY <2>1, <1>9, <1>10, <1>11, <1>14
  <2>2. CASE j # k
    BY <2>2, <1>4, <1>10, <1>14 DEF Sized
  <2> QED BY <2>1, <2>2
<1>16. Unique(d)
  <2> SUFFICES ASSUME NEW i \in Named, NEW j \in Named, d.hash[i] = d.hash[j], i # j,
                      d.hash[j] # NoName
               PROVE  FALSE
    BY DEF Unique
  <2>1. CASE i = k
    BY <2>1, <1>10, <1>14
  <2>2. CASE j = k
    BY <2>2, <1>10, <1>14
  <2>3. CASE i # k /\ j # k
    BY <2>3, <1>4, <1>10, <1>14 DEF Unique
  <2> QED BY <2>1, <2>2, <2>3
<1>17. Honest(d, {})
  <2> SUFFICES ASSUME NEW j \in Named, d.hash[j] # NoName PROVE Says(d, j)
    BY DEF Honest
  <2>1. CASE j = k
    BY <2>1, <1>11 DEF Says
  <2>2. CASE j # k
    BY <2>2, <1>4, <1>10, <1>14 DEF Honest, Says
  <2> QED BY <2>1, <2>2
<1>18. ~Recent(cache, k)
  <2>1. cache.calls \in {0, 1} /\ cache.used[k] \in Int /\ c.calls \in Line
    <3>1. c.calls \in {0, 1} /\ cache.calls \in {0, 1} /\ cache.used \in [Line -> Int]
      <4>1. c.calls \in {0, 1}
        BY <1>4, CacheFields
      <4>2. cache.calls \in {0, 1} /\ cache.used \in [Line -> Int]
        BY <1>6, CacheFields
      <4> QED BY <4>1, <4>2
    <3> QED BY <1>7, <3>1, LineFacts
  <2>2. CASE k = c.calls
    <3>1. k \notin Named
      BY <2>1, <2>2, <1>4, LineFacts
    <3> QED BY <2>1, <2>2, <3>1, <1>4 DEF Recent
  <2>3. CASE k \in Named /\ c.used[k] > 1
    <3>1. c.used[k] = cache.used[k] + 1
      <4>1. c.used[k] = cache.used[k] + 1 \/ c.used[k] =< 0
        BY <1>4, <1>7
      <4>2. c.used[k] \in Int
        BY <1>4, <1>7, CacheFields
      <4> QED BY <4>1, <4>2, <2>3
    <3>2. cache.used[k] > 0
      BY <2>1, <2>3, <3>1
    <3> QED BY <2>1, <2>3, <3>2 DEF Recent
  <2> QED BY <1>7, <2>2, <2>3
<1>19. Given(k, d, p)
  BY <1>4, <1>6, <1>7, <1>10, <1>11, <1>12, <1>13, <1>15, <1>16, <1>17, <1>18 DEF Given
<1> QED BY <1>5, <1>8, <1>19

LEMMA GetFacts ==
  ASSUME IsTyped, Counts(cache), Sized(cache), Unique(cache), Honest(cache, {}),
         NEW p \in 0..Gamma, NEW important \in BOOLEAN
  PROVE  Given(Get(p, important).line, Get(p, important).cache, p)
<1> DEFINE n == NameOf(p)
           c == Aged(cache)
           hits == IF Entries = 2 THEN {} ELSE Hits(c, n)
           h == [k \in Line |-> IF k \in hits THEN NoName ELSE c.hash[k]]
           clean == IF mask THEN [c EXCEPT !.hash = h] ELSE c
<1>1. c \in CacheStates /\ mask \in BOOLEAN
  BY AgedIs DEF IsTyped
<1>2. CASE hits # {} /\ ~mask
  <2>1. hits \subseteq Nat /\ hits \subseteq Hits(c, n)
    BY LineFacts DEF Hits
  <2>2. Min(hits) \in hits
    <3> HIDE DEF hits
    <3> QED BY <1>2, <2>1, MinIsLeast
  <2>3. Given(Min(hits), [c EXCEPT !.used[Min(hits)] = -Entries], p)
    <3>1. Min(hits) \in Hits(c, n)
      BY <2>1, <2>2
    <3> HIDE DEF hits
    <3> QED BY <1>2, <3>1, TakenFacts
  <2>4. /\ Get(p, important).line = Min(hits)
        /\ Get(p, important).cache = [c EXCEPT !.used[Min(hits)] = -Entries]
    BY <1>2 DEF Get
  <2> QED BY <2>3, <2>4
<1>3. CASE ~(hits # {} /\ ~mask)
  <2>1. h \in [Line -> Names] /\ \A k \in Line : h[k] = NoName \/ h[k] = c.hash[k]
    BY <1>1, CacheFields, NameFacts
  <2>2. Forgets(clean, c)
    <3> HIDE DEF c, h
    <3>1. CASE ~mask
      BY <1>1, <3>1 DEF Forgets
    <3>2. CASE mask
      <4>1. clean = [c EXCEPT !.hash = h]
        BY <3>2
      <4> HIDE DEF clean
      <4> QED BY <1>1, <2>1, <4>1 DEF Forgets, CacheStates
    <3> QED BY <3>1, <3>2
  <2>3. mask \/ \A j \in Named : clean.hash[j] # n
    BY <1>1, <1>3, LineFacts DEF Hits
  <2>4. /\ Get(p, important).line = GetCacheLine(clean)
        /\ Get(p, important).cache = Reserved(clean, GetCacheLine(clean), n, p, important)
    BY <1>3 DEF Get
  <2> HIDE DEF clean
  <2> QED BY <2>2, <2>3, <2>4, ReservedFacts
<1> QED BY <1>2, <1>3

-----------------------------------------------------------------------------
(* What the modules compute. *)

LEMMA HashesFacts ==
  ASSUME IsTyped
  PROVE  /\ Hashes(pieces, 0) = <<>>
         /\ \A p \in 1..Gamma : Append(Hashes(pieces, p - 1), pieces[p].hash) = Hashes(pieces, p)
         /\ \A p \in 1..Gamma : NameOf(p - 1) # NameOf(p)
<1>1. Gamma \in Nat /\ 0 \in 0..Gamma
  BY PipeConstants
<1>2. Hashes(pieces, 0) = <<>>
  <2>1. Hashes(pieces, 0) \in Seq(Nat) /\ Len(Hashes(pieces, 0)) = 0
    BY <1>1, NameOfFacts
  <2> QED BY <2>1
<1>3. ASSUME NEW p \in 1..Gamma
      PROVE  /\ Append(Hashes(pieces, p - 1), pieces[p].hash) = Hashes(pieces, p)
             /\ NameOf(p - 1) # NameOf(p)
  <2>1. p \in 0..Gamma /\ p - 1 \in 0..Gamma /\ p \in Module /\ p \in Nat
    BY <1>1 DEF Module
  <2>2. /\ Hashes(pieces, p) \in Seq(Nat) /\ Len(Hashes(pieces, p)) = p
        /\ Hashes(pieces, p - 1) \in Seq(Nat) /\ Len(Hashes(pieces, p - 1)) = p - 1
        /\ NameOf(p).work = Hashes(pieces, p) /\ NameOf(p - 1).work = Hashes(pieces, p - 1)
    BY <2>1, NameOfFacts
  <2>3. pieces[p].hash \in Nat
    BY <2>1 DEF IsTyped
  <2>4. \A i \in 1..p : Hashes(pieces, p)[i] = pieces[i].hash
    BY DEF Hashes
  <2>5. \A i \in 1..p - 1 : Hashes(pieces, p - 1)[i] = pieces[i].hash
    BY DEF Hashes
  <2> DEFINE s == Append(Hashes(pieces, p - 1), pieces[p].hash)
  <2> HIDE DEF Hashes
  <2>6. /\ s \in Seq(Nat) /\ Len(s) = p /\ s[p] = pieces[p].hash
        /\ \A i \in 1..p - 1 : s[i] = Hashes(pieces, p - 1)[i]
    BY <2>1, <2>2, <2>3
  <2> HIDE DEF s
  <2>7. \A i \in 1..p : s[i] = Hashes(pieces, p)[i]
    <3> TAKE i \in 1..p
    <3>1. i \in 1..p - 1 \/ i = p
      BY <2>1
    <3> QED BY <3>1, <2>4, <2>5, <2>6
  <2>8. s = Hashes(pieces, p)
    BY <2>2, <2>6, <2>7
  <2> QED BY <2>1, <2>2, <2>8 DEF s
<1> QED BY <1>2, <1>3

-----------------------------------------------------------------------------
(* The initial states. *)

LEMMA InitHolds == Init => PipeInv
<1> SUFFICES ASSUME Init PROVE PipeInv
  OBVIOUS
<1>1. \A k \in Line : 64 + k \in Int
  BY LineFacts
<1>2. /\ cache = [hash |-> [k \in Line |-> NoName], size |-> [k \in Line |-> 0],
                  used |-> [k \in Line |-> 64 + k], order |-> [k \in Line |-> 0],
                  data |-> [k \in Line |-> NoData],
                  calls |-> 0, lastline |-> 0, allmem |-> 0, interrupted |-> FALSE]
      /\ backbuf = NoData /\ pc = "idle" /\ pos = 0 /\ run = FullRoi /\ input = PipeInput
      /\ out = PipeInput /\ early = FALSE /\ status = "DIRTY" /\ mask = FALSE
  BY DEF Init
<1>3. cache \in CacheStates
  BY <1>1, <1>2, LineFacts, SizeFacts, NameFacts, BufferFacts DEF CacheStates
<1>4. backbuf \in Buffers /\ run \in Roi /\ input \in 0..Entries /\ out \in 0..Entries
  BY <1>2, SizeFacts, BufferFacts, LineFacts
<1>5. IsTyped
  <2>1. 0 \in 0..Gamma /\ 0 \in Nat
    BY PipeConstants
  <2>2. /\ params \in [Module -> Nat] /\ history \in [Module -> Nat] /\ gestures \in Nat
        /\ top \in 0..Gamma /\ lastModule \in 0..Gamma /\ roi \in Roi
    BY <2>1 DEF Init
  <2>3. /\ status \in {"DIRTY", "RUNNING", "VALID"} /\ shutdown \in {"NO", "HQ"}
        /\ changed \subseteq {"TOP", "SYNCH", "REMOVE", "ZOOMED"}
        /\ pieces \in [Module -> [params : Nat, hash : Nat]]
    BY <2>1 DEF Init
  <2>4. mask \in BOOLEAN /\ pc \in Points /\ pos \in 0..Gamma /\ early \in BOOLEAN
    BY <1>2, <2>1 DEF Points
  <2> QED BY <1>3, <1>4, <2>2, <2>3, <2>4 DEF IsTyped
<1>6. CacheInv
  <2>1. \A k \in Line : cache.hash[k] = NoName /\ cache.size[k] = 0
    BY <1>2
  <2>2. SumFunctionOnSet(cache.size, Line) = 0
    <3>1. cache.size = [k \in Line |-> 0]
      BY <1>2
    <3> QED BY <3>1, LineFacts, ZeroSum
  <2>3. cache.allmem = 0
    BY <1>2
  <2>4. Named \subseteq Line
    BY LineFacts
  <2> QED BY <2>1, <2>2, <2>3, <2>4 DEF CacheInv, Counts, Sized, Unique, Honest
<1>7. PosInv /\ InputInv /\ OutInv /\ BackInv
  <2>1. backbuf.kind # "image"
    BY <1>2 DEF NoData, Buffer
  <2> QED BY <1>2, <2>1 DEF PosInv, InputInv, OutInv, BackInv, Due
<1> QED BY <1>5, <1>6, <1>7 DEF PipeInv

-----------------------------------------------------------------------------
(* The steps of the GUI, which leave the job alone. *)

LEMMA GuiKeeps ==
  ASSUME PipeInv, Forgets(cache', cache), UNCHANGED <<jobVars, mask, pieces>>
  PROVE  CacheInv' /\ PosInv' /\ InputInv' /\ OutInv'
<1>1. cache \in CacheStates /\ cache' \in CacheStates
  BY DEF PipeInv, IsTyped, Forgets
<1>2. /\ Counts(cache) /\ Sized(cache) /\ Unique(cache) /\ Honest(cache, Written)
      /\ Written' = Written
  BY DEF PipeInv, CacheInv, Written, jobVars
<1>3. /\ Counts(cache') /\ Sized(cache') /\ Unique(cache') /\ Honest(cache', Written)
      /\ \A k \in Line : Recent(cache, k) => Recent(cache', k)
      /\ \A k, r : MadeFor(cache, k, r) => MadeFor(cache', k, r)
  BY <1>1, <1>2, ForgetsKeeps
<1>4. CacheInv'
  BY <1>2, <1>3 DEF CacheInv
<1>5. PosInv'
  BY DEF PipeInv, PosInv, jobVars
<1>6. /\ cache'.data = cache.data /\ cache'.interrupted = cache.interrupted
      /\ \A k \in Line : cache'.hash[k] = NoName \/ cache'.hash[k] = cache.hash[k]
  BY DEF Forgets
<1>7. /\ pc' = pc /\ pos' = pos /\ run' = run /\ input' = input /\ out' = out
      /\ mask' = mask /\ pieces' = pieces
  BY DEF jobVars
<1>8. InputInv'
  <2>1. /\ InputInv /\ Named \subseteq Line
        /\ \A k, work : Holds(cache, k, work, mask) => Holds(cache', k, work, mask)
    BY <1>6, LineFacts DEF PipeInv, Holds
  <2>2. pc \in {"up", "run", "ran"} /\ input # PipeInput => MadeFor(cache', input, run)
    BY <1>3, <2>1 DEF InputInv
  <2>3. pc = "up" /\ input # PipeInput => Recent(cache', input)
    BY <1>3, <2>1 DEF InputInv
  <2> QED BY <1>6, <1>7, <2>1, <2>2, <2>3 DEF InputInv
<1>9. OutInv'
  <2>1. /\ OutInv /\ Named \subseteq Line /\ (pc \in {"run", "ran"} => out \in Line)
        /\ \A k, work : Holds(cache, k, work, mask) => Holds(cache', k, work, mask)
    BY <1>6, LineFacts DEF PipeInv, PosInv, Holds
  <2>2. pc \in {"run", "ran"} => MadeFor(cache', out, run) /\ Recent(cache', out)
    BY <1>3, <2>1 DEF OutInv
  <2> QED BY <1>6, <1>7, <2>1, <2>2 DEF OutInv
<1> QED BY <1>4, <1>5, <1>8, <1>9

LEMMA GuiBack ==
  ASSUME PipeInv, UNCHANGED <<jobVars, pieces, backbuf>>,
         changed \subseteq changed', shutdown # "NO" => shutdown' # "NO",
         status' = "VALID" => status = "VALID",
         status' = "VALID" /\ ~redraw' => ~misfit' \/ todo' = <<"zoomed">>
  PROVE  BackInv'
BY DEF PipeInv, BackInv, Due, jobVars

LEMMA UserStep ==
  ASSUME PipeInv, User
  PROVE  PipeInv'
<1>1. /\ todo = <<>> /\ gestures' = gestures + 1
      /\ UNCHANGED <<jobVars, flagVars, mask, pieces, cache, backbuf, history, top,
                     lastModule, redraw>>
  BY DEF User, Drag, Zoom, ToggleHighQuality, ToggleMask, Gesture
<1>2. todo' = <<"zoomed">> \/ roi' = roi
  BY DEF User, Drag, Zoom, ToggleHighQuality, ToggleMask, Gesture
<1>3. params' \in [Module -> Nat] /\ roi' \in Roi
  BY DEF User, Drag, Zoom, ToggleHighQuality, ToggleMask, Gesture, PipeInv, IsTyped
<1>4. gestures' \in Nat
  BY <1>1 DEF PipeInv, IsTyped
<1>5. IsTyped'
  BY <1>1, <1>3, <1>4 DEF PipeInv, IsTyped, jobVars, flagVars
<1>6. Forgets(cache', cache)
  BY <1>1 DEF PipeInv, IsTyped, Forgets
<1>7. BackInv'
  <2>1. todo # <<"zoomed">>
    BY <1>1
  <2>2. roi' = roi => (misfit' <=> misfit)
    BY <1>1 DEF misfit
  <2>3. status' = "VALID" /\ ~redraw' => ~misfit' \/ todo' = <<"zoomed">>
    BY <1>1, <1>2, <2>1, <2>2 DEF PipeInv, BackInv, flagVars
  <2> QED BY <1>1, <2>3, GuiBack DEF flagVars
<1> QED BY <1>1, <1>5, <1>6, <1>7, GuiKeeps DEF PipeInv

LEMMA StoreStep ==
  ASSUME PipeInv, Store
  PROVE  PipeInv'
<1>1. UNCHANGED <<jobVars, mask, pieces, backbuf, roi, params, gestures>>
  BY DEF Store, AddHistoryItem, StoreFlag, StoreStop, StoreObsolete, Invalidate,
         InvalidateLater
<1>2. /\ status' \in {status, "DIRTY"} /\ shutdown' \in {shutdown, "HQ"}
      /\ changed \subseteq changed' /\ changed' \subseteq {"TOP", "SYNCH", "REMOVE", "ZOOMED"}
      /\ status' = "DIRTY" \/ redraw' \/ (~redraw /\ todo # <<"zoomed">>)
  <2>1. CASE \E m \in Editable : AddHistoryItem(m)
    <3>1. PICK m \in Editable : AddHistoryItem(m)
      BY <2>1
    <3>2. changed' = changed \cup {IF m = top THEN "TOP" ELSE "SYNCH"}
      BY <3>1 DEF AddHistoryItem
    <3> QED BY <3>1, <3>2 DEF AddHistoryItem, PipeInv, IsTyped
  <2>2. CASE \E what \in DOMAIN FlagOf : StoreFlag(what)
    <3>1. PICK what \in {"zoomed", "synch", "remove"} : StoreFlag(what)
      BY <2>2 DEF FlagOf
    <3>2. FlagOf[what] \in {"SYNCH", "REMOVE", "ZOOMED"}
      BY DEF FlagOf
    <3>3. Len(<<"zoomed">>) = 1
      OBVIOUS
    <3>4. redraw' \/ (~redraw /\ todo # <<"zoomed">>)
      BY <3>1, <3>3 DEF StoreFlag
    <3> QED BY <3>1, <3>2, <3>4 DEF StoreFlag, PipeInv, IsTyped
  <2>3. CASE StoreStop \/ StoreObsolete \/ Invalidate \/ InvalidateLater
    <3>1. changed' = changed
      BY <2>3 DEF StoreStop, StoreObsolete, Invalidate, InvalidateLater,
                  flagVars
    <3>2. Head(<<"zoomed">>) = "zoomed"
      OBVIOUS
    <3>3. status' \in {status, "DIRTY"} /\ shutdown' \in {shutdown, "HQ"}
      BY <2>3 DEF StoreStop, StoreObsolete, Invalidate, InvalidateLater,
                  flagVars
    <3>4. status' = "DIRTY" \/ redraw' \/ (~redraw /\ todo # <<"zoomed">>)
      BY <2>3, <3>2 DEF StoreStop, StoreObsolete, Invalidate, InvalidateLater, Stored,
                       flagVars
    <3> QED BY <3>1, <3>3, <3>4 DEF PipeInv, IsTyped
  <2> QED BY <2>1, <2>2, <2>3 DEF Store
<1>3. history' \in [Module -> Nat] /\ top' \in 0..Gamma /\ lastModule' \in 0..Gamma
  <2>1. CASE \E m \in Editable : AddHistoryItem(m)
    <3>1. PICK m \in Editable : AddHistoryItem(m)
      BY <2>1
    <3>2. m \in Module /\ m \in 0..Gamma
      BY PipeConstants DEF Module
    <3>3. params[m] \in Nat
      BY <3>2 DEF PipeInv, IsTyped
    <3> QED BY <3>1, <3>2, <3>3 DEF AddHistoryItem, PipeInv, IsTyped
  <2>2. CASE ~\E m \in Editable : AddHistoryItem(m)
    BY <2>2 DEF Store, StoreFlag, StoreStop, StoreObsolete, Invalidate, InvalidateLater,
                PipeInv, IsTyped
  <2> QED BY <2>1, <2>2
<1>4. Forgets(cache', cache)
  <2>1. cache \in CacheStates
    BY DEF PipeInv, IsTyped
  <2>2. CASE cache' = cache
    BY <2>1, <2>2 DEF Forgets
  <2>3. CASE cache' # cache
    <3>1. cache' = InvalidLater(cache, Focus)
      BY <2>3 DEF Store, AddHistoryItem, StoreFlag, StoreStop, StoreObsolete, Invalidate,
                  InvalidateLater
    <3> QED BY <2>1, <3>1, InvalidForgets DEF InvalidLater
  <2> QED BY <2>2, <2>3
<1>5. cache' \in CacheStates
  BY <1>4 DEF Forgets
<1>6. IsTyped'
  BY <1>1, <1>2, <1>3, <1>5 DEF PipeInv, IsTyped, jobVars
<1>7. BackInv'
  <2>1. misfit' <=> misfit
    BY <1>1 DEF misfit
  <2>3. status' = "VALID" /\ ~redraw' => ~misfit' \/ todo' = <<"zoomed">>
    BY <1>2, <2>1 DEF PipeInv, BackInv
  <2> QED BY <1>1, <1>2, <2>3, GuiBack
<1> QED BY <1>1, <1>4, <1>6, <1>7, GuiKeeps DEF PipeInv

LEMMA ExposeStep ==
  ASSUME PipeInv, Expose
  PROVE  PipeInv'
<1>1. /\ UNCHANGED <<jobVars, mask, pieces, backbuf, roi, params, gestures, cache, history,
                     top, lastModule, shutdown>>
      /\ status' \in {status, "DIRTY"} /\ changed \subseteq changed'
      /\ changed' \subseteq changed \cup {"ZOOMED"}
      /\ status' = "VALID" => ~misfit
  BY DEF Expose
<1>2. IsTyped'
  BY <1>1 DEF PipeInv, IsTyped, jobVars
<1>3. Forgets(cache', cache)
  BY <1>1 DEF PipeInv, IsTyped, Forgets
<1>4. BackInv'
  <2>1. misfit' <=> misfit
    BY <1>1 DEF misfit
  <2> QED BY <1>1, <2>1, GuiBack
<1> QED BY <1>1, <1>2, <1>3, <1>4, GuiKeeps DEF PipeInv

-----------------------------------------------------------------------------
(* The steps of the job between two runs, and at the ends of a run.        *)

(* Where no line is read or written, the cache has to be in order.         *)
LEMMA AtRest ==
  ASSUME pc' \notin {"up", "run", "ran", "copy"},
         pc' \in {"down", "hit", "base"} => ~mask', pc' = "base" => pos' = 0,
         Counts(cache'), Sized(cache'), Unique(cache'), Honest(cache', {})
  PROVE  CacheInv' /\ PosInv' /\ InputInv' /\ OutInv'
BY DEF CacheInv, Written, PosInv, InputInv, OutInv

LEMMA CacheAtRest ==
  ASSUME PipeInv, pc # "ran"
  PROVE  Counts(cache) /\ Sized(cache) /\ Unique(cache) /\ Honest(cache, {})
BY DEF PipeInv, CacheInv, Written

LEMMA StartStep ==
  ASSUME PipeInv, StartJob
  PROVE  PipeInv'
<1>1. pc' \in {"idle", "restart"} /\ status' \in {status, "RUNNING"}
  BY DEF StartJob, Goto
<1>2. IsTyped'
  BY <1>1 DEF StartJob, guiVars, PipeInv, IsTyped, Points
<1>3. CacheInv' /\ PosInv' /\ InputInv' /\ OutInv'
  <2>1. cache' = cache /\ pc # "ran"
    BY DEF StartJob, Goto
  <2> QED BY <1>1, <2>1, CacheAtRest, AtRest
<1>4. BackInv'
  <2>1. pc' = "restart" => status' = "RUNNING"
    BY DEF StartJob, Goto
  <2>2. pc' = "idle" => status' = status \/ status' = "RUNNING"
    BY DEF StartJob, Goto
  <2>3. /\ UNCHANGED <<redraw, todo, roi, backbuf, pieces>> /\ pc = "idle"
        /\ (misfit' <=> misfit) /\ (Due' <=> Due)
    BY DEF StartJob, guiVars, misfit, Due
  <2> QED BY <1>1, <2>1, <2>2, <2>3 DEF PipeInv, BackInv
<1> QED BY <1>2, <1>3, <1>4 DEF PipeInv

(* The other steps of the job leave what the GUI reads alone. *)
LEMMA JobBack ==
  ASSUME PipeInv, pc # "idle", status' = status \/ redraw',
         status' = status \/ pc' = "idle", pc' = "idle" => status' = "VALID",
         pc' \in {"trim", "flush", "fresh", "down", "hit", "base", "up", "run", "ran", "copy"}
           => ~early',
         pc' \in {"finish", "check"} /\ early' =>
           changed' # {} \/ (pc' = "finish" /\ shutdown' # "NO"),
         (pc' \in {"finish", "check"} /\ ~early') \/ pc' \in {"dims", "valid", "idle"} =>
           Due' /\ backbuf'.kind # "none"
  PROVE  BackInv'
BY DEF PipeInv, BackInv

LEMMA RestartStep ==
  ASSUME PipeInv, Restart \/ Change \/ ClearChanged
  PROVE  PipeInv'
<1>1. /\ pc' \in {"change", "clear", "begin"} /\ pc \in {"restart", "change", "clear"}
      /\ UNCHANGED <<guiVars, status, obsolete, queued, mask, pos, run, input, out, early,
                     cache, backbuf>>
      /\ shutdown' \in {shutdown, "NO"}
  BY DEF Restart, Change, ClearChanged, Goto
<1>2. changed' \subseteq {"TOP", "SYNCH", "REMOVE", "ZOOMED"}
  BY DEF Restart, Change, ClearChanged, PipeInv, IsTyped
<1>3. pieces' \in [Module -> [params : Nat, hash : Nat]]
  <2>1. CASE Change
    <3>1. \A m \in Module : Committed(m) \in [params : Nat, hash : Nat]
      BY DEF Committed, PipeInv, IsTyped
    <3>2. top \in Module \/ top = 0
      BY PipeConstants DEF PipeInv, IsTyped, Module
    <3>3. pieces \in [Module -> [params : Nat, hash : Nat]]
      BY DEF PipeInv, IsTyped
    <3>4. [m \in Module |-> Committed(m)] \in [Module -> [params : Nat, hash : Nat]]
      BY <3>1
    <3>5. top # 0 => [pieces EXCEPT ![top] = Committed(top)]
                       \in [Module -> [params : Nat, hash : Nat]]
      BY <3>1, <3>2, <3>3
    <3> QED BY <2>1, <3>3, <3>4, <3>5 DEF Change
  <2>2. CASE Restart \/ ClearChanged
    BY <2>2 DEF Restart, ClearChanged, PipeInv, IsTyped
  <2> QED BY <2>1, <2>2
<1>4. IsTyped'
  BY <1>1, <1>2, <1>3 DEF PipeInv, IsTyped, guiVars, Points
<1>5. CacheInv' /\ PosInv' /\ InputInv' /\ OutInv'
  BY <1>1, CacheAtRest, AtRest
<1>6. BackInv'
  BY <1>1, JobBack
<1> QED BY <1>4, <1>5, <1>6 DEF PipeInv

LEMMA BeginStep ==
  ASSUME PipeInv, Begin \/ Trim \/ Flush \/ Fresh
  PROVE  PipeInv'
<1>1. /\ pc' \in {"trim", "flush", "fresh", "down"} /\ pc \in {"begin", "trim", "flush", "fresh"}
      /\ UNCHANGED <<guiVars, status, changed, shutdown, pieces, input, out, backbuf>>
      /\ run' \in {run, roi} /\ pos' \in {pos, Gamma} /\ mask' \in {mask, FALSE}
      /\ early' \in {early, FALSE} /\ (pc = "begin" => early' = FALSE)
      /\ (pc' = "down" => ~mask')
  BY DEF Begin, Trim, Flush, Fresh, Goto, flagVars
<1>2. /\ cache \in CacheStates
      /\ Counts(cache) /\ Sized(cache) /\ Unique(cache) /\ Honest(cache, {})
  BY <1>1, CacheAtRest DEF PipeInv, IsTyped
<1>3. /\ cache' \in CacheStates
      /\ Counts(cache') /\ Sized(cache') /\ Unique(cache') /\ Honest(cache', {})
  <2>1. CASE cache' = cache
    BY <1>2, <2>1
  <2>2. CASE Begin /\ cache' # cache
    <3> DEFINE lines == {k \in Named : cache.hash[k] = NoName}
    <3>1. cache' = Freed(cache, lines)
      BY <2>2 DEF Begin
    <3>2. lines \subseteq Named
      OBVIOUS
    <3> HIDE DEF lines
    <3> QED BY <1>2, <3>1, <3>2, FreedFacts
  <2>3. CASE Trim /\ cache' # cache
    <3> DEFINE lines == {j \in Named : cache.size[j] # 0}
               k == Oldest(cache, lines)
    <3>1. cache' = Freed(cache, {k}) /\ k # 0
      BY <2>3 DEF Trim
    <3>2. lines \subseteq Named
      OBVIOUS
    <3> HIDE DEF lines
    <3>3. k \in lines
      BY <1>2, <3>1, <3>2, OldestFacts
    <3> HIDE DEF k
    <3>4. {k} \subseteq Named
      BY <3>2, <3>3
    <3> QED BY <1>2, <3>1, <3>4, FreedFacts
  <2>4. CASE Flush /\ cache' # cache
    <3>1. cache' = Flushed(cache)
      BY <2>4 DEF Flush
    <3> QED BY <1>2, <3>1, FlushedFacts
  <2>5. CASE Fresh
    BY <1>2, <2>5 DEF Fresh
  <2> QED BY <2>1, <2>2, <2>3, <2>4, <2>5
<1>4. IsTyped'
  <2>1. Gamma \in 0..Gamma
    BY PipeConstants
  <2> QED BY <1>1, <1>3, <2>1 DEF PipeInv, IsTyped, guiVars, Points
<1>5. CacheInv' /\ PosInv' /\ InputInv' /\ OutInv'
  BY <1>1, <1>3, AtRest
<1>6. BackInv'
  <2>1. ~early'
    BY <1>1 DEF PipeInv, BackInv, IsTyped
  <2> QED BY <1>1, <2>1, JobBack
<1> QED BY <1>4, <1>5, <1>6 DEF PipeInv

LEMMA EndStep ==
  ASSUME PipeInv, Finish \/ CheckChanged \/ Dimensions \/ Valid
  PROVE  PipeInv'
<1>1. /\ pc' \in {"restart", "check", "valid", "dims", "idle"}
      /\ pc \in {"finish", "check", "dims", "valid"}
      /\ UNCHANGED <<params, history, gestures, top, lastModule, roi, pieces, mask, cache,
                     backbuf>>
      /\ status' \in {status, "VALID"} /\ shutdown' \in {shutdown, "NO"}
      /\ changed' \subseteq changed /\ pos' \in {pos, 0} /\ run' \in {run, FullRoi}
      /\ input' \in {input, PipeInput} /\ out' \in {out, PipeInput}
      /\ early' \in {early, FALSE}
  BY DEF Finish, CheckChanged, Dimensions, Valid, Goto, guiVars, flagVars
<1>2. IsTyped'
  <2>1. 0 \in 0..Gamma /\ FullRoi \in Roi /\ PipeInput \in 0..Entries
    BY PipeConstants, LineFacts
  <2>2. pc' \in Points /\ status' \in {"DIRTY", "RUNNING", "VALID"}
    BY <1>1 DEF Points, PipeInv, IsTyped
  <2>3. pos' \in 0..Gamma /\ run' \in Roi /\ input' \in 0..Entries /\ out' \in 0..Entries
    BY <1>1, <2>1 DEF PipeInv, IsTyped
  <2> QED BY <1>1, <2>2, <2>3 DEF PipeInv, IsTyped
<1>3. CacheInv' /\ PosInv' /\ InputInv' /\ OutInv'
  BY <1>1, CacheAtRest, AtRest
<1>4. /\ Due' <=> Due
      /\ backbuf'.kind = backbuf.kind
  BY <1>1 DEF Due
<1>5. BackInv'
  <2>1. CASE Finish
    <3>1. /\ pc = "finish" /\ (pc' = "check" => shutdown = "NO") /\ pc' \in {"restart", "check"}
          /\ status' = status /\ changed' = changed /\ early' = early
      BY <2>1 DEF Finish, Goto
    <3> QED BY <1>4, <3>1, JobBack DEF PipeInv, BackInv
  <2>2. CASE CheckChanged
    <3>1. /\ pc = "check" /\ pc' \in {"valid", "dims", "restart"} /\ status' = status
          /\ pc' = "valid" => changed = {}
          /\ pc' = "dims" => ~early
      BY <2>2 DEF CheckChanged, Goto, flagVars
    <3> QED BY <1>4, <3>1, JobBack DEF PipeInv, BackInv
  <2>3. CASE Dimensions
    <3>1. pc = "dims" /\ pc' = "valid" /\ status' = status
      BY <2>3 DEF Dimensions, Goto
    <3> QED BY <1>4, <3>1, JobBack DEF PipeInv, BackInv
  <2>4. CASE Valid
    <3>1. pc = "valid" /\ pc' = "idle" /\ status' = "VALID" /\ redraw'
      BY <2>4 DEF Valid, Goto
    <3> QED BY <1>4, <3>1, JobBack DEF PipeInv, BackInv
  <2> QED BY <2>1, <2>2, <2>3, <2>4
<1> QED BY <1>2, <1>3, <1>5 DEF PipeInv

-----------------------------------------------------------------------------
(* The recursion over the modules. *)

LEMMA StoppedStep ==
  ASSUME PipeInv, Stopped
  PROVE  PipeInv'
<1>1. /\ pc \in {"down", "up", "run", "ran"} /\ shutdown # "NO" /\ early' = TRUE
      /\ pc' = "finish" /\ UNCHANGED <<guiVars, flagVars, pieces, mask, pos, run, input, out,
                                       backbuf>>
  BY DEF Stopped, Abort, Goto
<1>2. PICK stopped \in BOOLEAN :
        /\ stopped <=> cache.interrupted \/ pc \in {"run", "ran"}
        /\ cache' = [cache EXCEPT !.interrupted = stopped]
  <2>1. cache.interrupted \in BOOLEAN
    BY CacheFields DEF PipeInv, IsTyped
  <2>2. cache' = [cache EXCEPT !.interrupted = cache.interrupted \/ pc \in {"run", "ran"}]
    BY DEF Stopped, Abort
  <2> QED BY <2>1, <2>2
<1>3. /\ cache \in CacheStates /\ cache' \in CacheStates
      /\ cache'.hash = cache.hash /\ cache'.size = cache.size /\ cache'.data = cache.data
      /\ cache'.allmem = cache.allmem /\ cache'.interrupted = stopped
  BY <1>2 DEF PipeInv, IsTyped, CacheStates
<1>4. IsTyped'
  BY <1>1, <1>3 DEF PipeInv, IsTyped, guiVars, flagVars, Points
<1>5. Counts(cache') /\ Sized(cache') /\ Unique(cache')
  BY <1>3 DEF PipeInv, CacheInv, Counts, Sized, Unique
<1>6. Honest(cache', {})
  <2> SUFFICES ASSUME NEW k \in Named, cache.hash[k] # NoName PROVE Says(cache', k)
    BY <1>3 DEF Honest
  <2>1. CASE pc = "ran" /\ k = out
    <3>1. pos \in 0..Gamma
      BY DEF PipeInv, IsTyped
    <3>2. cache.hash[k] = NameIn(run, pieces, pos)
      BY <2>1 DEF PipeInv, OutInv
    <3>3. /\ cache.data[k].kind = "image" => cache.data[k].work = cache.hash[k].work
          /\ cache.data[k].kind # "none"
      BY <2>1, <3>2 DEF PipeInv, OutInv, Holds, NameIn
    <3> QED BY <1>2, <1>3, <2>1, <3>3 DEF Says
  <2>2. CASE ~(pc = "ran" /\ k = out)
    <3>1. Says(cache, k)
      BY <2>2 DEF PipeInv, CacheInv, Honest, Written
    <3> QED BY <1>2, <1>3, <3>1 DEF Says
  <2> QED BY <2>1, <2>2
<1>7. CacheInv' /\ PosInv' /\ InputInv' /\ OutInv'
  BY <1>1, <1>5, <1>6, AtRest
<1>8. BackInv'
  BY <1>1, JobBack DEF flagVars
<1> QED BY <1>4, <1>7, <1>8 DEF PipeInv

LEMMA DownStep ==
  ASSUME PipeInv, Down
  PROVE  PipeInv'
<1>1. /\ pc = "down" /\ pc' \in {"down", "hit", "finish", "base"}
      /\ pc' = "base" => pos' = 0
      /\ UNCHANGED <<guiVars, flagVars, pieces, mask, run, input, out, cache, backbuf>>
  BY DEF Down, Goto
<1>2. pos' \in 0..Gamma
  <2>1. pos \in 0..Gamma /\ Gamma \in Nat
    BY PipeConstants DEF PipeInv, IsTyped
  <2>2. pos' = pos \/ (pos # 0 /\ pos' = pos - 1)
    BY DEF Down
  <2> QED BY <2>1, <2>2
<1>3. /\ early' \in {early, TRUE}
      /\ pc' # "finish" => early' = early
      /\ pc' = "finish" => changed # {} /\ early' = TRUE
  BY DEF Down, Goto
<1>4. IsTyped'
  BY <1>1, <1>2, <1>3 DEF PipeInv, IsTyped, guiVars, flagVars, Points
<1>5. CacheInv' /\ PosInv' /\ InputInv' /\ OutInv'
  BY <1>1, CacheAtRest, AtRest DEF PipeInv, PosInv
<1>6. BackInv'
  BY <1>1, <1>3, JobBack DEF flagVars, PipeInv, BackInv
<1> QED BY <1>4, <1>5, <1>6 DEF PipeInv

(* Where a call has its output in line k, the caller has it as its input.  *)
LEMMA Delivered ==
  ASSUME IsTyped, NEW k \in Line, Deliver(k), Recent(cache', k), MadeFor(cache', k, run),
         Counts(cache'), Sized(cache'), Unique(cache'), Honest(cache', {}),
         Holds(cache', k, Hashes(pieces, pos), mask),
         k \in Named /\ cache'.hash[k] # NoName => cache'.hash[k] = NameIn(run, pieces, pos),
         UNCHANGED <<pieces, mask, run>>
  PROVE  CacheInv' /\ PosInv' /\ InputInv' /\ OutInv'
<1>1. pos \in 0..Gamma /\ Gamma \in Nat /\ k # PipeInput
  BY PipeConstants, LineFacts DEF IsTyped
<1>2. CASE pos = Gamma
  <2>1. out' = k /\ pc' = "copy" /\ pos' = pos
    BY <1>2 DEF Deliver, Goto
  <2>2. CacheInv' /\ PosInv' /\ InputInv'
    BY <1>2, <2>1 DEF CacheInv, Written, PosInv, InputInv
  <2>3. OutInv'
    BY <2>1 DEF OutInv
  <2> QED BY <2>2, <2>3
<1>3. CASE pos # Gamma
  <2>1. pos' = pos + 1 /\ input' = k /\ pc' = "up" /\ pos' - 1 = pos /\ pos' >= 1
    BY <1>1, <1>3 DEF Deliver, Goto
  <2>2. CacheInv' /\ PosInv' /\ OutInv'
    BY <2>1 DEF CacheInv, Written, PosInv, OutInv
  <2>3. cache'.data[k].kind = "image" => cache'.data[k].work = Hashes(pieces, pos)
    BY DEF Holds
  <2>4. InputInv'
    BY <1>1, <2>1, <2>3 DEF InputInv
  <2> QED BY <2>2, <2>4
<1> QED BY <1>2, <1>3

LEMMA DeliverTypes ==
  ASSUME IsTyped, NEW k \in Line \cup {PipeInput}, Deliver(k)
  PROVE  /\ pos' \in 0..Gamma /\ input' \in 0..Entries /\ out' \in 0..Entries
         /\ pc' \in {"up", "copy"}
<1>1. pos \in 0..Gamma /\ Gamma \in Nat /\ k \in 0..Entries
  BY PipeConstants, LineFacts DEF IsTyped
<1>2. CASE pos = Gamma
  BY <1>1, <1>2 DEF Deliver, Goto, IsTyped
<1>3. CASE pos # Gamma
  <2>1. pos' = pos + 1 /\ input' = k /\ pc' = "up" /\ out' = out
    BY <1>3 DEF Deliver, Goto
  <2> QED BY <1>1, <1>3, <2>1 DEF IsTyped
<1> QED BY <1>2, <1>3

(* An output that Get has just given holds what its name says, or nothing. *)
LEMMA GivenHolds ==
  ASSUME IsTyped, NEW p \in 0..Gamma, NEW k, NEW d, Given(k, d, p)
  PROVE  Holds(d, k, Hashes(pieces, p), mask)
<1>1. CASE d.data[k].kind = "unwritten"
  BY <1>1 DEF Holds
<1>2. CASE k \in Named /\ d.hash[k] = NameOf(p) /\ ~mask
  <2>1. NameOf(p) # NoName /\ NameOf(p).work = Hashes(pieces, p)
    BY NameOfFacts
  <2>2. Says(d, k)
    BY <1>2, <2>1 DEF Given, Honest
  <2> QED BY <1>2, <2>1, <2>2 DEF Says, Holds
<1> QED BY <1>1, <1>2 DEF Given

LEMMA HitStep ==
  ASSUME PipeInv, Hit
  PROVE  PipeInv'
<1>1. PICK k, d : k = Get(pos, TRUE).line /\ d = Get(pos, TRUE).cache
  OBVIOUS
<1>2. /\ pc = "hit" /\ cache' = d /\ Deliver(k)
      /\ UNCHANGED <<guiVars, flagVars, pieces, mask, run, early, backbuf>>
  BY <1>1 DEF Hit
<1>3. pos \in 0..Gamma /\ IsTyped
  BY DEF PipeInv, IsTyped
<1>4. Given(k, d, pos)
  BY <1>1, <1>2, <1>3, CacheAtRest, GetFacts
<1>5. Holds(d, k, Hashes(pieces, pos), mask) /\ NameOf(pos) = NameIn(run, pieces, pos)
  BY <1>3, <1>4, GivenHolds, NameOfFacts
<1>6. /\ k \in Line /\ d \in CacheStates /\ Counts(d) /\ Sized(d) /\ Unique(d) /\ Honest(d, {})
      /\ MadeFor(d, k, run) /\ Recent(d, k)
      /\ k \in Named /\ d.hash[k] # NoName => d.hash[k] = NameIn(run, pieces, pos)
  BY <1>4, <1>5 DEF Given
<1>7. CacheInv' /\ PosInv' /\ InputInv' /\ OutInv'
  BY <1>2, <1>3, <1>5, <1>6, Delivered
<1>8. /\ pos' \in 0..Gamma /\ input' \in 0..Entries /\ out' \in 0..Entries
      /\ pc' \in {"up", "copy"}
  BY <1>2, <1>3, <1>6, DeliverTypes
<1>9. IsTyped'
  BY <1>2, <1>6, <1>8 DEF PipeInv, IsTyped, guiVars, flagVars, Points
<1>10. BackInv'
  BY <1>2, <1>8, JobBack DEF PipeInv, BackInv, flagVars
<1> QED BY <1>7, <1>9, <1>10 DEF PipeInv

(* A buffer written into a line. *)
LEMMA WrittenIs ==
  ASSUME NEW c \in CacheStates, NEW k \in Line, NEW b \in Buffers
  PROVE  LET d == [c EXCEPT !.data[k] = b] IN
         /\ d \in CacheStates /\ d.hash = c.hash /\ d.size = c.size /\ d.used = c.used
         /\ d.calls = c.calls /\ d.allmem = c.allmem /\ d.interrupted = c.interrupted
         /\ d.data[k] = b /\ \A j \in Line : j # k => d.data[j] = c.data[j]
<1> DEFINE data == [c.data EXCEPT ![k] = b]
           d == [c EXCEPT !.data[k] = b]
<1>1. /\ data \in [Line -> Buffers] /\ data[k] = b
      /\ \A j \in Line : j # k => data[j] = c.data[j]
  BY CacheFields
<1>2. d = [c EXCEPT !.data = data]
  OBVIOUS
<1> HIDE DEF data, d
<1>3. /\ d \in CacheStates /\ d.hash = c.hash /\ d.size = c.size /\ d.used = c.used
      /\ d.calls = c.calls /\ d.allmem = c.allmem /\ d.interrupted = c.interrupted
      /\ d.data = data
  BY <1>1, <1>2 DEF CacheStates
<1> QED BY <1>1, <1>3 DEF d

(* ... keeps the cache in order but for what the line says. *)
LEMMA WritingKeeps ==
  ASSUME NEW c \in CacheStates, NEW k \in Line, NEW b \in Buffers,
         Counts(c), Sized(c), Unique(c), Honest(c, {k}), NEW d, d = [c EXCEPT !.data[k] = b],
         NEW r \in Roi, b.roi = r, MadeFor(c, k, r), Recent(c, k),
         k \in Named /\ c.hash[k] # NoName => c.hash[k].roi = r
  PROVE  /\ Counts(d) /\ Sized(d) /\ Unique(d) /\ Honest(d, {k})
         /\ MadeFor(d, k, r) /\ Recent(d, k)
<1>1. /\ d.hash = c.hash /\ d.size = c.size /\ d.used = c.used /\ d.calls = c.calls
      /\ d.allmem = c.allmem /\ d.interrupted = c.interrupted
      /\ d.data[k] = b /\ \A j \in Line : j # k => d.data[j] = c.data[j]
  BY WrittenIs
<1>2. Named \subseteq Line
  BY LineFacts
<1>3. Counts(d) /\ Unique(d) /\ Recent(d, k)
  BY <1>1 DEF Counts, Unique, Recent
<1>4. Sized(d)
  BY <1>1, <1>2 DEF Sized
<1>5. Honest(d, {k})
  BY <1>1, <1>2 DEF Honest, Says
<1>6. MadeFor(d, k, r)
  BY <1>1 DEF MadeFor
<1> QED BY <1>3, <1>4, <1>5, <1>6

LEMMA BaseStep ==
  ASSUME PipeInv, InitBase
  PROVE  PipeInv'
<1>1. /\ pc = "base" /\ pos = 0 /\ ~mask
      /\ UNCHANGED <<guiVars, flagVars, pieces, mask, run, early, backbuf>>
  BY DEF InitBase, PipeInv, PosInv
<1>2. pos \in 0..Gamma /\ IsTyped /\ Gamma # 0 /\ run \in Roi
  BY PipeConstants DEF PipeInv, IsTyped
<1>3. /\ cache' \in CacheStates /\ CacheInv' /\ PosInv' /\ InputInv' /\ OutInv'
      /\ \E k \in Line \cup {PipeInput} : Deliver(k)
  <2>1. CASE run = FullRoi
    <3>1. cache' = cache /\ Deliver(PipeInput)
      BY <2>1 DEF InitBase
    <3>2. pos' = 1 /\ input' = PipeInput /\ pc' = "up"
      BY <1>1, <1>2, <3>1 DEF Deliver, Goto
    <3>3. Counts(cache') /\ Sized(cache') /\ Unique(cache') /\ Honest(cache', {})
      BY <1>1, <3>1, CacheAtRest
    <3>4. CacheInv' /\ PosInv' /\ InputInv' /\ OutInv'
      BY <1>1, <3>2, <3>3 DEF CacheInv, Written, PosInv, InputInv, OutInv
    <3>5. PipeInput \in Line \cup {PipeInput} /\ cache' \in CacheStates
      BY <3>1, <1>2 DEF IsTyped
    <3> QED BY <3>1, <3>4, <3>5
  <2>2. CASE run # FullRoi
    <3>1. PICK k, d : k = Get(pos, FALSE).line /\ d = Get(pos, FALSE).cache
      OBVIOUS
    <3>2. Given(k, d, pos)
      BY <1>1, <1>2, <3>1, CacheAtRest, GetFacts
    <3>3. PICK e : e = [d EXCEPT !.data[k] = Base(run)]
      OBVIOUS
    <3>4. cache' = e /\ Deliver(k)
      BY <1>1, <2>2, <3>1, <3>3 DEF InitBase
    <3>5. /\ NameOf(pos) = NameIn(run, pieces, pos) /\ NameOf(pos).roi = run
          /\ NameOf(pos).work = Hashes(pieces, pos) /\ Hashes(pieces, pos) = <<>>
      BY <1>1, <1>2, NameOfFacts, HashesFacts
    <3>6. /\ k \in Line /\ d \in CacheStates /\ Counts(d) /\ Sized(d) /\ Unique(d)
          /\ Honest(d, {}) /\ MadeFor(d, k, run) /\ Recent(d, k)
          /\ k \in Named /\ d.hash[k] # NoName => d.hash[k] = NameOf(pos)
      BY <3>2 DEF Given
    <3>7. /\ Base(run) \in Buffers /\ Base(run).roi = run /\ Base(run).kind = "image"
          /\ Base(run).work = <<>>
      BY <1>2, BufferFacts
    <3>8. e \in CacheStates /\ e.hash = d.hash /\ e.data[k] = Base(run)
      BY <3>3, <3>6, <3>7, WrittenIs
    <3>9. /\ Counts(e) /\ Sized(e) /\ Unique(e) /\ Honest(e, {k})
          /\ MadeFor(e, k, run) /\ Recent(e, k)
      <4>1. Honest(d, {k})
        BY <3>6 DEF Honest
      <4>2. k \in Named /\ d.hash[k] # NoName => d.hash[k].roi = run
        BY <3>5, <3>6
      <4> QED BY <1>2, <3>3, <3>6, <3>7, <4>1, <4>2, WritingKeeps
    <3>10. Honest(e, {})
      <4>1. e.hash[k] # NoName /\ k \in Named => Says(e, k)
        BY <3>5, <3>6, <3>7, <3>8 DEF Says
      <4> QED BY <3>9, <4>1 DEF Honest
    <3>11. Holds(e, k, Hashes(pieces, pos), mask)
      BY <1>1, <3>5, <3>7, <3>8 DEF Holds
    <3>12. k \in Named /\ e.hash[k] # NoName => e.hash[k] = NameIn(run, pieces, pos)
      BY <3>5, <3>6, <3>8
    <3>13. CacheInv' /\ PosInv' /\ InputInv' /\ OutInv'
      BY <1>1, <1>2, <3>4, <3>6, <3>9, <3>10, <3>11, <3>12, Delivered
    <3> QED BY <3>4, <3>6, <3>8, <3>13
  <2> QED BY <2>1, <2>2
<1>4. /\ pos' \in 0..Gamma /\ input' \in 0..Entries /\ out' \in 0..Entries
      /\ pc' \in {"up", "copy"}
  BY <1>2, <1>3, DeliverTypes
<1>5. IsTyped'
  BY <1>1, <1>3, <1>4 DEF PipeInv, IsTyped, guiVars, flagVars, Points
<1>6. BackInv'
  BY <1>1, <1>4, JobBack DEF PipeInv, BackInv, flagVars
<1> QED BY <1>3, <1>5, <1>6 DEF PipeInv

LEMMA ReserveStep ==
  ASSUME PipeInv, Reserve
  PROVE  PipeInv'
<1>1. PICK k, d : /\ k = Get(pos, pos \in Important).line
                  /\ d = Get(pos, pos \in Important).cache
  OBVIOUS
<1>2. /\ pc = "up" /\ pc' = "run" /\ cache' = d /\ out' = k
      /\ UNCHANGED <<guiVars, flagVars, pieces, mask, pos, run, input, early, backbuf>>
  BY <1>1 DEF Reserve, Goto
<1>3. pos \in 0..Gamma /\ IsTyped /\ pos >= 1 /\ Gamma \in Nat
  BY <1>2, PipeConstants DEF PipeInv, PosInv, IsTyped
<1>4. Given(k, d, pos)
  <2>1. (pos \in Important) \in BOOLEAN
    OBVIOUS
  <2> QED BY <1>1, <1>2, <1>3, <2>1, CacheAtRest, GetFacts
<1>5. /\ k \in Line /\ d \in CacheStates /\ Counts(d) /\ Sized(d) /\ Unique(d) /\ Honest(d, {})
      /\ MadeFor(d, k, run) /\ Recent(d, k) /\ d.interrupted = cache.interrupted
      /\ k \in Named /\ d.hash[k] # NoName => d.hash[k] = NameOf(pos) /\ ~mask
      /\ \A j \in Line : j # k => d.data[j] = cache.data[j] /\ d.size[j] = cache.size[j]
      /\ Recent(cache, k) => k \in Named /\ cache.hash[k] = NameOf(pos)
  BY <1>4 DEF Given
<1>6. /\ NameOf(pos) = NameIn(run, pieces, pos) /\ NameOf(pos) # NoName
      /\ NameOf(pos - 1) = NameIn(run, pieces, pos - 1) /\ NameOf(pos - 1) # NameOf(pos)
  <2>1. pos \in 1..Gamma /\ pos - 1 \in 0..Gamma
    BY <1>3
  <2> QED BY <1>3, <2>1, NameOfFacts, HashesFacts
<1>7. input # PipeInput => input \in Line /\ input # k
  BY <1>2, <1>5, <1>6 DEF PipeInv, InputInv
<1>8. CacheInv' /\ PosInv'
  BY <1>2, <1>3, <1>5 DEF CacheInv, Written, PosInv
<1>9. InputInv'
  <2>1. input # PipeInput => MadeFor(d, input, run)
    BY <1>2, <1>5, <1>7 DEF PipeInv, InputInv, MadeFor
  <2>2. input # PipeInput => Holds(d, input, Hashes(pieces, pos - 1), mask)
    BY <1>2, <1>5, <1>7 DEF PipeInv, InputInv, Holds
  <2>3. input # PipeInput /\ d.data[input].kind = "image"
          => d.data[input].work = Hashes(pieces, pos - 1)
    BY <2>2 DEF Holds
  <2>4. input = PipeInput => pos = 1 /\ ~mask
    BY <1>2 DEF PipeInv, InputInv
  <2> QED BY <1>2, <1>7, <2>1, <2>2, <2>3, <2>4 DEF InputInv
<1>10. OutInv'
  BY <1>2, <1>5, <1>6 DEF OutInv
<1>11. IsTyped'
  <2>1. out' \in 0..Entries
    BY <1>2, <1>5, LineFacts
  <2> QED BY <1>2, <1>5, <2>1 DEF PipeInv, IsTyped, guiVars, flagVars, Points
<1>12. BackInv'
  BY <1>2, JobBack DEF PipeInv, BackInv, flagVars
<1> QED BY <1>8, <1>9, <1>10, <1>11, <1>12 DEF PipeInv

LEMMA BypassStep ==
  ASSUME PipeInv, Bypass
  PROVE  PipeInv'
<1>1. PICK b : b = cache.data[input]
  OBVIOUS
<1>2. PICK e : e = [cache EXCEPT !.data[out] = b]
  OBVIOUS
<1>3. /\ pc = "run" /\ mask /\ Deliver(out) /\ input # PipeInput
      /\ UNCHANGED <<guiVars, flagVars, pieces, mask, run, early, backbuf>>
  BY DEF Bypass, PipeInv, InputInv
<1>4. cache' = e
  BY <1>1, <1>2, <1>3 DEF Bypass, InputData
<1>5. /\ IsTyped /\ cache \in CacheStates /\ run \in Roi /\ out \in Line /\ pos \in 0..Gamma
      /\ Counts(cache) /\ Sized(cache) /\ Unique(cache) /\ Honest(cache, {})
  BY <1>3, CacheAtRest DEF PipeInv, IsTyped, PosInv
<1>6. b \in Buffers /\ b.roi = run /\ b.kind \notin {"image", "none"}
  <2>1. input \in Line
    BY <1>3 DEF PipeInv, InputInv
  <2> QED BY <1>1, <1>3, <1>5, <2>1, CacheFields DEF PipeInv, InputInv, MadeFor, Holds
<1>7. /\ MadeFor(cache, out, run) /\ Recent(cache, out)
      /\ ~(out \in Named /\ cache.hash[out] # NoName)
  BY <1>3 DEF PipeInv, OutInv
<1>8. Honest(cache, {out})
  BY <1>5 DEF Honest
<1>9. /\ Counts(e) /\ Sized(e) /\ Unique(e) /\ Honest(e, {out})
      /\ MadeFor(e, out, run) /\ Recent(e, out)
  BY <1>2, <1>5, <1>6, <1>7, <1>8, WritingKeeps
<1>10. e \in CacheStates /\ e.hash = cache.hash /\ e.data[out] = b
  BY <1>2, <1>5, <1>6, WrittenIs
<1>11. Honest(e, {}) /\ Holds(e, out, Hashes(pieces, pos), mask)
  BY <1>3, <1>6, <1>7, <1>9, <1>10 DEF Honest, Holds
<1>12. CacheInv' /\ PosInv' /\ InputInv' /\ OutInv'
  BY <1>3, <1>4, <1>5, <1>7, <1>9, <1>10, <1>11, Delivered
<1>13. /\ pos' \in 0..Gamma /\ input' \in 0..Entries /\ out' \in 0..Entries
       /\ pc' \in {"up", "copy"}
  BY <1>3, <1>5, DeliverTypes
<1>14. IsTyped'
  BY <1>3, <1>4, <1>10, <1>13 DEF PipeInv, IsTyped, guiVars, flagVars, Points
<1>15. BackInv'
  BY <1>3, <1>13, JobBack DEF PipeInv, BackInv, flagVars
<1> QED BY <1>12, <1>14, <1>15 DEF PipeInv

(* What a module computes from an input that holds the output of the ones  *)
(* before it.                                                              *)
LEMMA ComputedFacts ==
  ASSUME PipeInv, pc = "run"
  PROVE  /\ Computed \in Buffers /\ Computed.roi = run
         /\ Computed.kind = "image" =>
              ~mask /\ ~ShowsMask /\ Computed.work = Hashes(pieces, pos)
         /\ Computed.kind = "mask" /\ ~mask /\ ~ShowsMask => cache.interrupted
         /\ Computed.kind # "none"
<1> DEFINE d == InputData
<1>1. /\ IsTyped /\ run \in Roi /\ cache \in CacheStates /\ pos \in 1..Gamma
  <2>1. pos \in 0..Gamma /\ pos >= 1 /\ Gamma \in Nat
    BY PipeConstants DEF PipeInv, IsTyped, PosInv
  <2> QED BY <2>1 DEF PipeInv, IsTyped
<1>2. /\ Append(Hashes(pieces, pos - 1), pieces[pos].hash) = Hashes(pieces, pos)
      /\ Hashes(pieces, 0) = <<>>
  BY <1>1, HashesFacts
<1>3. pieces[pos].hash \in Nat /\ pieces[pos].params \in Nat
  BY <1>1 DEF IsTyped, Module
<1>4. /\ d \in Buffers /\ d.roi = run
      /\ d.kind = "image" => ~mask /\ d.work = Hashes(pieces, pos - 1)
      /\ d.kind = "mask" /\ ~mask => cache.interrupted
      /\ d.kind # "none"
  <2>1. CASE input = PipeInput
    <3>1. d = Base(run) /\ pos = 1 /\ ~mask
      BY <2>1 DEF InputData, PipeInv, InputInv
    <3> HIDE DEF d
    <3> QED BY <1>1, <1>2, <3>1, BufferFacts
  <2>2. CASE input # PipeInput
    <3>1. /\ d = cache.data[input] /\ input \in Line /\ MadeFor(cache, input, run)
          /\ Holds(cache, input, Hashes(pieces, pos - 1), mask)
      BY <2>2 DEF InputData, PipeInv, InputInv
    <3> HIDE DEF d
    <3> QED BY <1>1, <3>1, CacheFields DEF MadeFor, Holds
  <2> QED BY <2>1, <2>2
<1>5. Computed = [d EXCEPT !.kind = IF d.kind = "image" /\ ShowsMask THEN "mask" ELSE d.kind,
                           !.work = Append(d.work, pieces[pos].hash),
                           !.made = Append(d.made, pieces[pos].params)]
  BY DEF Computed
<1> HIDE DEF d
<1>6. d.work \in Seq(Nat) /\ d.made \in Seq(Nat) /\ d.kind \in {"none", "unwritten", "image", "mask"}
  BY <1>4 DEF Buffers
<1> DEFINE kind == IF d.kind = "image" /\ ShowsMask THEN "mask" ELSE d.kind
           work == Append(d.work, pieces[pos].hash)
           made == Append(d.made, pieces[pos].params)
<1>7. kind \in {"none", "unwritten", "image", "mask"} /\ work \in Seq(Nat) /\ made \in Seq(Nat)
  BY <1>3, <1>6
<1>8. Computed = [d EXCEPT !.kind = kind, !.work = work, !.made = made]
  BY <1>5
<1>9. /\ kind = "image" => d.kind = "image" /\ ~ShowsMask
      /\ kind = "mask" /\ ~ShowsMask => d.kind = "mask"
      /\ d.kind # "none" => kind # "none"
  OBVIOUS
<1>10. d.work = Hashes(pieces, pos - 1) => work = Hashes(pieces, pos)
  BY <1>2
<1> HIDE DEF kind, work, made
<1>11. /\ Computed \in Buffers /\ Computed.roi = d.roi /\ Computed.kind = kind
       /\ Computed.work = work
  BY <1>4, <1>7, <1>8 DEF Buffers
<1> QED BY <1>4, <1>9, <1>10, <1>11

LEMMA ProcessStep ==
  ASSUME PipeInv, Process
  PROVE  PipeInv'
<1>1. PICK b : b = Computed
  OBVIOUS
<1>2. PICK e : e = [cache EXCEPT !.data[out] = b]
  OBVIOUS
<1>3. /\ pc = "run" /\ pc' = "ran" /\ cache' = GammaInput(e)
      /\ mask' = (mask \/ ShowsMask)
      /\ UNCHANGED <<guiVars, flagVars, pieces, pos, run, input, out, early, backbuf>>
  BY <1>1, <1>2 DEF Process, Goto
<1>4. /\ IsTyped /\ cache \in CacheStates /\ run \in Roi /\ out \in Line /\ pos \in 0..Gamma
      /\ pos >= 1 /\ mask \in BOOLEAN
      /\ Counts(cache) /\ Sized(cache) /\ Unique(cache) /\ Honest(cache, {})
  BY <1>3, CacheAtRest DEF PipeInv, IsTyped, PosInv
<1>5. /\ b \in Buffers /\ b.roi = run
      /\ b.kind = "image" => ~mask' /\ b.work = Hashes(pieces, pos)
      /\ b.kind = "mask" /\ ~mask' => cache.interrupted
      /\ b.kind # "none"
  BY <1>1, <1>3, ComputedFacts
<1>6. mask' \in BOOLEAN
  BY <1>3, <1>4
<1>7. /\ MadeFor(cache, out, run) /\ Recent(cache, out)
      /\ out \in Named /\ cache.hash[out] # NoName => cache.hash[out] = NameIn(run, pieces, pos)
  BY <1>3 DEF PipeInv, OutInv
<1>8. out \in Named /\ cache.hash[out] # NoName => cache.hash[out].roi = run
  BY <1>7 DEF NameIn
<1>9. Honest(cache, {out})
  BY <1>4 DEF Honest
<1>10. /\ Counts(e) /\ Sized(e) /\ Unique(e) /\ Honest(e, {out})
       /\ MadeFor(e, out, run) /\ Recent(e, out)
  BY <1>2, <1>4, <1>5, <1>7, <1>8, <1>9, WritingKeeps
<1>11. /\ e \in CacheStates /\ e.hash = cache.hash /\ e.size = cache.size
       /\ e.interrupted = cache.interrupted /\ e.data[out] = b
       /\ \A j \in Line : j # out => e.data[j] = cache.data[j]
  BY <1>2, <1>4, <1>5, WrittenIs
<1>12. Forgets(cache', e)
  <2>1. CASE cache' = e
    BY <1>11, <2>1 DEF Forgets
  <2>2. CASE cache' # e
    <3>1. cache' = InvalidLine(e, input)
      BY <1>3, <2>2 DEF GammaInput
    <3> QED BY <1>11, <3>1, InvalidForgets DEF InvalidLine
  <2> QED BY <2>1, <2>2
<1>13. /\ Counts(cache') /\ Sized(cache') /\ Unique(cache') /\ Honest(cache', {out})
       /\ MadeFor(cache', out, run) /\ Recent(cache', out)
       /\ \A k : MadeFor(e, k, run) => MadeFor(cache', k, run)
  BY <1>4, <1>10, <1>11, <1>12, ForgetsKeeps
<1>14. /\ cache' \in CacheStates /\ cache'.data = e.data
       /\ cache'.interrupted = cache.interrupted
       /\ \A k \in Line : cache'.hash[k] = NoName \/ cache'.hash[k] = cache.hash[k]
  BY <1>11, <1>12 DEF Forgets
<1>15. CacheInv' /\ PosInv'
  BY <1>3, <1>4, <1>13 DEF CacheInv, Written, PosInv
<1>16. InputInv'
  <2>1. input # PipeInput => input \in Line /\ input # out
    BY <1>3 DEF PipeInv, InputInv
  <2>2. input # PipeInput => MadeFor(cache', input, run)
    <3>1. input # PipeInput => MadeFor(cache, input, run)
      BY <1>3 DEF PipeInv, InputInv
    <3>2. input # PipeInput => MadeFor(e, input, run)
      BY <1>11, <2>1, <3>1 DEF MadeFor
    <3> QED BY <1>13, <3>2
  <2>3. input # PipeInput /\ cache'.data[input].kind = "image"
          => cache'.data[input].work = Hashes(pieces, pos - 1)
    BY <1>3, <1>11, <1>14, <2>1 DEF PipeInv, InputInv
  <2>4. input = PipeInput => pos = 1
    BY <1>3 DEF PipeInv, InputInv
  <2> QED BY <1>3, <2>1, <2>2, <2>3, <2>4 DEF InputInv
<1>17. OutInv'
  <2>1. Holds(cache', out, Hashes(pieces, pos), mask')
    BY <1>5, <1>11, <1>14 DEF Holds
  <2>2. out \in Named /\ cache'.hash[out] # NoName
          => cache'.hash[out] = NameIn(run, pieces, pos)
    BY <1>4, <1>7, <1>14
  <2> QED BY <1>3, <1>13, <2>1, <2>2 DEF OutInv
<1>18. IsTyped'
  BY <1>3, <1>6, <1>14 DEF PipeInv, IsTyped, guiVars, flagVars, Points
<1>19. BackInv'
  BY <1>3, JobBack DEF PipeInv, BackInv, flagVars
<1> QED BY <1>15, <1>16, <1>17, <1>18, <1>19 DEF PipeInv

LEMMA ProcessedStep ==
  ASSUME PipeInv, Processed
  PROVE  PipeInv'
<1>1. /\ pc = "ran" /\ Deliver(out) /\ lastModule' \in {lastModule, 0}
      /\ cache' = AfterProcess(cache) \/ cache' = ImportantLine(AfterProcess(cache), input)
      /\ UNCHANGED <<params, request, history, top, roi, todo, gestures, redraw, flagVars,
                     pieces, mask, run, early, backbuf>>
  BY DEF Processed
<1>2. PICK c : c = AfterProcess(cache)
  OBVIOUS
<1>3. /\ IsTyped /\ cache \in CacheStates /\ run \in Roi /\ out \in Line /\ pos \in 0..Gamma
  BY <1>1 DEF PipeInv, IsTyped, PosInv
<1>4. /\ Forgets(c, cache) /\ c \in CacheStates
      /\ mask /\ out \in Named => c.hash[out] = NoName
  <2>1. CASE ~mask
    <3>1. c = cache
      BY <1>2, <2>1 DEF AfterProcess
    <3> QED BY <1>3, <2>1, <3>1 DEF Forgets
  <2>2. CASE mask
    <3>1. c = Invalid(cache, {out} \cap Named)
      BY <1>2, <2>2 DEF AfterProcess, InvalidLine
    <3> QED BY <1>3, <3>1, InvalidForgets, InvalidIs
  <2> QED BY <2>1, <2>2
<1>5. Forgets(cache', cache) /\ (mask /\ out \in Named => cache'.hash[out] = NoName)
  <2>1. CASE cache' = c
    BY <1>4, <2>1
  <2>2. CASE cache' = ImportantLine(c, input)
    <3>1. Forgets(cache', c)
      BY <1>4, <2>2, ImportantForgets
    <3> QED BY <1>3, <1>4, <3>1, ForgetsMore DEF Forgets
  <2> QED BY <1>1, <1>2, <2>1, <2>2
<1>6. /\ Counts(cache) /\ Sized(cache) /\ Unique(cache) /\ Honest(cache, {out})
      /\ MadeFor(cache, out, run) /\ Recent(cache, out)
      /\ out \in Named /\ cache.hash[out] # NoName => cache.hash[out] = NameIn(run, pieces, pos)
      /\ Holds(cache, out, Hashes(pieces, pos), mask)
  BY <1>1 DEF PipeInv, CacheInv, Written, OutInv
<1>7. /\ Counts(cache') /\ Sized(cache') /\ Unique(cache') /\ Honest(cache', {out})
      /\ MadeFor(cache', out, run) /\ Recent(cache', out)
  BY <1>3, <1>5, <1>6, ForgetsKeeps
<1>8. /\ cache' \in CacheStates /\ cache'.data = cache.data
      /\ cache'.interrupted = cache.interrupted
      /\ cache'.hash[out] = NoName \/ cache'.hash[out] = cache.hash[out]
  BY <1>3, <1>5 DEF Forgets
<1>9. Holds(cache', out, Hashes(pieces, pos), mask)
  BY <1>6, <1>8 DEF Holds
<1>10. out \in Named /\ cache'.hash[out] # NoName => cache'.hash[out] = NameIn(run, pieces, pos)
  BY <1>6, <1>8
<1>11. Honest(cache', {})
  <2>1. out \in Named /\ cache'.hash[out] # NoName => Says(cache', out)
    BY <1>5, <1>9, <1>10 DEF Says, Holds, NameIn
  <2> QED BY <1>7, <2>1 DEF Honest
<1>12. CacheInv' /\ PosInv' /\ InputInv' /\ OutInv'
  BY <1>1, <1>3, <1>7, <1>9, <1>10, <1>11, Delivered
<1>13. /\ pos' \in 0..Gamma /\ input' \in 0..Entries /\ out' \in 0..Entries
       /\ pc' \in {"up", "copy"}
  BY <1>1, <1>3, DeliverTypes
<1>14. IsTyped'
  <2>1. lastModule' \in 0..Gamma
    BY <1>1, PipeConstants DEF PipeInv, IsTyped
  <2> QED BY <1>1, <1>8, <1>13, <2>1 DEF PipeInv, IsTyped, flagVars, Points
<1>15. BackInv'
  BY <1>1, <1>13, JobBack DEF PipeInv, BackInv, flagVars
<1> QED BY <1>12, <1>14, <1>15 DEF PipeInv

LEMMA CopyStep ==
  ASSUME PipeInv, CopyBackbuf
  PROVE  PipeInv'
<1>1. /\ pc = "copy" /\ pc' = "finish" /\ out \in Line /\ out # PipeInput
      /\ pos = Gamma /\ backbuf' = cache.data[out]
      /\ UNCHANGED <<guiVars, flagVars, pieces, mask, pos, run, input, out, early, cache>>
  BY LineFacts DEF CopyBackbuf, Goto, PipeInv, PosInv
<1>2. IsTyped'
  <2>1. backbuf' \in Buffers
    BY <1>1, CacheFields DEF PipeInv, IsTyped
  <2> QED BY <1>1, <2>1 DEF PipeInv, IsTyped, guiVars, flagVars, Points
<1>3. CacheInv' /\ PosInv' /\ InputInv' /\ OutInv'
  BY <1>1, CacheAtRest, AtRest
<1>4. Due' /\ backbuf'.kind # "none"
  BY <1>1 DEF PipeInv, OutInv, Holds, Due
<1>5. BackInv'
  BY <1>1, <1>4, JobBack DEF PipeInv, BackInv, flagVars
<1> QED BY <1>2, <1>3, <1>5 DEF PipeInv

-----------------------------------------------------------------------------
(* The invariant holds in every behaviour, whatever the modules, the       *)
(* regions, the lines of the cache, its limit and the gestures of the user.*)
THEOREM PipeInvHolds == Spec => []PipeInv
<1>1. PipeInv /\ [Next]_vars => PipeInv'
  <2> SUFFICES ASSUME PipeInv, [Next]_vars PROVE PipeInv'
    OBVIOUS
  <2>1. CASE Job
    BY <2>1, StartStep, RestartStep, BeginStep, StoppedStep, DownStep, HitStep, BaseStep,
       ReserveStep, BypassStep, ProcessStep, ProcessedStep, CopyStep, EndStep DEF Job
  <2>2. CASE Store \/ Expose \/ User
    BY <2>2, StoreStep, ExposeStep, UserStep
  <2>3. CASE UNCHANGED vars
    <3>1. Forgets(cache', cache)
      BY <2>3 DEF vars, Forgets, PipeInv, IsTyped
    <3>2. IsTyped' /\ UNCHANGED <<jobVars, mask, pieces>>
      BY <2>3 DEF vars, guiVars, flagVars, jobVars, PipeInv, IsTyped
    <3>3. BackInv'
      BY <2>3 DEF vars, guiVars, flagVars, jobVars, PipeInv, BackInv, misfit, Due
    <3> QED BY <3>1, <3>2, <3>3, GuiKeeps DEF PipeInv
  <2> QED BY <2>1, <2>2, <2>3 DEF Next
<1> QED BY <1>1, InitHolds, PTL DEF Spec

(* The lines of the cache, their sizes and the memory it believes to hold  *)
(* agree, through growing, collecting and reusing lines.                   *)
THEOREM PipeIsWellFormed == Spec => []WellFormed
<1>1. PipeInv => WellFormed
  <2> SUFFICES ASSUME PipeInv PROVE WellFormed
    OBVIOUS
  <2>1. Accounting
    BY DEF PipeInv, CacheInv, Counts, Accounting
  <2>2. cache.allmem \in Nat
    <3>1. IsFiniteSet(Line) /\ \A k \in Line : cache.size[k] \in Nat
      BY LineFacts, CacheFields DEF PipeInv, IsTyped
    <3>2. SumFunctionOnSet(cache.size, Line) \in Nat
      BY <3>1, SumOverType
    <3> QED BY <2>1, <3>2 DEF Accounting
  <2>3. TypeOK
    BY <2>2, CacheFields DEF PipeInv, IsTyped, TypeOK, Sizes
  <2> QED BY <2>1, <2>3 DEF WellFormed
<1> QED BY <1>1, PipeInvHolds, PTL

(* While a module runs its input is another line than its output, and has  *)
(* the size, the region and the contents it was computed with: no call of  *)
(* the cache in between has given the line away.                           *)
THEOREM InputStaysIntact == Spec => []InputIntact
<1>1. PipeInv => InputIntact
  <2> SUFFICES ASSUME PipeInv, pc \in {"run", "ran"}, input # PipeInput
               PROVE  /\ input # out /\ cache.size[input] >= SizeOf(run)
                      /\ cache.data[input].roi = run
                      /\ (cache.data[input].kind = "image" =>
                            Len(cache.data[input].work) = pos - 1)
    BY DEF InputIntact
  <2>1. IsTyped /\ pos - 1 \in 0..Gamma
    <3>1. pos \in 0..Gamma /\ pos >= 1 /\ Gamma \in Nat
      BY PipeConstants DEF PipeInv, IsTyped, PosInv
    <3> QED BY <3>1 DEF PipeInv
  <2>2. Len(Hashes(pieces, pos - 1)) = pos - 1
    BY <2>1, NameOfFacts
  <2> QED BY <2>2 DEF PipeInv, InputInv, MadeFor
<1> QED BY <1>1, PipeInvHolds, PTL

(* A line of the cache with a name holds what the name says, and no two    *)
(* lines have one name.                                                    *)
THEOREM LinesAreHonest == Spec => []LinesHoldWhatTheySay
<1>1. PipeInv => LinesHoldWhatTheySay
  <2> SUFFICES ASSUME PipeInv PROVE LinesHoldWhatTheySay
    OBVIOUS
  <2>1. ASSUME NEW k \in Named, cache.hash[k] # NoName, ~BeingMade(k)
        PROVE  SaysWhatItHolds(k)
    <3>1. Says(cache, k) /\ cache.data[k].roi = cache.hash[k].roi
      BY <2>1 DEF PipeInv, CacheInv, Honest, Written, BeingMade, Sized
    <3>2. cache.hash[k] \in Names
      BY LineFacts, CacheFields DEF PipeInv, IsTyped
    <3>3. cache.hash[k] = [roi |-> cache.hash[k].roi, work |-> cache.hash[k].work]
      BY <3>2 DEF Names
    <3> QED BY <3>1, <3>3 DEF Says, SaysWhatItHolds
  <2>2. \A j, k \in Named : cache.hash[j] = cache.hash[k] /\ j # k => cache.hash[k] = NoName
    BY DEF PipeInv, CacheInv, Unique
  <2> QED BY <2>1, <2>2 DEF LinesHoldWhatTheySay
<1> QED BY <1>1, PipeInvHolds, PTL

(* When the job and the GUI rest, the back buffer is of the view, and an   *)
(* image in it went through every module as the pipe has it.               *)
THEOREM ShownImageIsDue == Spec => []ShownIsDue
<1>1. PipeInv => ShownIsDue
  <2> SUFFICES ASSUME PipeInv, Settled
               PROVE  /\ backbuf.roi = roi
                      /\ backbuf.kind = "image" =>
                           backbuf.work = [m \in Module |-> pieces[m].hash]
    BY DEF ShownIsDue
  <2>1. pc = "idle" /\ todo = <<>> /\ ~redraw /\ status = "VALID"
    BY DEF Settled
  <2>2. todo # <<"zoomed">>
    BY <2>1
  <2>3. ~misfit /\ backbuf.kind # "none"
    BY <2>1, <2>2 DEF PipeInv, BackInv
  <2>4. Hashes(pieces, Gamma) = [m \in Module |-> pieces[m].hash]
    BY DEF Hashes, Module
  <2>5. Due
    BY <2>1 DEF PipeInv, BackInv
  <2> QED BY <2>3, <2>4, <2>5 DEF misfit, Due
<1> QED BY <1>1, PipeInvHolds, PTL
=============================================================================

------------------------------ MODULE CrtInterp ------------------------------
(***************************************************************************)
(* The entry stub of a relocatable program                                 *)
(* (pkgs/cr/crt-interp/src/crt_interp.c): it maps the dynamic loader named *)
(* by the disabled PT_INTERP, relative to the program's own file.          *)
(* A segment is [vaddr, off, filesz, memsz, w]; memory is a function from  *)
(* addresses to bytes, a byte being an offset in ld.so's file or Zero.     *)
(***************************************************************************)
EXTENDS Paths, SequencesExt

CONSTANT Page                              \* AT_PAGESZ
ASSUME PageAssumption == Page \in Nat \ {0}

Down(a) == a - (a % Page)
Up(a) == Down(a + Page - 1)
Zero == -1

(* One turn of the loop of step 3: the file's pages, the tail of the last  *)
(* one cleared when bss follows, anonymous pages for the rest.             *)
MapSegmentDirty(mem, s) ==
  LET start   == Down(s.vaddr)
      fileEnd == s.vaddr + s.filesz
      memEnd  == s.vaddr + s.memsz
  IN  [a \in DOMAIN mem |->
         IF /\ memEnd > fileEnd /\ a >= Up(fileEnd) /\ a < Up(memEnd) THEN Zero
         ELSE IF start <= a /\ a < Up(fileEnd) THEN Down(s.off) + (a - start)
         ELSE mem[a]]

MapSegment(mem, s) ==
  LET start   == Down(s.vaddr)
      fileEnd == s.vaddr + s.filesz
      memEnd  == s.vaddr + s.memsz
  IN  [a \in DOMAIN mem |->
         IF /\ memEnd > fileEnd
            /\ \/ s.w /\ fileEnd <= a /\ a < Up(fileEnd)
               \/ Up(fileEnd) <= a /\ a < Up(memEnd)
         THEN Zero
         ELSE IF start <= a /\ a < Up(fileEnd) THEN Down(s.off) + (a - start)
         ELSE mem[a]]

(* lo, hi and the reservation of step 3, then every PT_LOAD in turn        *)
MapSegments(segs) ==
  LET at(f(_)) == {f(segs[i]) : i \in DOMAIN segs}
      ends     == at(LAMBDA s : s.vaddr + s.memsz)
      starts   == at(LAMBDA s : s.vaddr)
      hi == CHOOSE h \in ends : \A e \in ends : e <= h
      lo == CHOOSE l \in starts : \A s \in starts : l <= s
  IN  FoldLeft(MapSegment, [a \in Down(lo)..(Up(hi) - 1) |-> Zero], segs)

(* reloc_main. self: [interp, ptype, stub, phdr (has PT_PHDR), prot (of    *)
(* the segment the program headers lie in)]; start: [exe (<<>> without     *)
(* /proc), execfn, aux]; ld: path -> segments of an interpreter. Not ok    *)
(* is die().                                                               *)
RelocMain(self, start, ld) ==
  LET own  == IF start.exe # <<>> THEN start.exe ELSE start.execfn
      path == Follow(Dir(own), self.interp)
  IN  IF \/ "PHDR" \notin start.aux
         \/ self.ptype # "null"
         \/ self.stub = "implant" /\ ~self.phdr
         \/ own = <<>>
         \/ path \notin DOMAIN ld
         \/ ~({"BASE", "ENTRY"} \subseteq start.aux)
      THEN [ok |-> FALSE]
      ELSE [ok |-> TRUE, interp |-> path, mem |-> MapSegments(ld[path]),
            entry |-> "_start", ptype |-> "interp", prot |-> self.prot]
=============================================================================

-------------------------------- MODULE Codec --------------------------------
(***************************************************************************)
(* The byte-level conversions of jig, loop by loop as the code runs them,  *)
(* next to reference definitions: base64 (gocache_mode.cc), Nix32, the     *)
(* padding of SHA-256 and ATerm quoting (nix_store_mode.cc), packed rustc  *)
(* outputs (rustc_mode.cc) and response files (base.cc).                   *)
(***************************************************************************)
EXTENDS Integers, FiniteSets, Sequences, SequencesExt, FiniteSetsExt

CONSTANTS Inputs    \* [codec, x]

VARIABLES input

NoInput == [codec |-> "none"]
XInit == input = NoInput

Pow2(n) == 2 ^ n

-----------------------------------------------------------------------------
(* base64: sextets 0..63, padding 64 *)

Start == [acc |-> 0, bits |-> 0, out |-> <<>>]

\* out += (acc >> bits) & mask, once enough bits are pending; acc &= (1 << bits) - 1
Emit(width, st) ==
  IF st.bits < width THEN st
  ELSE [acc |-> st.acc % Pow2(st.bits - width), bits |-> st.bits - width,
        out |-> Append(st.out, st.acc \div Pow2(st.bits - width))]
Shift(width, st, v) == [st EXCEPT !.acc = @ * Pow2(width) + v, !.bits = @ + width]

\* mutant: the pending bits are not shifted up
LastSextetLow(st) == IF st.bits = 0 THEN st.out ELSE Append(st.out, st.acc)

\* the last, partial sextet
LastSextet(st) == IF st.bits = 0 THEN st.out ELSE Append(st.out, st.acc * Pow2(6 - st.bits))

Padded(out) == out \o [i \in 1..((4 - (Len(out) % 4)) % 4) |-> 64]

Base64Encode(bytes) ==
  Padded(LastSextet(FoldLeft(LAMBDA st, b : Emit(6, Emit(6, Shift(8, st, b))), Start, bytes)))

\* anything outside the alphabet is skipped, the padding too
Base64Decode(text) ==
  FoldLeft(LAMBDA st, c : IF c > 63 THEN st ELSE Emit(8, Shift(6, st, c)), Start, text).out

\* RFC 4648: the bits in order, six at a time, in groups of four characters
BitAt(bytes, j) == IF j \div 8 < Len(bytes) THEN (bytes[j \div 8 + 1] \div Pow2(7 - (j % 8))) % 2 ELSE 0
Base64(bytes) ==
  [i \in 1..(4 * ((Len(bytes) + 2) \div 3)) |->
     IF 6 * (i - 1) >= 8 * Len(bytes) THEN 64
     ELSE SumSet({BitAt(bytes, 6 * (i - 1) + k) * Pow2(5 - k) : k \in 0..5})]

-----------------------------------------------------------------------------
(* Nix32: five bits at a time from the last byte, least significant byte first *)

ByteAt(bytes, i) == IF i < Len(bytes) THEN bytes[i + 1] ELSE 0
Nix32(bytes) ==
  LET length == (Len(bytes) * 8 - 1) \div 5 + 1
  IN [k \in 1..length |->
        LET bit == (length - k) * 5
        IN ((ByteAt(bytes, bit \div 8) + 256 * ByteAt(bytes, bit \div 8 + 1)) \div Pow2(bit % 8)) % 32]

\* the number the bytes spell, in base 32
Number(digits, base) == FoldLeft(LAMBDA n, d : n * base + d, 0, digits)

-----------------------------------------------------------------------------
(* SHA-256: the last one or two blocks of a message of n bytes *)

Block == 64

\* Sha256: [whole, rest, tail]: blocks hashed as they are, bytes left, length of the tail
ShaTail(n) == [whole |-> n \div Block, rest |-> n % Block,
               tail |-> IF (n % Block) + 1 + 8 <= Block THEN Block ELSE 2 * Block]

\* FIPS 180-4: message, 0x80, the fewest zeros, eight bytes of length, in whole blocks
Sha256Length(n) == Min({m \in (n + 9)..(n + 9 + Block) : m % Block = 0})

-----------------------------------------------------------------------------
(* ATerm strings *)

Escaped(c) == CASE c = "quote" -> <<"\\", "quote">>
                [] c = "\\" -> <<"\\", "\\">>
                [] c = "newline" -> <<"\\", "n">>
                [] c = "return" -> <<"\\", "r">>
                [] c = "tab" -> <<"\\", "t">>
                [] OTHER -> <<c>>
Quote(text) == <<"quote">> \o FoldLeft(LAMBDA out, c : out \o Escaped(c), <<>>, text) \o <<"quote">>

\* how an ATerm reader takes a quoted string: the text up to the first bare quote, and the rest
Unescape(c) == CASE c = "n" -> "newline" [] c = "r" -> "return" [] c = "t" -> "tab" [] OTHER -> c
RECURSIVE ReadQuoted(_, _)
ReadQuoted(s, out) ==
  CASE s = <<>> -> <<"unterminated">>
    [] Head(s) = "quote" -> IF Tail(s) = <<>> THEN out ELSE <<"trailing">>
    [] Head(s) = "\\" /\ Len(s) > 1 -> ReadQuoted(SubSeq(s, 3, Len(s)), Append(out, Unescape(s[2])))
    [] OTHER -> ReadQuoted(Tail(s), Append(out, Head(s)))

-----------------------------------------------------------------------------
(* Response files *)

Word0 == [word |-> <<>>, in |-> FALSE, quote |-> "none", esc |-> FALSE, out |-> <<>>]
AddChar(st, c) == [st EXCEPT !.word = Append(@, c), !.in = TRUE, !.esc = FALSE]

TokenizeChar(st, c) ==
  CASE st.esc -> AddChar(st, c)
    [] ~st.esc /\ c = "\\" -> [st EXCEPT !.esc = TRUE]
    [] ~st.esc /\ st.quote # "none" /\ c = st.quote -> [st EXCEPT !.quote = "none"]
    [] ~st.esc /\ st.quote = "none" /\ c \in {"'", "quote"} -> [st EXCEPT !.quote = c, !.in = TRUE]
    [] ~st.esc /\ st.quote = "none" /\ c = " " ->
         [st EXCEPT !.out = IF st.in THEN Append(@, st.word) ELSE @, !.word = <<>>, !.in = FALSE]
    [] OTHER -> AddChar(st, c)

\* a backslash that ends the file stands for itself
TokenizeGnu(text) ==
  LET st == FoldLeft(TokenizeChar, Word0, text)
      last == IF st.esc THEN AddChar(st, "\\") ELSE st
  IN IF last.in THEN Append(last.out, last.word) ELSE last.out

\* words as a build system writes them: quoted, or with every special character escaped
Special(c) == c \in {" ", "\\", "'", "quote"}
Backslashed(w) == FoldLeft(LAMBDA out, c : out \o (IF Special(c) THEN <<"\\", c>> ELSE <<c>>), <<>>, w)
Spelled(w, style) == IF style = "escape" THEN (IF w = <<>> THEN <<"'", "'">> ELSE Backslashed(w))
                     ELSE <<style>> \o Backslashed(w) \o <<style>>
Lines(words, styles) ==
  FoldLeft(LAMBDA out, i : out \o (IF i = 1 THEN <<>> ELSE <<" ", " ">>) \o Spelled(words[i], styles[i]),
           <<>>, [i \in DOMAIN words |-> i])

-----------------------------------------------------------------------------
(* Packed outputs: "<name> <mode> <size>\n<bytes>" per file; tokens are [c, n] *)

Tok(c) == [c |-> c, n |-> 0]
ReplaceStem(name, from, into) ==
  IF from = "" THEN name ELSE SelectSeq([i \in DOMAIN name |-> IF name[i].c = from THEN Tok(into) ELSE name[i]],
                                        LAMBDA t : t.c # "")

\* unreadable outputs are left out
PackFiles(files, stem) ==
  FoldLeft(LAMBDA blob, f :
             IF ~f.readable THEN blob
             ELSE blob \o ReplaceStem(f.name, stem, "@") \o <<Tok(" "), [c |-> "mode", n |-> f.mode], Tok(" "),
                          [c |-> "size", n |-> Len(f.data)], Tok("newline")>> \o f.data,
           <<>>, files)

RECURSIVE UnpackFiles(_, _, _)
UnpackFiles(blob, stem, out) ==
  IF blob = <<>> THEN [ok |-> TRUE, files |-> out]
  ELSE LET ends == {i \in DOMAIN blob : blob[i].c = "newline"}
           nl == Min(ends)
           gaps == {i \in 1..nl : blob[i].c = " "}
       IN IF ends = {} \/ Cardinality(gaps) # 2 \/ blob[nl - 1].n > Len(blob) - nl
          THEN [ok |-> FALSE, files |-> out]
          ELSE UnpackFiles(SubSeq(blob, nl + blob[nl - 1].n + 1, Len(blob)), stem,
                           Append(out, [name |-> ReplaceStem(SubSeq(blob, 1, Min(gaps) - 1), "@", stem),
                                        mode |-> blob[nl - 3].n,
                                        data |-> SubSeq(blob, nl + 1, nl + blob[nl - 1].n)]))

\* the same outputs under the other compilation's extra-filename
Renamed(files, stem, other) ==
  LET kept == SelectSeq(files, LAMBDA f : f.readable)
  IN [i \in DOMAIN kept |->
        [name |-> IF stem = "" THEN kept[i].name ELSE ReplaceStem(kept[i].name, stem, other),
         mode |-> kept[i].mode, data |-> kept[i].data]]

-----------------------------------------------------------------------------
\* an input to convert
Convert == input.codec = "none" /\ input' \in Inputs

XSpec == XInit /\ [][Convert]_input

(***************************************************************************)
(* Each conversion computes what its format defines, and its inverse gives *)
(* back what went in, at every length around a group, word or block        *)
(* boundary: base64 bodies of gocacheprog, store path hashes, SHA-256      *)
(* padding at 55, 56 and 64 bytes, ATerm strings, response file words, and *)
(* rustc outputs whose bytes look like another file's header.              *)
(***************************************************************************)
Converts ==
  input = NoInput \/
  LET x == input.x
  IN CASE input.codec = "base64" -> Base64Encode(x) = Base64(x) /\ Base64Decode(Base64Encode(x)) = x
       [] input.codec = "nix32"  -> Number(Nix32(x), 32) = Number(Reverse(x), 256)
       [] input.codec = "sha256" -> /\ ShaTail(x).whole * Block + ShaTail(x).tail = Sha256Length(x)
                                    /\ ShaTail(x).rest < ShaTail(x).tail - 8
       [] input.codec = "aterm"  -> ReadQuoted(Tail(Quote(x)), <<>>) = x
       [] input.codec = "words"  -> TokenizeGnu(Lines(x.words, x.styles)) = x.words
       [] input.codec = "pack"   ->
            UnpackFiles(PackFiles(x.files, x.stem), x.other, <<>>) = [ok |-> TRUE, files |-> Renamed(x.files, x.stem, x.other)]
       [] OTHER -> TRUE

==============================================================================

---------------------------- MODULE LayoutReading ----------------------------
(***************************************************************************)
(* How the words that were loaded are read (rpk-firmware/src/layout.rs,    *)
(* mapper/macros.rs): layers, the keys in them, macros.                    *)
(***************************************************************************)
EXTENDS LoaderOps

\* The words of the i-th body; none if the directory does not say where they are.
Words(m, i) ==
  IF i + 1 >= LAYOUT_MAX \/ m.mapping[i + 1] > LAYOUT_MAX THEN << >>
  ELSE [j \in 1..(m.mapping[i + 1] - m.mapping[i]) |-> m.mapping[m.mapping[i] + j - 1]]

LayerSlice(m, layer_num) == IF layer_num >= m.macro_dir_base THEN << >> ELSE Words(m, layer_num)

MacroSlice(m, code) == Words(m, code - MACROS_MIN + m.macro_dir_base)

IsComposite(slice) == (slice[1] \div COMPOSITE_BIT) % 2 = 1
IsCompositePart(slice) == (slice[1] \div COMPOSITE_PART_BIT) % 2 = 1

\* The bits of a word, as a set.
BitsOf(n) == {b \in 0..15 : (n \div 2^b) % 2 = 1}

CompositeBitmap(slice) == BitsOf(slice[2]) \cup {b + 16 : b \in BitsOf(slice[3])}

\* search_code: the middle s is halved in every round, whatever is left of the pairs.
RECURSIVE SearchCode(_, _, _)
SearchCode(codes, s, cmp) ==
  LET half == 2 * (s \div 4)
  IN IF Len(codes) <= half
     THEN IF Len(codes) = 2 /\ cmp = codes[1] THEN codes[2] ELSE 0
     ELSE CASE cmp < codes[half + 1] -> SearchCode(SubSeq(codes, 1, half), half, cmp)
            [] cmp = codes[half + 1] -> codes[half + 2]
            [] OTHER -> IF Len(codes) > half + 2
                        THEN SearchCode(SubSeq(codes, half + 3, Len(codes)), half, cmp) ELSE 0

\* Layer::get
LayerGet(slice, row, col) ==
  LET codes == SubSeq(slice, IF IsComposite(slice) THEN 4 ELSE 2, Len(slice))
  IN IF Len(codes) = ROWS * COLS THEN codes[row * COLS + col + 1]
     ELSE SearchCode(codes, Len(codes), 256 * row + col)

\* Macro::decode.  A timeout that is not there is u16::MAX.
Decode(slice) ==
  CASE slice = << >> -> [t |-> "noop"]
    [] slice # << >> /\ slice[1] % 256 = MODIFIER ->
         [t |-> "mods", mods |-> BitsOf(slice[1] \div 256), code |-> slice[2]]
    [] slice # << >> /\ slice[1] % 256 = DUAL_ACTION ->
         [t |-> "dualaction", tap |-> slice[2], hold |-> slice[3],
          time1 |-> IF Len(slice) > 3 THEN slice[4] ELSE 65535,
          time2 |-> IF Len(slice) > 4 THEN slice[5] ELSE 65535]
    [] slice # << >> /\ slice[1] % 256 = TAPDANCE ->
         [t |-> "tapdance", timeout |-> slice[2], codes |-> SubSeq(slice, 3, Len(slice))]
    [] slice # << >> /\ slice[1] % 256 = HOLD_RELEASE ->
         [t |-> "hold_release", codes |-> <<slice[2], slice[3]>>]
    [] slice # << >> /\ slice[1] % 256 = DELAY -> [t |-> "delay", ms |-> slice[2]]
    [] OTHER -> [t |-> "sequence", mode |-> slice[1] % 256, codes |-> SubSeq(slice, 2, Len(slice))]
=============================================================================

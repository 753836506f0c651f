----------------------------- MODULE EpdPacking ------------------------------
(***************************************************************************)
(* canvasToPackedRaw4bpp: a dithered picture becomes bytes of two palette  *)
(* indices each.  A colour is <<red, green, blue>>; the palette is one of  *)
(* colours as normalizeHex leaves them; pixels is the canvas row by row.   *)
(***************************************************************************)
EXTENDS Integers, Sequences, FiniteSetsExt

\* What a pixel of the canvas and a colour of the palette can be.
Colour == (0..255) \X (0..255) \X (0..255)

\* Palette indices count from 0.
Indices(palette) == 0..Len(palette) - 1
ColourAt(palette, i) == palette[i + 1]

Distance(c, d) ==
    LET dr == c[1] - d[1]  dg == c[2] - d[2]  db == c[3] - d[3]
    IN  dr * dr + dg * dg + db * db

\* The map keeps the last index of a colour; failing that the first of the
\* nearest colours; 0 in an empty palette.
rgbToPaletteIndex(c, palette) ==
    LET exact == {i \in Indices(palette) : ColourAt(palette, i) = c}
        d(i) == Distance(c, ColourAt(palette, i))
        nearest == {i \in Indices(palette) : \A j \in Indices(palette) : d(i) <= d(j)}
    IN  IF exact # {} THEN Max(exact)
        ELSE IF nearest = {} THEN 0 ELSE Min(nearest)

Nibble(i) == i % 16

\* What fills the last byte of an odd number of pixels.
Padding == 1

\* Mutant: the right pixel in the high nibble.
canvasToPackedRaw4bppSwapped(pixels, palette) ==
    LET index(n) == IF n <= Len(pixels) THEN rgbToPaletteIndex(pixels[n], palette) ELSE Padding
    IN  [b \in 1..(Len(pixels) + 1) \div 2 |-> Nibble(index(2 * b)) * 16 + Nibble(index(2 * b - 1))]

\* Two pixels a byte, the left one in the high nibble.
canvasToPackedRaw4bpp(pixels, palette) ==
    LET index(n) == IF n <= Len(pixels) THEN rgbToPaletteIndex(pixels[n], palette) ELSE Padding
    IN  [b \in 1..(Len(pixels) + 1) \div 2 |-> Nibble(index(2 * b - 1)) * 16 + Nibble(index(2 * b))]

\* What the display makes of the bytes: the index at pixel n.
Unpacked(bytes, n) ==
    LET byte == bytes[(n + 1) \div 2]
    IN  IF n % 2 = 1 THEN byte \div 16 ELSE byte % 16
=============================================================================

--------------------------------- MODULE Colors ---------------------------------
(***************************************************************************)
(* Color values (value/color.go) in the spaces whose conversions are       *)
(* rational: the legacy rgb, hsl and hwb, and srgb.  How each is built,    *)
(* compared and hashed, converted to the others, mapped into gamut,        *)
(* changed, and mixed with another.                                        *)
(*                                                                         *)
(* A channel is a fraction n/d in lowest terms, or None when it is         *)
(* missing.  Left out: the rounding of floating point, and with it the     *)
(* tolerance of the comparisons; infinities; the local-minde gamut map;    *)
(* the format a color was written in.  ColorSpaces follows the missing     *)
(* channels through the spaces left out here.                              *)
(***************************************************************************)
EXTENDS Integers, Sequences, FiniteSets

None == [n |-> 0, d |-> 0]
ColorError == [space |-> "error"]
-----------------------------------------------------------------------------
(* Fractions                                                               *)

Gcd[a \in Nat, b \in Nat] == IF b = 0 THEN a ELSE Gcd[b, a % b]
Magnitude(n) == IF n < 0 THEN -n ELSE n
Reduced(n, d, g) == [n |-> n \div g, d |-> d \div g]
Frac(n, d) == Reduced(IF d < 0 THEN -n ELSE n, Magnitude(d), Gcd[Magnitude(n), Magnitude(d)])
Whole(n) == [n |-> n, d |-> 1]
Zero == Whole(0)
One == Whole(1)

p \oplus q == Frac(p.n * q.d + q.n * p.d, p.d * q.d)
p \ominus q == Frac(p.n * q.d - q.n * p.d, p.d * q.d)
p \otimes q == Frac(p.n * q.n, p.d * q.d)
\* 0/0 is not a number, and every constructor makes that zero
p \oslash q == IF q.n = 0 THEN Zero ELSE Frac(p.n * q.d, p.d * q.n)
p \prec q == p.n * q.d < q.n * p.d
p \preceq q == p.n * q.d <= q.n * p.d
Lesser(p, q) == IF q \prec p THEN q ELSE p
Greater(p, q) == IF p \prec q THEN q ELSE p
\* Clamped like CSS
Clamped(x, lower, upper) == Greater(lower, Lesser(x, upper))
\* the remainder has the sign of x, as math.Mod leaves it
Remainder(x, m) == Frac((IF x.n < 0 THEN -1 ELSE 1) * (Magnitude(x.n) % (m * x.d)), x.d)
-----------------------------------------------------------------------------
(* Spaces and channels                                                     *)

Spaces == {"rgb", "hsl", "hwb", "srgb"}
IsLegacy(space) == space \in {"rgb", "hsl", "hwb"}
IsPolar(space) == space \in {"hsl", "hwb"}

LinearChannel(name, max, clamps) ==
    [name |-> name, min |-> Zero, max |-> Whole(max), polar |-> FALSE, clamps |-> clamps]
Percent(name, clamps) == LinearChannel(name, 100, clamps)
HueChannel == [name |-> "hue", min |-> Zero, max |-> Zero, polar |-> TRUE, clamps |-> {}]
AlphaChannel == LinearChannel("alpha", 1, {})
Channels(space) ==
    LET both == {"lower", "upper"}
    IN  CASE space = "rgb" -> <<LinearChannel("red", 255, both), LinearChannel("green", 255, both),
                                LinearChannel("blue", 255, both)>>
          [] space = "srgb" -> <<LinearChannel("red", 1, {}), LinearChannel("green", 1, {}),
                                 LinearChannel("blue", 1, {})>>
          [] space = "hsl" -> <<HueChannel, Percent("saturation", {"lower"}), Percent("lightness", {})>>
          [] space = "hwb" -> <<HueChannel, Percent("whiteness", {}), Percent("blackness", {})>>
ChannelIndex(space, name) == {i \in 1 .. 3 : Channels(space)[i].name = name}

Raw(space, ch, alpha) == [space |-> space, ch |-> ch, alpha |-> alpha]
\* a missing channel reads as zero
Val(x) == IF x = None THEN Zero ELSE x
Known(c) == [c EXCEPT !.ch = [i \in 1 .. 3 |-> Val(@[i])], !.alpha = Val(@)]
HasMissingChannel(c) == c.alpha = None \/ \E i \in 1 .. 3 : c.ch[i] = None

\* a negative saturation is the positive one with the opposite hue
NormalizeHue(hue, other) ==
    IF hue = None THEN None
    ELSE LET turned == IF other # None /\ other \prec Zero THEN 540 ELSE 360
         IN  Remainder(Remainder(hue, 360) \oplus Whole(turned), 360)
ForSpace(space, ch, alpha) ==
    CASE space = "hsl" -> Raw(space, <<NormalizeHue(ch[1], ch[2]),
                                       IF ch[2] # None /\ ch[2] \prec Zero THEN Zero \ominus ch[2] ELSE ch[2],
                                       ch[3]>>, alpha)
      [] space = "hwb" -> Raw(space, <<NormalizeHue(ch[1], None), ch[2], ch[3]>>, alpha)
      [] OTHER -> Raw(space, ch, alpha)
AllMissing(space, alpha) == ForSpace(space, <<None, None, None>>, alpha)

IsChannelPowerless(c, i) ==
    /\ i = 1
    /\ \/ c.space = "hsl" /\ Val(c.ch[2]) = Zero
       \/ c.space = "hwb" /\ Whole(100) \preceq (Val(c.ch[2]) \oplus Val(c.ch[3]))
-----------------------------------------------------------------------------
(* Conversions                                                             *)

HueToRgb(m1, m2, h) ==
    m1 \oplus ((m2 \ominus m1) \otimes
               (IF h \prec Frac(1, 6) THEN h \otimes Whole(6)
                ELSE IF h \prec Frac(1, 2) THEN One
                ELSE IF h \prec Frac(2, 3) THEN (Frac(2, 3) \ominus h) \otimes Whole(6)
                ELSE Zero))
\* a third of a turn to either side, brought back into the turn
Wrapped(hue) == IF hue \prec Zero THEN hue \oplus One ELSE IF One \prec hue THEN hue \ominus One ELSE hue
Hues(hue, m1, m2) == [i \in 1 .. 3 |-> HueToRgb(m1, m2, Wrapped(hue \oplus Frac(2 - i, 3)))]

\* the channel with the most, and how far the other two are apart
HueOf(ch, max, delta) ==
    LET i == CHOOSE j \in 1 .. 3 : ch[j] = max /\ \A k \in 1 .. j - 1 : ch[k] # max
    IN  IF delta = Zero THEN Zero
        ELSE ((Whole(60) \otimes (ch[(i % 3) + 1] \ominus ch[((i + 1) % 3) + 1])) \oslash delta)
                 \oplus Whole(<<360, 120, 240>>[i])
HslFrom(hue, signed, lightness, missing) ==
    <<IF "hue" \in missing \/ signed = Zero THEN None
      ELSE Remainder(IF signed \prec Zero THEN hue \oplus Whole(180) ELSE hue, 360),
      IF "chroma" \in missing THEN None ELSE [signed EXCEPT !.n = Magnitude(@)],
      IF "lightness" \in missing THEN None ELSE lightness \otimes Whole(100)>>
SignedSaturation(max, lightness) ==
    IF lightness \in {Zero, One} THEN Zero
    ELSE (Whole(100) \otimes (max \ominus lightness)) \oslash Lesser(lightness, One \ominus lightness)
SrgbToHsl(hue, max, lightness, missing) == HslFrom(hue, SignedSaturation(max, lightness), lightness, missing)
SrgbToHwb(hue, whiteness, blackness, missing) ==
    <<IF "hue" \in missing \/ Whole(100) \preceq (whiteness \oplus blackness) THEN None
      ELSE Remainder(hue, 360)>>
        \o (IF {"chroma", "lightness"} \subseteq missing THEN <<None, None>> ELSE <<whiteness, blackness>>)
SrgbToPolar(dest, ch, max, min, missing) ==
    LET hue == HueOf(ch, max, max \ominus min)
    IN  IF dest = "hsl" THEN SrgbToHsl(hue, max, (min \oplus max) \oslash Whole(2), missing)
        ELSE SrgbToHwb(hue, min \otimes Whole(100), Whole(100) \ominus (max \otimes Whole(100)), missing)
Most(ch) == Greater(ch[1], Greater(ch[2], ch[3]))
Least(ch) == Lesser(ch[1], Lesser(ch[2], ch[3]))
SrgbTo(dest, ch, alpha, missing) ==
    LET known == [i \in 1 .. 3 |-> Val(ch[i])]
        to == IF \/ \A i \in 1 .. 3 : ch[i] = None
                 \/ missing = {"lightness", "chroma", "hue"}
              THEN <<None, None, None>>
              ELSE CASE dest = "rgb" -> [i \in 1 .. 3 |-> IF ch[i] = None THEN None ELSE ch[i] \otimes Whole(255)]
                     [] dest = "srgb" -> ch
                     [] OTHER -> SrgbToPolar(dest, known, Most(known), Least(known), missing)
    IN  ForSpace(dest, to, alpha)

\* each of the other spaces arrives in srgb first: its channels there, and what it misses
Arrived(ch, missing) == [ch |-> ch, missing |-> missing]
RgbToSrgb(ch) == Arrived([i \in 1 .. 3 |-> IF ch[i] = None THEN None ELSE ch[i] \oslash Whole(255)], {})
HslUpper(s, l) == IF l \preceq Frac(1, 2) THEN l \otimes (s \oplus One) ELSE (l \oplus s) \ominus (l \otimes s)
HslHues(hue, l, m2) == Hues(hue, (l \otimes Whole(2)) \ominus m2, m2)
HslKnown(hue, s, l) == HslHues(hue, l, HslUpper(s, l))
HslToSrgb(ch) ==
    Arrived(HslKnown(Remainder(Val(ch[1]) \oslash Whole(360), 1),
                     Val(ch[2]) \oslash Whole(100), Val(ch[3]) \oslash Whole(100)),
            (IF ch[1] = None THEN {"hue"} ELSE {}) \cup (IF ch[2] = None THEN {"chroma"} ELSE {})
                \cup (IF ch[3] = None THEN {"lightness"} ELSE {}))
\* whiteness and blackness are scaled down to no more than all
HwbKnown(hue, w, b) ==
    LET pure == Hues(hue, Zero, One)
        factor == (One \ominus w) \ominus b
    IN  [i \in 1 .. 3 |-> (pure[i] \otimes factor) \oplus w]
HwbScale(sum) == IF Whole(100) \prec sum THEN sum ELSE Whole(100)
HwbScaled(hue, w, b, scale) == HwbKnown(hue, w \oslash scale, b \oslash scale)
HwbToSrgb(ch) ==
    Arrived(HwbScaled(Remainder(Val(ch[1]), 360) \oslash Whole(360), Val(ch[2]), Val(ch[3]),
                      HwbScale(Val(ch[2]) \oplus Val(ch[3]))),
            IF ch[1] = None THEN {"hue"} ELSE {})
ToSrgb(space, ch) ==
    CASE space = "hsl" -> HslToSrgb(ch)
      [] space = "hwb" -> HwbToSrgb(ch)
      [] space = "srgb" -> Arrived(ch, {})
      [] space = "rgb" -> RgbToSrgb(ch)
ConvertBy(srgb, dest, alpha) == SrgbTo(dest, srgb.ch, alpha, srgb.missing)
\* hwb without whiteness and blackness is converted as hwb that has none of either
Bleak(c) == c.space = "hwb" /\ c.ch[2] = None /\ c.ch[3] = None
Unbleached(c) == [i \in 1 .. 3 |-> IF Bleak(c) /\ i > 1 THEN Zero ELSE c.ch[i]]
Rebleached(c, converted, dest) ==
    CASE ~Bleak(c) -> converted
      [] Bleak(c) /\ c.ch[1] = None -> AllMissing(dest, c.alpha)
      [] Bleak(c) /\ c.ch[1] # None ->
            IF dest = "hsl" THEN ForSpace("hsl", <<Val(converted.ch[1]), None, None>>, Val(converted.alpha))
            ELSE converted
Convert(c, dest) ==
    Rebleached(c, ConvertBy(ToSrgb(c.space, Unbleached(c)), dest, c.alpha), dest)
LegacyKnown(c, space, legacyMissing) == IF ~legacyMissing /\ IsLegacy(space) THEN Known(c) ELSE c
ToSpace(c, space, legacyMissing) ==
    IF c.space = space THEN c ELSE LegacyKnown(Convert(c, space), space, legacyMissing)
-----------------------------------------------------------------------------
(* Comparing, gamut, changing channels                                     *)

ColorEquals(c, other) ==
    IF IsLegacy(c.space) /\ IsLegacy(other.space) /\ c.space # other.space
    THEN /\ c.alpha = other.alpha
         /\ ToSpace(c, "rgb", TRUE) = ToSpace(other, "rgb", TRUE)
    ELSE c = other
\* the channels that are hashed, which the code folds into one number
HashCode(c) == IF IsLegacy(c.space) THEN <<"legacy", Known(ToSpace(c, "rgb", TRUE))>>
               ELSE <<c.space, Known(c)>>

IsInGamut(c) == \A i \in 1 .. 3 : LET ch == Channels(c.space)[i]
                                  IN  ch.polar \/ (ch.min \preceq Val(c.ch[i]) /\ Val(c.ch[i]) \preceq ch.max)
ClipGamutMap(c) ==
    [c EXCEPT !.ch = [i \in 1 .. 3 |-> LET ch == Channels(c.space)[i]
                                       IN  IF @[i] = None \/ ch.polar THEN @[i]
                                           ELSE Clamped(@[i], ch.min, ch.max)]]
ToGamutClip(c) == IF IsInGamut(c) THEN c ELSE ClipGamutMap(c)

\* a channel of a legacy color read in another legacy space
LegacyChannel(c, space, name) ==
    Val(ToSpace(c, space, TRUE).ch[CHOOSE i \in ChannelIndex(space, name) : TRUE])
\* a legacy color with some of its hsl channels replaced; None keeps one
ChangeHsl(c, ch) ==
    LET names == <<"hue", "saturation", "lightness">>
    IN  ToSpace(ForSpace("hsl", [i \in 1 .. 3 |-> IF ch[i] # None THEN ch[i]
                                                  ELSE LegacyChannel(c, "hsl", names[i])], Val(c.alpha)),
                c.space, TRUE)
ChangeAlpha(c, alpha) == ForSpace(c.space, Known(c).ch, alpha)
-----------------------------------------------------------------------------
(* Mixing                                                                  *)

HueMethods == {"shorter", "longer", "increasing", "decreasing"}
\* Mutant: the turn is added to the wrong side.
HueArcWrong(hue1, hue2, method) ==
    LET diff == hue2 \ominus hue1
    IN  IF method = "shorter" /\ Whole(180) \prec diff THEN <<hue1, hue2 \oplus Whole(360)>>
        ELSE <<hue1, hue2>>
\* the two hues with a turn added to one, so that a straight line takes the arc asked for
HueArc(hue1, hue2, method) ==
    LET diff == hue2 \ominus hue1
        turn1 == <<hue1 \oplus Whole(360), hue2>>
        turn2 == <<hue1, hue2 \oplus Whole(360)>>
    IN  CASE method = "shorter" -> IF Whole(180) \prec diff THEN turn1
                                   ELSE IF diff \prec Whole(-180) THEN turn2 ELSE <<hue1, hue2>>
          [] method = "longer" -> IF Zero \prec diff /\ diff \prec Whole(180) THEN turn2
                                  ELSE IF Whole(-180) \prec diff /\ diff \preceq Zero THEN turn1
                                  ELSE <<hue1, hue2>>
          [] method = "increasing" -> IF diff \prec Zero THEN turn2 ELSE <<hue1, hue2>>
          [] method = "decreasing" -> IF Zero \prec diff THEN turn1 ELSE <<hue1, hue2>>
InterpolateHues(hue1, hue2, method, w) ==
    LET arc == HueArc(hue1, hue2, method)
    IN  (arc[1] \otimes w) \oplus (arc[2] \otimes (One \ominus w))

\* two colors in one space, weighing their channels by their alpha
InterpolateIn(a, b, method, w, v) ==
    LET \* what one side is missing it takes from the other
        ch1 == [i \in 1 .. 3 |-> IF a.ch[i] = None THEN b.ch[i] ELSE a.ch[i]]
        ch2 == [i \in 1 .. 3 |-> IF b.ch[i] = None THEN a.ch[i] ELSE b.ch[i]]
        alpha1 == IF a.alpha = None THEN Val(b.alpha) ELSE a.alpha
        alpha2 == IF b.alpha = None THEN Val(a.alpha) ELSE b.alpha
        multiplier1 == IF a.alpha = None THEN w ELSE a.alpha \otimes w
        multiplier2 == IF b.alpha = None THEN v ELSE b.alpha \otimes v
        alpha == IF a.alpha = None /\ b.alpha = None THEN None
                 ELSE (alpha1 \otimes w) \oplus (alpha2 \otimes v)
    IN  ForSpace(a.space,
                 [i \in 1 .. 3 |->
                    IF ch1[i] = None THEN None
                    ELSE IF Channels(a.space)[i].polar THEN InterpolateHues(ch1[i], ch2[i], method, w)
                    ELSE ((ch1[i] \otimes multiplier1) \oplus (ch2[i] \otimes multiplier2))
                             \oslash (IF alpha = None THEN One ELSE alpha)], alpha)
WithAlphaOf(c, other) == [c EXCEPT !.alpha = other.alpha]
Interpolate(c, other, space, method, legacyMissing, w) ==
    IF w = Zero THEN other ELSE IF w = One THEN c
    ELSE ToSpace(InterpolateIn(WithAlphaOf(ToSpace(c, space, TRUE), c), WithAlphaOf(ToSpace(other, space, TRUE), other),
                               method, w, One \ominus w),
                 c.space, legacyMissing)
=============================================================================

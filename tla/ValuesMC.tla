-------------------------------- MODULE ValuesMC --------------------------------
(***************************************************************************)
(* The values a stylesheet computes with, checked on small inputs.  A      *)
(* behavior fixes a topic, is given its input a piece at a time, and keeps *)
(* in "at" what the code has made of it.                                   *)
(***************************************************************************)
EXTENDS ColorFunctions, TLC

CS == INSTANCE ColorSpaces

VARIABLES topic, given, at
vars == <<topic, given, at>>

Give(x) == given' = Append(given, x) /\ UNCHANGED topic
-----------------------------------------------------------------------------
(* Colors: one is built, another may join it, and a function is called.    *)

Pick(space, c1, c2, c3, alphas) ==
    {ForSpace(space, <<x, y, z>>, a) : x \in c1, y \in c2, z \in c3, a \in alphas}
Opaque == {One}
Wholes(S) == {Whole(n) : n \in S}
Legacy ==
    Pick("rgb", Wholes({0, 51, 255}), Wholes({102, 255}), Wholes({0, 153, 306}), {One, Frac(1, 2)})
    \cup Pick("rgb", Wholes({102}) \cup {None}, Wholes({102}) \cup {None}, {Whole(51), None}, {One, None})
    \cup Pick("hsl", Wholes({0, 30, 240}), Wholes({-50, 0, 50, 100}), Wholes({0, 25, 50, 120}), Opaque)
    \cup Pick("hsl", {Whole(120), None}, {Whole(50), None}, {Whole(25), None}, {One, None})
    \cup Pick("hwb", Wholes({30, 180}), Wholes({0, 20}), Wholes({0, 40, 100, 110}), Opaque)
    \cup Pick("hwb", {Whole(60), None}, {Whole(20), None}, {Whole(40), None}, {One, None})
Modern ==
    Pick("srgb", {Zero, Frac(1, 5), One}, {Frac(2, 5), Frac(6, 5)}, {Zero, Frac(3, 5)}, {Zero, One})
    \cup Pick("srgb", {Frac(1, 5), None}, {Frac(2, 5), None}, {None}, {One, None})
\* the colors that mix
Mixable ==
    Pick("rgb", Wholes({0, 255}), {Whole(102)}, Wholes({51}), {One, Zero, Frac(1, 2)})
    \cup Pick("hsl", Wholes({30, 210, 330}), {Whole(50)}, {Whole(40)}, {One, Frac(1, 4)})
    \cup Pick("hsl", {None, Whole(90)}, {Whole(50), None}, {Whole(20)}, {None})
    \cup Pick("hwb", Wholes({120, 300}), {Whole(20)}, {Whole(30)}, {One})
    \cup Pick("srgb", {Frac(1, 5), None}, {Frac(2, 5)}, {Zero}, {One, None})
GiveColor == /\ topic = "color" /\ given = <<>>
             /\ \E c \in Legacy \cup Modern \cup Mixable : Give(c) /\ at' = [s \in Spaces |-> ToSpace(c, s, TRUE)]

Missing(c) == {i \in 1 .. 3 : c.ch[i] = None}
\* a color none of whose channels its own space makes powerless, or loses at black and white
Determined(c) == /\ ~IsChannelPowerless(c, 1)
                 /\ c.space = "hsl" => c.ch[3] \notin {Zero, Whole(100)}
\* what is missing can decide the color only where it reads as zero on both sides
Comparable(c, d) == /\ c.alpha # None
                    /\ \/ Missing(c) = {}
                       \/ c.space = "hsl" /\ Missing(d) # 1 .. 3
                       \/ c.space = "hwb" /\ ~({2, 3} \subseteq Missing(c))
(* A color without missing channels, out of gamut or not, comes back from  *)
(* every space exactly as it was, unless black, white or gray took its hue *)
(* or saturation; whatever its space a legacy color equals what it was     *)
(* converted to and shares its hash; a converted hue is missing when it    *)
(* has no effect; and a missing lightness, saturation or hue stays missing *)
(* in a space that has the channel, a missing red, green or blue in a      *)
(* space that has it too.                                                  *)
ColorsConvert ==
    (topic = "color" /\ Len(given) = 1) =>
        LET c == given[1] IN
        \A s \in Spaces :
            LET d == at[s] IN
            /\ Missing(c) = {} /\ (Determined(c) \/ s = c.space) => ToSpace(d, c.space, TRUE) = c
            /\ IsLegacy(c.space) /\ IsLegacy(s) /\ Comparable(c, d) =>
                    ColorEquals(c, d) /\ ColorEquals(d, c) /\ HashCode(c) = HashCode(d)
            /\ IsPolar(s) /\ s # c.space /\ d.ch[2] # None /\ IsChannelPowerless(d, 1) => d.ch[1] = None
            /\ {c.space, s} \subseteq {"hsl", "hwb"} /\ c.ch[1] = None => d.ch[1] = None
            /\ {c.space, s} \subseteq {"rgb", "srgb"} => Missing(c) = Missing(d)
            /\ Missing(c) = 1 .. 3 => Missing(d) = 1 .. 3

\* and how
Weights == {Zero, Frac(1, 4), Frac(1, 2)}
Methods == {<<"null", "none">>, <<"rgb", "none">>, <<"srgb", "none">>}
               \cup ({"hsl", "hwb"} \X HueMethods)
GiveSecond == /\ topic = "color" /\ Len(given) = 1 /\ given[1] \in Mixable
              /\ \E c \in Mixable : Give(c) /\ UNCHANGED at
GiveMethod == /\ topic = "color" /\ Len(given) = 2 /\ given[1] \in Mixable
              /\ \E w \in Weights, m \in Methods :
                    /\ Give([w |-> w, space |-> m[1], hue |-> m[2]])
                    /\ at' = Mix(given[1], given[2], w, m[1], m[2])

Opposite(method) == CASE method = "increasing" -> "decreasing" [] method = "decreasing" -> "increasing"
                      [] OTHER -> method
Between(x, y, z) == Lesser(x, z) \preceq y /\ y \preceq Greater(x, z)
\* a missing alpha mixed with 0 divides by zero
Mixes(c, other) == ~(None \in {c.alpha, other.alpha} /\ Zero \in {c.alpha, other.alpha})
\* there is more than one arc
Turned(hue1, hue2) == None \notin {hue1, hue2} /\ hue1 # hue2
(* Mixing takes the same color from either end: with the weights swapped,  *)
(* and increasing hues for decreasing ones.  The legacy mix stays between  *)
(* the two, channel by channel and in alpha.  A color that misses a        *)
(* channel takes the other's there, so mixed with itself it does not       *)
(* change; the hue runs along the arc the method names and no further; and *)
(* what both are missing the mix is missing too.                           *)
ColorsMix ==
    (topic = "color" /\ Len(given) = 3 /\ Mixes(given[1], given[2])) =>
        LET c == given[1]
            other == given[2]
            how == given[3]
            w == how.w
            legacy == IsLegacy(c.space) /\ IsLegacy(other.space)
            a == ToSpace(c, how.space, TRUE)
            b == ToSpace(other, how.space, TRUE)
            swapped == Mix(other, c, One \ominus w, how.space, Opposite(how.hue))
            arc == HueArc(a.ch[1], b.ch[1], how.hue)
            span == arc[2] \ominus arc[1]
        IN  /\ at = ColorError <=> how.space = "null" /\ ~legacy
            /\ how.space = "null" /\ legacy =>
                  LET rgb1 == Known(ToSpace(c, "rgb", TRUE))
                      rgb2 == Known(ToSpace(other, "rgb", TRUE))
                  IN  /\ at = swapped
                      /\ \A i \in 1 .. 3 : Between(rgb1.ch[i], at.ch[i], rgb2.ch[i])
                      /\ Between(rgb1.alpha, at.alpha, rgb2.alpha)
            /\ how.space # "null" /\ c.space = other.space /\ (how.hue # "longer" \/ Turned(a.ch[1], b.ch[1])) =>
                  at = swapped
            /\ how.space # "null" /\ c = other /\ how.hue # "longer" /\ ~HasMissingChannel(c) /\ c.alpha # Zero =>
                  ColorEquals(at, c)
            /\ IsPolar(how.space) /\ None \notin {a.ch[1], b.ch[1]} =>
                  /\ Remainder(arc[1] \ominus a.ch[1], 360) = Zero /\ Remainder(arc[2] \ominus b.ch[1], 360) = Zero
                  /\ CASE how.hue = "shorter" -> Between(Whole(-180), span, Whole(180))
                       [] how.hue = "longer" -> ~(Whole(-180) \prec span /\ span \prec Whole(180))
                       [] how.hue = "increasing" -> Zero \preceq span /\ span \prec Whole(360)
                       [] how.hue = "decreasing" -> Whole(-360) \prec span /\ span \preceq Zero

\* one call of a function on a color
Call(ops, names, values, spaces) == [op : ops, name : names, v : values, space : spaces]
Calls == Call({"invert"}, {"every"}, {One}, Spaces \cup {"null"})
             \cup Call({"complement"}, {"hue"}, {Zero}, {"null", "hsl", "hwb"})
             \cup Call({"lighten", "darken"}, {"lightness"}, Wholes({20, 60, 130}), {"null"})
             \cup Call({"saturate", "desaturate"}, {"saturation"}, Wholes({20, 60}), {"null"})
             \cup Call({"opacify", "transparentize"}, {"alpha"}, {Frac(1, 4)}, {"null"})
             \cup Call({"adjust-hue"}, {"hue"}, Wholes({-90, 150}), {"null"})
             \cup Call({"change", "adjust", "scale"}, {"red", "blue", "hue", "saturation", "lightness", "blackness"},
                       Wholes({-30, 0, 40}), {"null", "rgb", "hsl", "hwb"})
Update(c, call) ==
    UpdateComponents(call.op, c, call.name :> Arg(call.v, IF call.name \in {"red", "blue"} /\ call.op # "scale"
                                                          THEN "" ELSE "%"), NoArgument, call.space)
Result(c, call) ==
    CASE call.op = "invert" -> Invert(c, One, call.space)
      [] call.op = "complement" -> Complement(c, call.space)
      [] call.op = "lighten" -> Lighten(c, call.v)
      [] call.op = "darken" -> Darken(c, call.v)
      [] call.op = "saturate" -> Saturate(c, call.v)
      [] call.op = "desaturate" -> Desaturate(c, call.v)
      [] call.op = "opacify" -> Opacify(c, call.v)
      [] call.op = "transparentize" -> Transparentize(c, call.v)
      [] call.op = "adjust-hue" -> AdjustHue(c, call.v)
      [] OTHER -> Update(c, call)
GiveCall == /\ topic = "color" /\ Len(given) = 1 /\ given[1] \notin Mixable
            /\ \E call \in Calls : Give(call) /\ at' = Result(given[1], call)

Deprecated == {"lighten", "darken", "saturate", "desaturate", "opacify", "transparentize", "adjust-hue"}
\* what the deprecation of a function says to call instead
Suggested(c, call) ==
    LET amount == IF call.op \in {"darken", "desaturate", "transparentize"} THEN Zero \ominus call.v ELSE call.v
        old == IF call.name = "alpha" THEN c.alpha ELSE LegacyChannel(c, "hsl", call.name)
        max == IF call.name = "alpha" THEN One ELSE Whole(100)
        by(how, arg) == IF call.name = "alpha" THEN UpdateComponents(how, c, <<>>, arg, "null")
                        ELSE UpdateComponents(how, c, call.name :> arg, NoArgument, "null")
        unit == CASE call.name = "alpha" -> "" [] call.name = "hue" -> "deg" [] OTHER -> "%"
        \* only the alpha and the lower end of saturation are clamped there
        inside == call.name \in {"hue", "alpha"} \/ Between(Zero, old \oplus amount, max)
    IN  (IF call.op = "adjust-hue" THEN {} ELSE {by("scale", Arg(SuggestedScale(old, max, amount), "%"))})
            \cup (IF inside THEN {by("adjust", Arg(amount, unit))} ELSE {})
\* the same on a screen: equal hsl or hwb colors also agree in the hue of a gray
Looks(c, other) == Known(ToSpace(c, "rgb", TRUE)) = Known(ToSpace(other, "rgb", TRUE))
(* Inverting twice, or taking the complement twice, gives the color back,  *)
(* and it does not matter in which space; what a deprecated function says  *)
(* to call instead makes the same color of one in gamut; and change,       *)
(* adjust and scale leave the channels alone that they are not given,      *)
(* unless a saturation below zero turns the hue; scale stays in gamut.     *)
ColorFunctionsAgree ==
    (topic = "color" /\ Len(given) = 2 /\ given[1] \notin Mixable /\ at # ColorError) =>
        LET c == given[1]
            call == given[2]
            complete == ~HasMissingChannel(c) /\ IsInGamut(ToSpace(c, "rgb", TRUE))
        IN  /\ call.op = "invert" /\ complete =>
                  /\ Looks(Invert(at, One, call.space), c)
                  /\ Looks(at, Invert(c, One, "rgb"))
            /\ call.op = "complement" /\ complete =>
                  /\ Looks(Complement(at, call.space), c)
                  /\ Complement(c, "hsl") = ColorError \/ Looks(at, Complement(c, "hsl"))
            /\ call.op \in Deprecated /\ complete => \A new \in Suggested(c, call) : Looks(at, new)
            /\ call.op \in {"change", "adjust", "scale"} /\ call.space = c.space
                    /\ ~(call.op = "change" /\ call.name = "saturation" /\ call.v \prec Zero) =>
                  \A i \in 1 .. 3 \ ChannelIndex(c.space, call.name) :
                      c.space # "hwb" \/ Val(at.ch[2]) \oplus Val(at.ch[3]) # Whole(100) => at.ch[i] = c.ch[i]
            /\ call.op = "scale" /\ complete => IsInGamut(ToSpace(at, "rgb", TRUE))

\* what rgb(), hsl() and hwb() are called with
Number(values, unit) == {Arg(Whole(n), unit) : n \in values}
ArgumentsOf(space, i) ==
    {NoneArgument} \cup
        (IF i = 3 THEN {Arg(None, "var"), Arg(None, "word")} ELSE {}) \cup
        IF IsPolar(space) /\ i = 1 THEN Number({-90, 400}, "deg")
        ELSE Number({-20, 70, 130}, "%") \cup Number({51}, "") \cup Number({1}, "px")
Alphas == {NoArgument, NoneArgument, Arg(Frac(1, 2), ""), Arg(Whole(150), "%"), Arg(One, "px"), Arg(None, "calc")}
\* the ways to write three channels and alpha in one list
Spellings(args, alpha) ==
    LET numbers == IsNumber(args[3]) /\ IsNumber(alpha)
        slashed(form) == List("space", <<args[1], args[2], Slashed(form, <<args[3], alpha>>)>>)
    IN  IF alpha = NoArgument THEN {List("space", args)}
        ELSE {List("slash", <<List("space", args), alpha>>), slashed("text/")}
                 \cup (IF numbers THEN {slashed("number/")} ELSE {})
GiveArguments ==
    /\ topic = "color" /\ given = <<>>
    /\ \E space \in {"rgb", "hsl", "hwb"}, alpha \in Alphas :
       \E x \in ArgumentsOf(space, 1), y \in ArgumentsOf(space, 2), z \in ArgumentsOf(space, 3) :
            /\ given' = <<space, x, y, z, alpha>> /\ UNCHANGED topic
            /\ \E input \in Spellings(<<x, y, z>>, alpha) : at' = ParseChannels(space, input)

Names(space) == {Channels(space)[i].name : i \in 1 .. 3}
KeptArguments(c) == [i \in 1 .. 3 |-> KeptAsArgument(c, i)]
(* However the slash before alpha is read, as a list, a number or part of  *)
(* a string, it makes the same of the channels, and so do commas where     *)
(* nothing is none; what only the browser can compute is left to it,       *)
(* unless the rest is wrong anyway.                                        *)
ColorsParsed ==
    (topic = "color" /\ Len(given) = 5) =>
        LET args == SubSeq(given, 2, 4)
            alpha == given[5]
            spellings == {ParseChannels(given[1], input) : input \in Spellings(args, alpha)}
            special == IsSpecialNumber(alpha) \/ \E i \in 1 .. 3 : IsSpecialNumber(args[i])
        IN  /\ spellings = {at}
            /\ given[1] # "hwb" /\ NoneArgument \notin {alpha, args[1], args[2], args[3]} =>
                  \/ CommaConstructor(given[1], args, alpha) = at
                  \/ at = ColorError /\ special
            /\ at = PlainCss => special
            /\ at \notin {PlainCss, ColorError} =>
                  ParseChannels("null", List("space", <<Arg(None, "srgb")>> \o args)) # PlainCss
(* A constructor keeps each channel where CSS does: alpha and rgb between  *)
(* their ends, a hue within the turn, a saturation not negative, whiteness *)
(* and blackness no more than all; missing is what was none.  Called with  *)
(* the channels of the color it made it makes it again, and so does change *)
(* with any of them; the functions that read a channel tell what is there, *)
(* grayscale keeps the lightness alone, and the gamut map arrives in it.   *)
ColorsBuilt ==
    (topic = "color" /\ Len(given) = 5 /\ at \notin {ColorError, PlainCss}) =>
        LET c == at
            args == SubSeq(given, 2, 4)
            alpha == IF c.alpha = None THEN NoneArgument ELSE Arg(c.alpha, "")
        IN  /\ \A i \in 1 .. 3 : c.ch[i] = None <=> args[i] = NoneArgument
            /\ IsMissing(c, "alpha") <=> given[5] = NoneArgument
            /\ Between(Zero, Val(c.alpha), One)
            /\ c.space = "rgb" => IsInGamut(c)
            /\ IsPolar(c.space) => Zero \preceq Val(c.ch[1]) /\ Val(c.ch[1]) \prec Whole(360)
            /\ c.space = "hsl" => Zero \preceq Val(c.ch[2])
            /\ c.space = "hwb" /\ Missing(c) = {} => (c.ch[2] \oplus c.ch[3]) \preceq Whole(100)
            /\ ParseChannels(c.space, List("slash", <<List("space", KeptArguments(c)), alpha>>)) = c
            /\ ~IsMissing(c, "alpha") => \A i \in 1 .. 3 :
                  UpdateComponents("change", c, Channels(c.space)[i].name :> KeptAsArgument(c, i), NoArgument, c.space) = c
            /\ \A name \in Names(c.space) : ChannelOf(c, name, "null") = LegacyChannel(c, c.space, name)
            /\ LET gray == Grayscale(c)
               IN  /\ LegacyChannel(gray, "hsl", "saturation") = Zero
                   /\ LegacyChannel(gray, "hsl", "lightness") = LegacyChannel(c, "hsl", "lightness")
            /\ \A space \in {"rgb", "srgb"} : IsInGamut(ToSpace(ToGamut(c, space), space, TRUE))
            /\ ~HasMissingChannel(c) => Alike(RgbTwoArg(c, Arg(c.alpha, "")), c)
-----------------------------------------------------------------------------
(* The missing channels of a color, and the space it is converted to.      *)

Like(name, other) == CS!IsAnalogous(name, other) \/ (name = other /\ name \in {"a", "b"})
\* reading what is missing as zero decides if a color is gray, or dark
CanBe(space, missing, gray, dark) ==
    /\ space \in {"lch", "oklch"} /\ 2 \in missing => gray
    /\ space \in {"lab", "oklab"} /\ {2, 3} \subseteq missing => gray
    /\ space = "hsl" /\ missing \cap {2, 3} # {} => gray
    /\ space = "hwb" /\ {2, 3} \subseteq missing => ~gray
    /\ missing = 1 .. 3 /\ space # "hwb" => gray
    /\ space \in {"lab", "lch", "oklab", "oklch"} /\ 1 \in missing => dark
GiveMissing ==
    /\ topic = "space" /\ given = <<>>
    /\ \E space \in CS!ColorSpace, missing \in SUBSET (1 .. 3), gray, dark \in BOOLEAN :
          /\ CanBe(space, missing, gray, dark)
          /\ Give([space |-> space, missing |-> missing, gray |-> gray, dark |-> dark])
          /\ at' = missing
GiveSpace ==
    /\ topic = "space" /\ Len(given) = 1
    /\ \E dest \in CS!ColorSpace :
          /\ Give(dest)
          /\ at' = CS!ConvertMissing(given[1].space, dest, given[1].missing, given[1].gray, given[1].dark)

\* the names of what is missing, with the channels whose lack is the same lack
Lacking(color) ==
    LET names == {CS!SpaceChannels(color.space)[i] : i \in color.missing}
        lch == CASE {"a", "b"} \subseteq names -> {"chroma", "hue"}
                 [] {"whiteness", "blackness"} \subseteq names -> {"lightness", "chroma"}
                 [] "saturation" \in names -> {"chroma"}
                 [] OTHER -> {}
        all == names \cup lch
    IN  all \cup (IF {"chroma", "hue"} \subseteq all THEN {"a", "b"} ELSE {})
            \cup (IF {"lightness", "chroma"} \subseteq all THEN {"whiteness", "blackness"} ELSE {})
(* Through every hub: a channel that is missing stays missing in a space    *)
(* that has one like it, and no other channel goes missing, except the hue  *)
(* of a gray, which has no effect, a and b of a dark color on its way to    *)
(* lab, and all of them when all were.                                      *)
SpacesKeepMissing ==
    (topic = "space" /\ Len(given) = 2) =>
        LET color == given[1]
            name(i) == CS!SpaceChannels(given[2])[i]
        IN  /\ \A i \in color.missing, j \in 1 .. 3 :
                  Like(CS!SpaceChannels(color.space)[i], name(j)) => j \in at
            /\ \A j \in at : \/ \E lost \in Lacking(color) : lost = name(j) \/ Like(lost, name(j))
                             \/ name(j) = "hue" /\ color.gray
                             \/ given[2] = "lab" /\ color.space = "lch" /\ color.dark
                             \/ color.missing = 1 .. 3
            /\ color.missing = 1 .. 3 => at = 1 .. 3

(* Converted, a color is the same color, and what it is missing stays       *)
(* missing: exactly in the four spaces of Colors, and as far as the missing *)
(* channels go in all sixteen.                                              *)
ConversionKeeps == ColorsConvert /\ SpacesKeepMissing
(* What is written for a color, in any of the ways to write it, is what     *)
(* becomes of it.                                                           *)
ColorsRead == ColorsParsed /\ ColorsBuilt
-----------------------------------------------------------------------------
Init == given = <<>> /\ topic \in {"color", "space"} /\ at = <<>>
Next == GiveMissing \/ GiveSpace \/ GiveColor \/ GiveSecond \/ GiveMethod \/ GiveCall \/ GiveArguments
Spec == Init /\ [][Next]_vars
=============================================================================

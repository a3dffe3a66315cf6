----------------------------- MODULE ColorFunctions -----------------------------
(***************************************************************************)
(* The functions of sass:color and their global forms over the spaces of   *)
(* Colors: the constructors (functions/color_spaces.go), adjust, scale and *)
(* change (functions/color_adjust.go), and the functions that replace one  *)
(* color by another (functions/color_manipulation.go) with the suggestion  *)
(* their deprecation prints.                                               *)
(*                                                                         *)
(* An argument is [v, unit]: a number, or NoArgument when it is not        *)
(* passed, NoneArgument for an unquoted none, or with v None and the unit  *)
(* "var", "calc", "from", "srgb" or "word" what its unit names.  Left out: *)
(* the deprecations for a number of the wrong unit, which is then read as  *)
(* if it had the right one; the forms that are CSS filters.                *)
(***************************************************************************)
EXTENDS Colors

Arg(v, unit) == [v |-> v, unit |-> unit]
NoArgument == Arg(None, "absent")
NoneArgument == Arg(None, "none")
\* a call the browser is left to evaluate
PlainCss == [space |-> "css"]
-----------------------------------------------------------------------------
(* Constructors                                                            *)

PercentageOrUnitless(arg, max) ==
    IF arg.unit = "%" THEN (max \otimes arg.v) \oslash Whole(100) ELSE arg.v
\* a value within the ends a channel clamps
ClampedTo(channel, x) ==
    LET low == IF "lower" \in channel.clamps THEN Greater(channel.min, x) ELSE x
    IN  IF "upper" \in channel.clamps THEN Lesser(channel.max, low) ELSE low
ChannelFromValue(channel, arg, clamp) ==
    IF arg = NoneArgument THEN None
    ELSE IF channel.polar THEN Remainder(arg.v, 360)
    ELSE LET v == PercentageOrUnitless(arg, channel.max)
         IN  IF clamp THEN ClampedTo(channel, v) ELSE v
\* hue in degrees, and in hsl the rest percentages, whatever their unit
ReadsAs(space, i, arg) ==
    IF arg # NoneArgument /\ space = "hsl" /\ i > 1 THEN Arg(arg.v, "%") ELSE arg
AcceptsUnits(space, args) ==
    \A i \in 1 .. 3 :
        args[i] # NoneArgument =>
            CASE space = "hsl" \/ Channels(space)[i].polar -> TRUE
              [] space = "hwb" /\ i > 1 -> args[i].unit = "%"
              [] OTHER -> args[i].unit \in {"%", ""}
ColorFromChannels(space, args, alpha, clamp) ==
    LET ch == [i \in 1 .. 3 |->
                 IF space = "hwb" \/ Channels(space)[i].polar
                 THEN IF args[i] = NoneArgument THEN None ELSE args[i].v
                 ELSE ChannelFromValue(Channels(space)[i], ReadsAs(space, i, args[i]), clamp)]
        sum == Val(ch[2]) \oplus Val(ch[3])
        crowded == space = "hwb" /\ ch[2] # None /\ ch[3] # None /\ Whole(100) \prec sum
    IN  IF ~AcceptsUnits(space, args) THEN ColorError
        ELSE IF space = "rgb" THEN Raw(space, ch, alpha)
        ELSE IF crowded
        THEN ForSpace(space, <<ch[1], (ch[2] \oslash sum) \otimes Whole(100),
                               (ch[3] \oslash sum) \otimes Whole(100)>>, alpha)
        ELSE ForSpace(space, ch, alpha)
IsNumber(arg) == arg.v # None
\* calc(), var() and the like: only the browser knows
IsSpecialNumber(arg) == arg.unit \in {"var", "calc"}
IsSpecialVariable(arg) == arg.unit = "var"
AlphaIn(arg) == IF arg = NoArgument THEN One ELSE IF arg = NoneArgument THEN None
                ELSE Clamped(PercentageOrUnitless(arg, One), Zero, One)
ValidAlpha(arg) == arg \in {NoArgument, NoneArgument} \/ (IsNumber(arg) /\ arg.unit \in {"%", ""})

\* rgb() and hsl() with commas
CommaConstructor(space, args, alpha) ==
    IF IsSpecialNumber(alpha) \/ \E i \in 1 .. 3 : IsSpecialNumber(args[i]) THEN PlainCss
    ELSE IF alpha = NoneArgument \/ ~ValidAlpha(alpha) \/ \E i \in 1 .. 3 : ~IsNumber(args[i]) THEN ColorError
    ELSE ColorFromChannels(space, args, AlphaIn(alpha), TRUE)

(* The only argument of a constructor is a list: [sep, items], where sep   *)
(* is "space", "comma", "slash" or "bracketed".  A slash list holds the    *)
(* channels, a list, and alpha; in a list with spaces the last item may be *)
(* Slashed, a number or a string that holds a slash of its own.            *)
List(sep, items) == [sep |-> sep, items |-> items]
Slashed(form, parts) == [v |-> None, unit |-> form, parts |-> parts]
IsSlashed(item) == item.unit \in {"number/", "text/"}

Split(channels, alpha) == [channels |-> channels, alpha |-> alpha]
\* Mutant: a slash in a string leaves the channel before it out.
ParseSlashChannelsShort(input) ==
    LET n == Len(input.items)
        last == input.items[n]
    IN  CASE input.sep = "slash" -> IF n = 2 THEN Split(input.items[1], input.items[2]) ELSE ColorError
          [] input.sep # "slash" /\ (n = 0 \/ ~IsSlashed(last)) -> Split(input, NoArgument)
          [] OTHER -> Split(List("space", SubSeq(input.items, 1, n - 1)), last.parts[2])
ParseSlashChannels(input) ==
    LET n == Len(input.items)
        last == input.items[n]
    IN  CASE input.sep = "slash" -> IF n = 2 THEN Split(input.items[1], input.items[2]) ELSE ColorError
          [] input.sep # "slash" /\ (n = 0 \/ ~IsSlashed(last)) -> Split(input, NoArgument)
          [] input.sep # "slash" /\ n > 0 /\ IsSlashed(last) ->
                IF Len(last.parts) # 2 THEN PlainCss
                ELSE Split(List("space", Append(SubSeq(input.items, 1, n - 1), last.parts[1])), last.parts[2])

\* the channels of a color in a known space
ColorFromList(space, channels, alpha) ==
    LET n == Len(channels)
    IN  CASE \E i \in 1 .. n : ~IsNumber(channels[i]) /\ ~IsSpecialNumber(channels[i]) /\ channels[i] # NoneArgument ->
                ColorError
          [] ~ValidAlpha(alpha) /\ ~IsSpecialNumber(alpha) -> ColorError
          [] IsSpecialNumber(alpha) \/ \E i \in 1 .. n : IsSpecialNumber(channels[i]) -> PlainCss
          [] n # 3 -> ColorError
          [] OTHER -> ColorFromChannels(space, channels, AlphaIn(alpha), TRUE)
\* color() names its space first, which must be one that has no function
ParseNamed(channels, alpha) ==
    CASE IsSpecialVariable(Head(channels)) -> PlainCss
      [] Head(channels).unit = "srgb" -> ColorFromList("srgb", Tail(channels), alpha)
      [] OTHER -> ColorError
ParseChannels(space, input) ==
    LET split == ParseSlashChannels(input)
        channels == split.channels.items
    IN  IF input.sep \in {"comma", "bracketed"} \/ split = ColorError THEN ColorError
        ELSE IF split = PlainCss THEN PlainCss
        ELSE IF split.channels.sep # "space" \/ channels = <<>> THEN ColorError
        ELSE IF Head(channels).unit = "from" THEN PlainCss
        ELSE IF space = "null" THEN ParseNamed(channels, split.alpha)
        ELSE ColorFromList(space, channels, split.alpha)
\* rgba($color, $alpha)
RgbTwoArg(c, alpha) ==
    LET rgb == Known(ToSpace(c, "rgb", TRUE))
    IN  IF ~IsLegacy(c.space) THEN ColorError
        ELSE IF IsSpecialNumber(alpha) THEN PlainCss
        ELSE IF alpha = NoneArgument \/ ~ValidAlpha(alpha) THEN ColorError
        ELSE Raw("rgb", rgb.ch, AlphaIn(alpha))
-----------------------------------------------------------------------------
(* adjust, scale and change: one engine, the keywords a function from      *)
(* channel names to arguments                                              *)

ScaleChannel(channel, old, arg) ==
    IF arg = NoArgument THEN old
    ELSE LET factor == arg.v \oslash Whole(100)
         IN  IF \/ Zero \prec factor /\ channel.max \preceq old
                \/ factor \prec Zero /\ old \preceq channel.min
             THEN old
             ELSE IF Zero \prec factor THEN old \oplus ((channel.max \ominus old) \otimes factor)
             ELSE old \oplus ((old \ominus channel.min) \otimes factor)
CanScale(channel, old, arg) ==
    arg # NoArgument => /\ ~channel.polar /\ old # None /\ arg.unit = "%"
                        /\ Whole(-100) \preceq arg.v /\ arg.v \preceq Whole(100)

AdjustChannel(space, i, channel, old, arg) ==
    IF arg = NoArgument THEN old
    ELSE LET read == IF channel.name = "alpha" THEN Arg(arg.v, "") ELSE ReadsAs(space, i, arg)
             result == old \oplus ChannelFromValue(channel, read, FALSE)
         IN  \* a value already outside moves with the adjustment
             CASE "lower" \in channel.clamps /\ result \prec channel.min ->
                     IF old \prec channel.min THEN Greater(old, result) ELSE channel.min
               [] "upper" \in channel.clamps /\ channel.max \prec result ->
                     IF channel.max \prec old THEN Lesser(old, result) ELSE channel.max
               [] OTHER -> result
CanAdjust(space, i, channel, old, arg) ==
    arg # NoArgument =>
        /\ old # None
        /\ \/ channel.polar \/ channel.name = "alpha" \/ space = "hsl"
           \/ arg.unit \in (IF space = "hwb" THEN {"%"} ELSE {"%", ""})

\* the channel as it is, in the unit its constructor reads
KeptAsArgument(c, i) ==
    IF c.ch[i] = None THEN NoneArgument
    ELSE Arg(c.ch[i], IF IsPolar(c.space) /\ i > 1 THEN "%" ELSE "")
ChangedAlpha(c, arg) ==
    CASE arg = NoArgument -> Val(c.alpha)
      [] arg = NoneArgument -> None
      [] arg.unit = "%" -> arg.v \oslash Whole(100)
      [] OTHER -> arg.v
ChangeColor(c, args, alpha) ==
    LET a == ChangedAlpha(c, alpha)
    IN  IF a # None /\ (a \prec Zero \/ One \prec a) THEN ColorError
        ELSE ColorFromChannels(c.space, [i \in 1 .. 3 |-> IF args[i] = NoArgument THEN KeptAsArgument(c, i)
                                                          ELSE args[i]], a, FALSE)
ScaleColor(c, args, alpha) ==
    IF /\ CanScale(AlphaChannel, c.alpha, alpha)
       /\ \A i \in 1 .. 3 : CanScale(Channels(c.space)[i], c.ch[i], args[i])
    THEN ForSpace(c.space, [i \in 1 .. 3 |-> ScaleChannel(Channels(c.space)[i], c.ch[i], args[i])],
                  ScaleChannel(AlphaChannel, c.alpha, alpha))
    ELSE ColorError
AdjustColor(c, args, alpha) ==
    IF /\ CanAdjust(c.space, 0, AlphaChannel, c.alpha, alpha)
       /\ \A i \in 1 .. 3 : CanAdjust(c.space, i, Channels(c.space)[i], c.ch[i], args[i])
    THEN LET moved == AdjustChannel(c.space, 0, AlphaChannel, c.alpha, alpha)
         IN  ForSpace(c.space, [i \in 1 .. 3 |-> AdjustChannel(c.space, i, Channels(c.space)[i], c.ch[i], args[i])],
                      IF moved = None \/ alpha = NoArgument THEN moved ELSE Clamped(moved, Zero, One))
    ELSE ColorError

\* the space the keywords are channels of, when a legacy color gives none
SniffLegacyColorSpace(c, names) ==
    CASE names \cap {"red", "green", "blue"} # {} -> "rgb"
      [] names \cap {"saturation", "lightness"} # {} -> "hsl"
      [] names \cap {"whiteness", "blackness"} # {} -> "hwb"
      [] "hue" \in names -> "hsl"
      [] OTHER -> c.space
ToUpdate(original, names, space) ==
    CASE space # "null" -> ToSpace(original, space, TRUE)
      [] space = "null" /\ IsLegacy(original.space) /\ names # {} ->
            ToSpace(original, SniffLegacyColorSpace(original, names), FALSE)
      [] OTHER -> original
KeywordArguments(space, keywords) ==
    [i \in 1 .. 3 |-> LET name == Channels(space)[i].name
                      IN  IF name \in DOMAIN keywords THEN keywords[name] ELSE NoArgument]
Updated(how, c, args, alpha) ==
    CASE how = "change" -> ChangeColor(c, args, alpha)
      [] how = "scale" -> ScaleColor(c, args, alpha)
      [] how = "adjust" -> AdjustColor(c, args, alpha)
UpdatedIn(how, c, keywords, alpha) ==
    IF \E name \in DOMAIN keywords : ChannelIndex(c.space, name) = {} THEN ColorError
    ELSE Updated(how, c, KeywordArguments(c.space, keywords), alpha)
Returned(c, space) == IF c = ColorError THEN ColorError ELSE ToSpace(c, space, FALSE)
UpdateComponents(how, original, keywords, alpha, space) ==
    Returned(UpdatedIn(how, ToUpdate(original, DOMAIN keywords, space), keywords, alpha), original.space)
-----------------------------------------------------------------------------
(* The functions that replace one color by another                         *)

MixWeight(weight, distance) ==
    IF weight \otimes distance = Whole(-1) THEN weight
    ELSE (weight \oplus distance) \oslash (One \oplus (weight \otimes distance))
MixRgb(rgb1, rgb2, w, combined) ==
    LET w1 == (combined \oplus One) \oslash Whole(2)
    IN  Raw("rgb", [i \in 1 .. 3 |-> (rgb1.ch[i] \otimes w1) \oplus (rgb2.ch[i] \otimes (One \ominus w1))],
            Clamped((rgb1.alpha \otimes w) \oplus (rgb2.alpha \otimes (One \ominus w)), Zero, One))
MixLegacy(color1, color2, w) ==
    MixRgb(Known(ToSpace(color1, "rgb", TRUE)), Known(ToSpace(color2, "rgb", TRUE)), w,
           MixWeight((w \otimes Whole(2)) \ominus One, Val(color1.alpha) \ominus Val(color2.alpha)))
Mix(color1, color2, w, space, method) ==
    IF space # "null" THEN Interpolate(color1, color2, space, method, FALSE, w)
    ELSE IF IsLegacy(color1.space) /\ IsLegacy(color2.space) THEN MixLegacy(color1, color2, w)
    ELSE ColorError

InvertChannel(channel, x) == IF channel.polar THEN Remainder(x \oplus Whole(180), 360) ELSE channel.max \ominus x
InvertedChannels(space) == CASE space = "hwb" -> {1} [] space = "hsl" -> {1, 3} [] OTHER -> 1 .. 3
\* Mutant: whiteness and blackness keep their places.
InvertedUnswapped(c) ==
    ForSpace(c.space, [i \in 1 .. 3 |-> IF i \in InvertedChannels(c.space)
                                        THEN InvertChannel(Channels(c.space)[i], c.ch[i]) ELSE c.ch[i]], Val(c.alpha))
Inverted(c) ==
    LET flipped == [i \in 1 .. 3 |-> IF i \in InvertedChannels(c.space)
                                     THEN InvertChannel(Channels(c.space)[i], c.ch[i]) ELSE c.ch[i]]
    IN  IF c.space = "hwb" THEN ForSpace("hwb", <<flipped[1], flipped[3], flipped[2]>>, c.alpha)
        ELSE ForSpace(c.space, flipped, Val(c.alpha))
InvertIn(c, inSpace, w, space) ==
    LET fails == \E i \in InvertedChannels(inSpace.space) : inSpace.ch[i] = None
        inverted == Inverted(inSpace)
        method == IF IsPolar(space) THEN "shorter" ELSE "none"
    IN  CASE space = "null" /\ (~IsLegacy(c.space) \/ fails) -> ColorError
          [] space = "null" /\ IsLegacy(c.space) /\ ~fails ->
                ToSpace(MixLegacy([inverted EXCEPT !.alpha = c.alpha], c, w), c.space, TRUE)
          [] space # "null" /\ w = Zero -> c
          [] space # "null" /\ w # Zero /\ fails -> ColorError
          [] space # "null" /\ w = One /\ ~fails -> ToSpace(inverted, c.space, FALSE)
          [] OTHER -> Interpolate(c, inverted, space, method, FALSE, One \ominus w)
Invert(c, w, space) == InvertIn(c, ToSpace(c, IF space = "null" THEN "rgb" ELSE space, TRUE), w, space)

Complement(c, space) ==
    LET in == IF space = "null" /\ IsLegacy(c.space) THEN "hsl" ELSE space
        inSpace == ToSpace(c, in, space # "null")
    IN  IF ~IsPolar(in) \/ inSpace.ch[1] = None THEN ColorError
        ELSE ToSpace(ForSpace(in, <<inSpace.ch[1] \oplus Whole(180), inSpace.ch[2], inSpace.ch[3]>>, inSpace.alpha),
                     c.space, FALSE)
Grayscale(c) ==
    LET hsl == ToSpace(c, "hsl", TRUE)
    IN  ToSpace(ForSpace("hsl", <<hsl.ch[1], Zero, hsl.ch[3]>>, Val(hsl.alpha)), c.space, FALSE)

\* the deprecated functions of legacy colors change one channel by an amount
Moved(c, name, amount) ==
    LET v == Clamped(LegacyChannel(c, "hsl", name) \oplus amount, Zero, Whole(100))
    IN  ChangeHsl(c, [i \in 1 .. 3 |-> IF Channels("hsl")[i].name = name THEN v ELSE None])
Allows(c, amount, max) == IsLegacy(c.space) /\ Zero \preceq amount /\ amount \preceq max
Lighten(c, amount) == IF Allows(c, amount, Whole(100)) THEN Moved(c, "lightness", amount) ELSE ColorError
Darken(c, amount) ==
    IF Allows(c, amount, Whole(100)) THEN Moved(c, "lightness", Zero \ominus amount) ELSE ColorError
Saturate(c, amount) == IF Allows(c, amount, Whole(100)) THEN Moved(c, "saturation", amount) ELSE ColorError
Desaturate(c, amount) ==
    IF Allows(c, amount, Whole(100)) THEN Moved(c, "saturation", Zero \ominus amount) ELSE ColorError
AdjustHue(c, degrees) ==
    IF IsLegacy(c.space) THEN ChangeHsl(c, <<LegacyChannel(c, "hsl", "hue") \oplus degrees, None, None>>)
    ELSE ColorError
Opacify(c, amount) ==
    IF Allows(c, amount, One) THEN ChangeAlpha(c, Clamped(Val(c.alpha) \oplus amount, Zero, One)) ELSE ColorError
Transparentize(c, amount) ==
    IF Allows(c, amount, One) THEN ChangeAlpha(c, Clamped(Val(c.alpha) \ominus amount, Zero, One)) ELSE ColorError
\* the percentage their deprecation says to color.scale by, for a change by amount
SuggestedScale(old, max, amount) ==
    (CASE max \prec (old \oplus amount) -> One
       [] (old \oplus amount) \prec Zero -> Whole(-1)
       [] Zero \prec amount /\ (old \oplus amount) \preceq max -> amount \oslash (max \ominus old)
       [] OTHER -> amount \oslash old) \otimes Whole(100)
-----------------------------------------------------------------------------
(* Questions                                                               *)

\* color.channel, in the unit of the channel
ChannelOf(c, name, space) ==
    LET in == IF space = "null" THEN c ELSE ToSpace(c, space, TRUE)
    IN  IF name = "alpha" THEN Val(in.alpha)
        ELSE LET i == CHOOSE j \in ChannelIndex(in.space, name) : TRUE IN Val(in.ch[i])
IsMissing(c, name) == IF name = "alpha" THEN c.alpha = None
                      ELSE \A i \in ChannelIndex(c.space, name) : c.ch[i] = None
\* missing channels are zero; xyz, in which the code compares, is srgb through a matrix
Alike(c, other) ==
    IF c.space = other.space THEN Known(c) = Known(other)
    ELSE ToSpace(Known(c), "srgb", TRUE) = ToSpace(Known(other), "srgb", TRUE)
ToSpaceFunction(c, space) == ToSpace(c, space, FALSE)
ToGamut(c, space) == ToSpace(ToGamutClip(ToSpace(c, space, TRUE)), c.space, FALSE)
=============================================================================

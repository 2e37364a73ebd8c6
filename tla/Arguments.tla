------------------------------ MODULE Arguments ------------------------------
(***************************************************************************)
(* args/src: a command line parsed into a command, options, parameters and *)
(* the rest (parse.ts, Checker.ts, Scope.ts, utils), and formatted again   *)
(* (format.ts).                                                            *)
(*                                                                         *)
(* An argument is what the patterns of constants.ts take it for: a long or *)
(* short option, a group of short options, something else that begins like *)
(* an option, the "--" before the rest, or a word.  Names are those after  *)
(* camelCase(), at least two letters long.  An inline value is the         *)
(* sequence of its parts between equals signs.  A value is a text, which   *)
(* the patterns see again when it is formatted.                            *)
(***************************************************************************)
EXTENDS Integers, Sequences, FiniteSets, SequencesExt

CONSTANTS
  Options,       \* name -> [type, multiple, arity, default, short, count, choices, format]
  Params,        \* a sequence of [type, required, default, format]
  Commands,      \* the words that are commands
  Numerals,      \* the words that Number() reads, and what they mean
  OptionLike     \* the values that are no words to the patterns, and what they are to them

Long(name, negated, inline) == [k |-> "long", name |-> name, negated |-> negated, inline |-> inline]
Short(c, inline) == [k |-> "short", name |-> c, negated |-> FALSE, inline |-> inline]
Group(cs, inline) == [k |-> "group", cs |-> cs, inline |-> inline]
Word(w) == [k |-> "word", word |-> w]
Dashes == [k |-> "dashes"]

\* Values; arrays are lists of values.
Str(w) == [s |-> w]
Num(n) == [n |-> n]
Bool(b) == [b |-> b]
List(seq) == [l |-> seq]
None == [undefined |-> TRUE]
IsList(v) == "l" \in DOMAIN v

\* A text as an argument of its own.
Argument(text) == IF text \in DOMAIN OptionLike THEN OptionLike[text] ELSE Word(text)

WordOf(v) ==
  CASE "s" \in DOMAIN v -> v.s
    [] "n" \in DOMAIN v -> CHOOSE w \in DOMAIN Numerals : Numerals[w] = v.n
    [] OTHER -> "undefined"

-----------------------------------------------------------------------------
(* castValue(), formatValue(), getDefaultValue()                           *)

CastOne(v, type) ==
  CASE type = "boolean" -> Bool(v \in {Bool(TRUE), Str("true"), Str("on"), Str("yes"), Str("1")})
    [] type = "number"  -> IF "n" \in DOMAIN v THEN v
                           ELSE Num(IF WordOf(v) \in DOMAIN Numerals THEN Numerals[WordOf(v)] ELSE 0)
    [] type = "string"  -> Str(WordOf(v))

Cast(v, type) == IF IsList(v) THEN List([i \in DOMAIN v.l |-> CastOne(v.l[i], type)]) ELSE CastOne(v, type)

\* A format of another type than its value throws.
FormatThrows(config) == config.format = "other type" /\ config.type # "boolean"

DefaultValue(config) ==
  CASE config.default # None -> config.default
    [] config.default = None /\ config.multiple -> List(<<>>)
    [] config.default = None /\ ~config.multiple ->
         CASE config.type = "boolean" -> Bool(FALSE)
           [] config.type = "number"  -> Num(0)
           [] config.type = "string"  -> Str("")

-----------------------------------------------------------------------------
(* The state of parse(), and commitScope().                                *)

\* Options whose value is still the default array of their configuration.
Start ==
  [options |-> [o \in DOMAIN Options |-> DefaultValue(Options[o])],
   untouched |-> {o \in DOMAIN Options : Options[o].default # None},
   params |-> <<>>, rest |-> <<>>, unknown |-> <<>>, command |-> <<>>, errors |-> <<>>,
   scope |-> <<>>, ended |-> FALSE, thrown |-> FALSE]

Unknown == [type |-> "string", multiple |-> FALSE, arity |-> 0, default |-> None, short |-> "none",
            count |-> FALSE, choices |-> {}, format |-> "none"]
ConfigOf(name) == IF name \in DOMAIN Options THEN Options[name] ELSE Unknown

Put(map, name, v) == [o \in DOMAIN map \cup {name} |-> IF o = name THEN v ELSE map[o]]
SetOption(st, name, v) == [st EXCEPT !.options = Put(st.options, name, v), !.untouched = @ \ {name}]
Log(st, code, at) == [st EXCEPT !.errors = Append(@, [code |-> code, at |-> at])]

\* The scope stays open when its value does not survive the format.
CommitScope(po, st) ==
  IF st.scope = <<>> THEN st
  ELSE LET sc == st.scope[1]
           config == ConfigOf(sc.name)
           final == Cast(sc.value, config.type)
           closed == [st EXCEPT !.scope = <<>>]
       IN  CASE FormatThrows(config) -> [st EXCEPT !.thrown = TRUE]
             [] ~FormatThrows(config) /\ po.loose ->
                  SetOption(closed, sc.name, IF sc.value = None THEN Bool(~sc.negated) ELSE final)
             [] ~FormatThrows(config) /\ ~po.loose /\ sc.name \notin DOMAIN Options ->
                  IF po.unknown
                  THEN [closed EXCEPT !.unknown = Put(@, sc.name, IF sc.value = None THEN Str("") ELSE final)]
                  ELSE closed
             [] ~FormatThrows(config) /\ ~po.loose /\ sc.name \in DOMAIN Options ->
                  IF sc.value = None THEN closed ELSE SetOption(closed, sc.name, final)

\* Scope.captureValue(): an array that is not the default one is the option's own, so that
\* the option has the value before the scope is committed.
Capture(po, st, v) ==
  LET sc == st.scope[1]
      config == ConfigOf(sc.name)
      value == IF config.multiple THEN List(Append(sc.value.l, v)) ELSE v
      shared == config.multiple /\ sc.shared
      next == [st EXCEPT !.scope[1].value = value,
                         !.options = IF shared THEN Put(@, sc.name, value) ELSE @]
      full == ~config.multiple \/ (config.arity > 0 /\ Len(value.l) >= config.arity)
  IN  IF full THEN CommitScope(po, next) ELSE next

\* createScope()
NewScope(st, name, negated) ==
  LET config == ConfigOf(name)
      fresh == name \in st.untouched
  IN  [name |-> name, negated |-> negated, shared |-> config.multiple /\ ~fresh,
       value |-> CASE ~config.multiple -> None
                   [] config.multiple /\ fresh -> List(<<>>)
                   [] config.multiple /\ ~fresh -> st.options[name]]

-----------------------------------------------------------------------------
(* One argument.                                                           *)

ShortNames(c) == {o \in DOMAIN Options : Options[o].short = c}

\* expandShortOption()
Expand(c) == IF ShortNames(c) = {} THEN c ELSE CHOOSE o \in ShortNames(c) : TRUE
Expands(po, c) == ShortNames(c) # {} \/ po.loose

\* processShortOptionGroup(): what was set before a letter that throws stays set.
GroupLetter(po, at, st, c) ==
  LET name == Expand(c)
      config == ConfigOf(name)
  IN  CASE st.thrown -> st
        [] ~st.thrown /\ po.loose /\ name \notin DOMAIN Options -> SetOption(st, name, Bool(TRUE))
        [] ~st.thrown /\ ~(po.loose /\ name \notin DOMAIN Options) ->
             IF ~Expands(po, c) \/ config.type = "string" \/ (config.type = "number" /\ ~config.count)
             THEN [Log(st, "group", at) EXCEPT !.thrown = TRUE]
             ELSE IF config.type = "boolean" THEN SetOption(st, name, Bool(TRUE))
             ELSE SetOption(st, name, Num(st.options[name].n + 1))

NoInline(st, arg, at) == IF arg.inline = <<>> THEN st ELSE Log(st, "inline", at)

Option(po, st, arg, at) ==
  LET name == IF arg.k = "short" THEN Expand(arg.name) ELSE arg.name
      known == name \in DOMAIN Options
      scoped == [st EXCEPT !.scope = <<NewScope(st, name, arg.negated)>>]
  IN  CASE arg.k = "group" ->
             FoldLeft(LAMBDA acc, c : GroupLetter(po, at, acc, c), NoInline(st, arg, at), arg.cs)
        [] arg.k # "group" /\ arg.k = "short" /\ ~Expands(po, arg.name) ->
             [Log(st, "short unknown", at) EXCEPT !.thrown = TRUE]
        [] arg.k # "group" /\ ~(arg.k = "short" /\ ~Expands(po, arg.name)) ->
             IF ~known /\ ~po.unknown /\ ~po.loose THEN Log(st, "unknown", at)
             ELSE IF ConfigOf(name).type = "boolean"
             THEN NoInline(SetOption(st, name, Bool(~arg.negated)), arg, at)
             ELSE IF arg.inline = <<>> THEN scoped ELSE Capture(po, scoped, Str(arg.inline[1]))

Command(st, w, at) ==
  LET checked == IF st.command # <<>> THEN Log(st, "command provided", at)
                 ELSE IF st.params # <<>> THEN Log(st, "command not first", at) ELSE st
  IN  IF st.command = <<>> THEN [checked EXCEPT !.command = <<w>>] ELSE checked

Param(po, st, w, at) ==
  LET i == Len(st.params) + 1
  IN  IF i \in DOMAIN Params
      THEN IF FormatThrows(Params[i]) THEN Log(st, "format", at)
           ELSE [st EXCEPT !.params = Append(@, Cast(Str(w), Params[i].type))]
      ELSE IF po.variadic THEN [st EXCEPT !.params = Append(@, Str(w))] ELSE Log(st, "param unknown", at)

\* The catch of the loop: what was thrown is logged with the argument at hand.
Caught(st, at) ==
  IF ~st.thrown THEN st
  ELSE [(IF st.scope = <<>> THEN st ELSE Log(st, "format", at)) EXCEPT !.scope = <<>>, !.thrown = FALSE]

ParseArg(po, argv, st, at) ==
  LET arg == argv[at]
      committed == CommitScope(po, st)
  IN  CASE st.ended -> st
        [] ~st.ended /\ arg.k = "dashes" ->
             [st EXCEPT !.rest = SubSeq(argv, at + 1, Len(argv)), !.ended = TRUE]
        [] ~st.ended /\ arg.k \in {"long", "short", "group"} ->
             Caught(IF committed.thrown THEN committed ELSE Option(po, committed, arg, at), at)
        [] ~st.ended /\ arg.k = "word" ->
             IF st.scope # <<>> THEN Caught(Capture(po, st, Str(arg.word)), at)
             ELSE IF arg.word \in Commands THEN Command(st, arg.word, at)
             ELSE Param(po, st, arg.word, at)

\* The parameters that are missing, up to the first that is required.
FillParams(params) ==
  LET missing == {i \in DOMAIN Params : i > Len(params)}
      stops == {i \in missing : Params[i].required}
      upTo == IF stops = {} THEN Len(Params) ELSE (CHOOSE i \in stops : \A j \in stops : i <= j) - 1
  IN  params \o [i \in 1 .. (IF upTo > Len(params) THEN upTo - Len(params) ELSE 0) |->
                   DefaultValue(Params[Len(params) + i])]

\* The checks at the end: arity, choices and required parameters.
Truthy(v) == v \notin {None, Str(""), Num(0), Bool(FALSE)}
Invalid(st, params) ==
  {<<"arity", o>> : o \in {o \in DOMAIN Options :
      /\ Options[o].arity > 0 /\ IsList(st.options[o])
      /\ Len(st.options[o].l) \notin {0, Options[o].arity}}}
  \cup {<<"choice", o>> : o \in {o \in DOMAIN Options :
      Options[o].choices # {} /\ Truthy(st.options[o]) /\ st.options[o] \notin Options[o].choices}}
  \cup {<<"required", i>> : i \in {i \in DOMAIN Params : Params[i].required /\ i > Len(params)}}

\* parse().  The last commitScope() is outside of the try.
Parse(po, argv) ==
  LET read == FoldLeft(LAMBDA st, at : ParseArg(po, argv, st, at), Start, [i \in DOMAIN argv |-> i])
      end == CommitScope(po, read)
      params == FillParams(end.params)
  IN  IF end.thrown THEN [thrown |-> TRUE]
      ELSE [command |-> end.command, options |-> end.options, params |-> params, rest |-> end.rest,
            unknown |-> end.unknown, errors |-> end.errors, invalid |-> Invalid(end, params)]

-----------------------------------------------------------------------------
(* format(): the options in the order of their names.                      *)


FormatOption(name, v) ==
  CASE "b" \in DOMAIN v -> <<Long(name, ~v.b, <<>>)>>
    [] IsList(v) -> <<Long(name, FALSE, <<>>)>> \o [i \in DOMAIN v.l |-> Argument(WordOf(v.l[i]))]
    [] OTHER -> <<Long(name, FALSE, <<>>), Argument(WordOf(v))>>

FormatArgs(order, parsed) ==
  [i \in DOMAIN parsed.command |-> Word(parsed.command[i])]
    \o FlattenSeq([i \in DOMAIN order |-> FormatOption(order[i], parsed.options[order[i]])])
    \o [i \in DOMAIN parsed.params |-> Argument(WordOf(parsed.params[i]))]
    \o (IF parsed.rest = <<>> THEN <<>> ELSE <<Dashes>> \o parsed.rest)

=============================================================================

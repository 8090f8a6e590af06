----------------------------- MODULE CommandLine -----------------------------
(***************************************************************************)
(* The texts by which a program hands arguments to another: how            *)
(* ansi/stdlib/system.c and dos/process/dosexec.c write them, and how      *)
(* crt0/c1args.c reads them.                                               *)
(*                                                                         *)
(* A text is a sequence of characters, each the name of its class: blanks, *)
(* the two quotes, the backslash, the characters of redirection, wildcards *)
(* ("star"), percent, the "at" of a response file, and plain letters.      *)
(***************************************************************************)
EXTENDS Naturals, Sequences, SequencesExt

CONSTANT Multiple   \* __system_allow_multiple_cmds is set

Quotes == {"dq", "sq"}
Redirection == {"lt", "gt", "bar"}
End == "end"        \* the NUL after a text

CharAt(s, i) == IF i <= Len(s) THEN s[i] ELSE End
Skip(s, i) == IF i > Len(s) THEN i
              ELSE CHOOSE j \in i..(Len(s) + 1) :
                     CharAt(s, j) # "sp" /\ \A k \in i..(j - 1) : s[k] = "sp"
From(s, i) == SubSeq(s, i, Len(s))
UpTo(s, n) == SubSeq(s, 1, IF n < Len(s) THEN n ELSE Len(s))

\* Some character of cs is in s.
HasAny(s, cs) == \E i \in DOMAIN s : s[i] \in cs

-----------------------------------------------------------------------------
(* The reader of the child, crt0/c1args.c.                                 *)

\* Faulty variant: inside quotes a backslash no longer protects a quote.
parse_char_plain(s, c) ==
  LET ch == s[c.i] IN
  IF c.quote = ch THEN [c EXCEPT !.i = @ + 1, !.quote = "no"]
  ELSE IF c.quote = "no" /\ ch \in Quotes THEN [c EXCEPT !.i = @ + 1, !.quote = ch]
  ELSE IF c.quote = "no" /\ ch = "bs" /\ CharAt(s, c.i + 1) \in Quotes
    THEN [c EXCEPT !.i = @ + 2, !.arg = Append(@, s[c.i + 1])]
  ELSE [c EXCEPT !.i = @ + 1, !.arg = Append(@, ch),
                 !.was_quoted = @ \/ (c.quote # "no" /\ ch = "star")]

\* One turn of the loop of parse_arg; c.quote is the quote that is open.
parse_char(s, c) ==
  LET ch == s[c.i] IN
  IF c.quote = ch THEN [c EXCEPT !.i = @ + 1, !.quote = "no"]
  ELSE IF c.quote = "no" /\ ch \in Quotes THEN [c EXCEPT !.i = @ + 1, !.quote = ch]
  ELSE IF ch = "bs" /\ CharAt(s, c.i + 1) \in Quotes
    THEN [c EXCEPT !.i = @ + 2, !.arg = Append(@, s[c.i + 1])]
  ELSE [c EXCEPT !.i = @ + 1, !.arg = Append(@, ch),
                 !.was_quoted = @ \/ (c.quote # "no" /\ ch = "star")]

ParserStates == [i : Nat, quote : Quotes \cup {"no"}, arg : Seq(STRING), was_quoted : BOOLEAN]
parse_rest(s, c) ==
  LET rest[x \in ParserStates] ==
        IF x.i > Len(s) \/ (x.quote = "no" /\ s[x.i] = "sp") THEN x ELSE rest[parse_char(s, x)]
  IN  rest[c]
parse_arg(s, i) ==
  parse_rest(s, [i |-> i, quote |-> "no", arg |-> <<>>, was_quoted |-> FALSE])

Parsed(c) == [arg |-> c.arg, was_quoted |-> c.was_quoted]
parse_from(s, i) ==
  LET from[j \in Nat] ==
        LET b == Skip(s, j)
            c == parse_arg(s, b)
        IN  IF b > Len(s) THEN <<>>
            ELSE <<Parsed(c)>> \o from[c.i + 1]
  IN  from[i]
parse_bytes(s) == parse_from(s, 1)

-----------------------------------------------------------------------------
(* The reader of system().                                                 *)

Token(kind, beg, end) == [kind |-> kind, beg |-> beg, end |-> end]

\* Where the quote opened before i closes; past the end when it does not.
Closing(s, i, q) ==
  LET closing[j \in Nat] ==
        IF CharAt(s, j) \in {q, End} THEN j
        ELSE IF s[j] = "bs" /\ CharAt(s, j + 1) \in Quotes THEN closing[j + 2]
        ELSE closing[j + 1]
  IN  closing[i]

\* The word that begins at b.
get_word(s, b) ==
  LET word[i \in Nat] ==
        LET ch == CharAt(s, i) IN
        IF ch \in Redirection \cup {"sp", End} \/ (Multiple /\ ch = "semi")
          THEN Token("WORD", b, i)
        ELSE IF ch = "bs" /\ (CharAt(s, i + 1) \in Quotes
                              \/ (Multiple /\ CharAt(s, i + 1) = "semi"))
          THEN word[i + 2]
        ELSE IF ch \in Quotes
          THEN LET e == Closing(s, i + 1, ch) IN
               IF e > Len(s) THEN Token("UNMATCHED_QUOTE", b, e) ELSE word[e + 1]
        ELSE word[i + 1]
  IN  word[b]

\* beg is the first character of the symbol, end the one after its last.
get_sym(s, i) ==
  LET b == Skip(s, i) IN
  CASE CharAt(s, b) = "lt" -> Token("REDIR_INPUT", b, b + 1)
    [] CharAt(s, b) = "gt" -> IF CharAt(s, b + 1) = "gt" THEN Token("REDIR_APPEND", b, b + 2)
                              ELSE Token("REDIR_OUTPUT", b, b + 1)
    [] CharAt(s, b) = "bar" -> Token("PIPE", b, b + 1)
    [] CharAt(s, b) = "semi" /\ Multiple -> Token("SEMICOLON", b, b + 1)
    [] CharAt(s, b) = End -> Token("EOL", b, b)
    [] OTHER -> get_word(s, b)
Lexeme(s, t) == SubSeq(s, t.beg, t.end - 1)

\* Quotes go, and with them the other quote between two quotes.
unquote(s) ==
  LET from[i \in Nat] ==
        IF i > Len(s) THEN <<>>
        ELSE IF s[i] \in Quotes THEN from[i + 1]
        ELSE IF s[i] = "bs" /\ (CharAt(s, i + 1) \in Quotes
                                \/ (Multiple /\ CharAt(s, i + 1) = "semi"))
          THEN <<s[i + 1]>> \o from[i + 2]
        ELSE <<s[i]>> \o from[i + 1]
  IN  from[1]

-----------------------------------------------------------------------------
(* The writers of dosexec.c.                                               *)

Join(args, F(_)) == FlattenSeq([i \in DOMAIN args |-> <<"sp">> \o F(args[i])])
Bare(a) == a

\* direct_exec and direct_pe_exec: quote what has blanks, protect double quotes;
\* under system() undo the protection of single quotes instead.
Protect(a) == FlattenSeq([i \in DOMAIN a |-> IF a[i] = "dq" THEN <<"bs", "dq">> ELSE <<a[i]>>])
Unescape(a) == FlattenSeq([i \in DOMAIN a |->
                 IF a[i] = "bs" /\ CharAt(a, i + 1) = "sq" THEN <<>> ELSE <<a[i]>>])
QuoteBlanks(a) ==
  IF HasAny(a, {"sp"}) THEN <<"dq">> \o Protect(a) \o <<"dq">> ELSE Protect(a)
DirectTail(args, in_system) ==
  IF in_system THEN Join(args, Unescape) ELSE Join(args, QuoteBlanks)

\* Faulty variant: no quotes are added around redirection.
CommandQuote_once(a) ==
  FlattenSeq([i \in DOMAIN a |->
                CASE a[i] = "dq"  -> <<"bs", "dq">>
                  [] a[i] = "pct" -> <<"pct", "pct">>
                  [] OTHER        -> <<a[i]>>])

\* __dosexec_command_exec: COMMAND.COM knows no protected quote, so where a
\* character of redirection is outside quotes for it, more quotes are added.
CommandQuote(a) ==
  LET Outside(i) == Len(SelectSeq(SubSeq(a, 1, i), LAMBDA ch : ch = "dq")) % 2 = 1
  IN  FlattenSeq([i \in DOMAIN a |->
                    CASE a[i] = "dq"                          -> <<"bs", "dq">>
                      [] a[i] \in Redirection /\ Outside(i)   -> <<"dq", a[i], "dq">>
                      [] a[i] = "pct"                         -> <<"pct", "pct">>
                      [] OTHER                                -> <<a[i]>>])
CommandArg(a) ==
  IF HasAny(a, {"sp", "pct"} \cup Redirection \cup Quotes)
    THEN <<"dq">> \o CommandQuote(a) \o <<"dq">> ELSE a
CommandTail(args, in_system) ==
  IF in_system THEN Join(args, Bare) ELSE Join(args, CommandArg)

-----------------------------------------------------------------------------
(* What a text means, without a reader's loop.                             *)

\* A quote is protected by the backslash before it, inside quotes and outside.
Protected(s, i) == i > 1 /\ s[i] \in Quotes /\ s[i - 1] = "bs"
\* The quote that is open before each position.
OpenQuote(s) ==
  LET q[i \in 1..(Len(s) + 1)] ==
        IF i = 1 THEN "no"
        ELSE IF s[i - 1] \notin Quotes \/ Protected(s, i - 1) THEN q[i - 1]
        ELSE IF q[i - 1] = "no" THEN s[i - 1]
        ELSE IF q[i - 1] = s[i - 1] THEN "no" ELSE q[i - 1]
  IN  q
\* Delimiting quotes and protecting backslashes are not part of the argument.
Meaning(s) ==
  LET q == OpenQuote(s)
      Delimiter(i) == s[i] \in Quotes /\ ~Protected(s, i) /\ q[i] \in {"no", s[i]}
      Kept(i) == ~Delimiter(i) /\ ~(s[i] = "bs" /\ CharAt(s, i + 1) \in Quotes)
  IN  FlattenSeq([i \in DOMAIN s |-> IF Kept(i) THEN <<s[i]>> ELSE <<>>])
\* A wildcard between quotes keeps the argument from being expanded.
QuotedWildcard(s) == \E i \in DOMAIN s : s[i] = "star" /\ OpenQuote(s)[i] # "no"

\* COMMAND.COM takes a character of redirection for itself outside double quotes.
Redirects(text) ==
  \E i \in DOMAIN text :
    /\ text[i] \in Redirection
    /\ Len(SelectSeq(SubSeq(text, 1, i), LAMBDA ch : ch = "dq")) % 2 = 0

\* A program that is not DJGPP's: blanks separate, double quotes keep together,
\* a protected double quote is itself.
ForeignParse(s) ==
  LET from[i \in Nat, cur \in Seq(STRING), in \in BOOLEAN] ==
        LET ch == CharAt(s, i)
            word == IF cur = <<>> THEN <<>> ELSE <<cur>>
        IN  CASE ch = End -> word
              [] ch = "sp" /\ ~in -> word \o from[i + 1, <<>>, FALSE]
              [] ch = "dq" -> from[i + 1, cur, ~in]
              [] ch = "bs" /\ CharAt(s, i + 1) = "dq" -> from[i + 2, Append(cur, "dq"), in]
              [] OTHER -> from[i + 1, Append(cur, ch), in]
  IN  from[1, <<>>, FALSE]

=============================================================================

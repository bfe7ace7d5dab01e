---------------------------- MODULE CommandMenu ----------------------------
(***************************************************************************)
(* Slash commands: which entries the menu lists for what has been typed,   *)
(* which one a submitted text names, and the part of the list on screen.   *)
(***************************************************************************)
EXTENDS PromptText

CONSTANT Registry   \* commands in the order shown: id, name, subs (each id, name)

Slash == "/"

\* A registry of literals.
ASSUME RegistryAssumption ==
    Registry \in Seq([id: STRING, name: Text, subs: Seq([id: STRING, name: Text])])

\* An entry is a command, or one of its subcommands.
NoSub == [id |-> "", name |-> <<>>]
CommandEntry(command) == [command |-> command, sub |-> NoSub]
SubEntries(command) ==
    [k \in DOMAIN command.subs |-> [command |-> command, sub |-> command.subs[k]]]

EntryFullName(entry) ==
    IF entry.sub = NoSub
    THEN entry.command.name
    ELSE entry.command.name \o <<Space>> \o entry.sub.name

\* Typed text without its blanks around and its slash.
NormalizeCommandQuery(text) ==
    LET trimmed == Trim(text)
    IN  IF trimmed # <<>> /\ Head(trimmed) = Slash THEN Tail(trimmed) ELSE trimmed

CommandMatchKey(command) == Tail(command.name)

\* Every run of blanks as one space.
Collapse(text) ==
    LET kept == Positions(Len(text), {i \in DOMAIN text :
                    text[i] \notin Blank \/ i = 1 \/ text[i - 1] \notin Blank})
    IN  [k \in DOMAIN kept |-> IF text[kept[k]] \in Blank THEN Space ELSE text[kept[k]]]

\* The entries of the command that the first word names, if it has subcommands.
FilterSubcommands(query) ==
    LET text    == Collapse(query)
        words   == {i \in DOMAIN text : text[i] = Space}
        parent  == IF words = {} THEN text ELSE SubSeq(text, 1, Min(words) - 1)
        named   == Only(Registry, {c \in ToSet(Registry) : CommandMatchKey(c) = parent /\ c.subs # <<>>})
        prefix  == SubSeq(text, Min(words) + 1, Len(text))
    IN  CASE named = <<>> -> <<>>
          [] named # <<>> /\ words = {} ->
               <<CommandEntry(named[1])>> \o SubEntries(named[1])
          [] OTHER ->
               Only(SubEntries(named[1]), {e \in ToSet(SubEntries(named[1])) : IsPrefix(prefix, e.sub.name)})

HasSubcommandFilter(query) ==
    LET text == Collapse(query)
    IN  \E k \in DOMAIN Registry :
          /\ Registry[k].subs # <<>>
          /\ \/ text = CommandMatchKey(Registry[k])
             \/ IsPrefix(Append(CommandMatchKey(Registry[k]), Space), text)

FilterCommands(text) ==
    LET query == NormalizeCommandQuery(text)
        all   == [k \in DOMAIN Registry |-> CommandEntry(Registry[k])]
    IN  IF HasSubcommandFilter(query)
        THEN FilterSubcommands(query)
        ELSE Only(all, {e \in ToSet(all) : IsPrefix(query, CommandMatchKey(e.command))})

\* The entry that `text` names in full, as a sequence of at most one.
ExactCommandMatch(text) ==
    LET query == Collapse(NormalizeCommandQuery(text))
        all   == FlattenSeq([k \in DOMAIN Registry |->
                               <<CommandEntry(Registry[k])>> \o SubEntries(Registry[k])])
    IN  Only(all, {e \in ToSet(all) : Tail(EntryFullName(e)) = query})

\* What the notice about an unknown command quotes: the first word.
UnknownCommandToken(text) ==
    LET trimmed == Trim(text)
        blanks  == {i \in DOMAIN trimmed : trimmed[i] \in Blank}
    IN  SubSeq(trimmed, 1, Min({Len(trimmed) + 1} \cup blanks) - 1)

\* The highlighted entry, as a sequence of at most one.
HighlightedEntry(matches, highlight) ==
    IF matches = <<>> THEN <<>> ELSE <<matches[Clamp(highlight, 0, Len(matches) - 1) + 1]>>

MoveHighlight(matches, highlight, step) ==
    IF matches = <<>>
    THEN highlight
    ELSE Clamp(Clamp(highlight, 0, Len(matches) - 1) + step, 0, Len(matches) - 1)

\* The first entry painted, counted from 0, below the rule that tops the menu.
MenuStart(matches, highlight, rows) ==
    LET seen == AtLeast(0, rows - 1)
    IN  AtMost(AtLeast(0, Clamp(highlight, 0, Len(matches) - 1) - seen + 1),
               AtLeast(0, Len(matches) - seen))

=============================================================================

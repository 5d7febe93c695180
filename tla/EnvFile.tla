-------------------------------- MODULE EnvFile --------------------------------
(***************************************************************************)
(* A .env file, the vault, and a process environment, and what moves       *)
(* between them: `soma import`, `soma export -o`, `soma run` and the SDK's *)
(* inject.                                                                 *)
(*                                                                         *)
(* A file has names and the vault has paths; lowercasing takes a name to a *)
(* path and env_var_name takes a path to a name, and neither is injective. *)
(* An import puts one line after the other, in a request of its own, and   *)
(* may be killed, refused or cut off anywhere; other writers, and the      *)
(* user's editor, go on meanwhile.  The vault's answer to an export is one *)
(* step here: see Export.                                                  *)
(***************************************************************************)
EXTENDS Naturals, Sequences, FiniteSets

CONSTANTS
  MaxLines,     \* bound: lines of the file at the start
  MaxCommands,  \* bound: commands
  MaxFaults,    \* bound: refused puts and lost answers
  MaxOther,     \* bound: writes of others and edits of the file
  None          \* no file, no name, no pair, no value, no variable

ASSUME FileBounds ==
  MaxLines \in Nat /\ MaxCommands \in Nat /\ MaxFaults \in Nat /\ MaxOther \in Nat

\* Two names that differ in case, and one that two paths are shown as.
Names == {"A", "a", "A_B"}
Paths == {"a", "a_b", "a/b"}
Shown == {"A", "A_B"}

\* env_var_to_path: lowercase.
PathOf(name) == IF name = "A_B" THEN "a_b" ELSE "a"

\* env_var_name: uppercase, and _ for what is no letter or digit.
NameOf(path) == IF path = "a" THEN "A" ELSE "A_B"

\* Values: two ordinary ones, one that holds a double quote or a newline, and what is read
\* back of that one after it was written to a file.
Plain  == {"x", "y"}
Values == Plain \cup {"odd", "spoilt"}
\* The text of a line: the value, or a quotation mark on its own.
Texts == Values \cup {"lone"}
\* Lines without a name are those that the parser warns of and skips.
Line == [name: Names \cup {None}, text: Texts]

VARIABLES
  file,      \* the lines of the file, or None
  ignore,    \* .gitignore: "absent", "open" (its last line has no newline), "closed", and
             \* with the file's name on a line of its own ("listed") or glued to another
  vault,     \* the current value of each path
  stored,    \* history: what was ever stored
  shell,     \* the environment that commands are started in
  cmd,       \* the command under way
  last,      \* history: what the last import stored, if all of it and nobody wrote since
  commands, faults, others

fileVars == <<file, ignore, vault, stored, shell, cmd, last, commands, faults, others>>

Pair == [name: Names, value: Values]
ASSUME FileNone == None \notin Values /\ None \notin Names /\ None \notin Pair

Variables == [Shown -> Values \cup {None, "preset"}]
\* pairs: what each line of the file holds; at: the line the loop is at; got: what the export brought; todo: paths not injected yet;
\* over: overwrite, or for `soma run` replace_env; quiet: nobody else wrote.
Cmd  == [stage: {"idle", "confirm", "put", "cleanup", "remove", "ignore",
                 "write", "run", "ran", "inject", "injected"},
         yes: BOOLEAN, pairs: Seq(Pair \cup {None}), at: Nat \ {0}, failed: BOOLEAN, quiet: BOOLEAN,
         got: [Paths -> Values \cup {None}], todo: SUBSET Paths, over: BOOLEAN, vars: Variables]

FileTypeOK ==
  /\ file \in Seq(Line) \cup {None}
  /\ ignore \in {"absent", "open", "closed", "listed", "glued"}
  /\ vault \in [Paths -> Values \cup {None}]
  /\ stored \subseteq Paths \X Values
  /\ cmd \in Cmd
  /\ cmd.stage = "put" => cmd.at <= Len(cmd.pairs) + 1
  /\ shell \in Variables
  /\ last \in Seq(Pair \cup {None})
  /\ commands \in 0 .. MaxCommands /\ faults \in 0 .. MaxFaults /\ others \in 0 .. MaxOther

Nothing == [p \in Paths |-> None]
Idle == [stage |-> "idle", yes |-> FALSE, pairs |-> <<>>, at |-> 1, failed |-> FALSE,
         quiet |-> TRUE, got |-> Nothing, todo |-> {}, over |-> FALSE, vars |-> shell]

FileInit ==
  /\ file \in UNION {[1 .. n -> {l \in Line : l.text \in {"x", "y", "lone"}}] : n \in 0 .. MaxLines}
  /\ ignore \in {"absent", "open", "closed", "listed"}
  /\ vault = Nothing /\ stored = {}
  /\ shell \in [Shown -> {None, "preset"}]
  /\ cmd = Idle
  /\ last = <<>>
  /\ commands = 0 /\ faults = 0 /\ others = 0

-------------------------------------------------------------------------------
\* Import.

\* The pairs that parse_dotenv_file makes of the lines, at the lines they come from.
Parsed(lines) ==
  [i \in DOMAIN lines |->
     IF lines[i].name = None THEN None ELSE [name |-> lines[i].name, value |-> lines[i].text]]

Named(pairs) == {i \in DOMAIN pairs : pairs[i] # None}

\* strip_quotes slices [1 .. 0] of a lone quotation mark, and panics.
Panics(lines) == \E i \in DOMAIN lines : lines[i].name # None /\ lines[i].text = "lone"

Become(c) == cmd' = c /\ UNCHANGED <<file, ignore, vault, stored, shell, last, commands, faults, others>>

Begin(c) ==
  /\ cmd.stage = "idle" /\ commands < MaxCommands
  /\ commands' = commands + 1
  /\ cmd' = c
  /\ UNCHANGED <<file, ignore, vault, stored, shell, last, faults, others>>

StartImport(yes) ==
  /\ file # None
  /\ IF Panics(file) \/ Named(Parsed(file)) = {} THEN Begin(Idle)
     ELSE Begin([Idle EXCEPT !.stage = IF yes THEN "put" ELSE "confirm", !.yes = yes,
                             !.pairs = Parsed(file)])

Confirm == cmd.stage = "confirm" /\ Become([cmd EXCEPT !.stage = "put"])

\* Prompts that are answered no, and Ctrl-C.
Leave == cmd.stage # "idle" /\ Become(Idle)

\* The pairs that are not put yet.
Ahead == {i \in Named(cmd.pairs) : i >= cmd.at}

\* One put: stored and answered, stored with the answer lost, or refused.
Put(i, arrives, answered) ==
  LET path  == PathOf(cmd.pairs[i].name)
      value == cmd.pairs[i].value
  IN
  /\ answered => arrives
  /\ faults' = IF answered THEN faults ELSE faults + 1
  /\ faults' <= MaxFaults
  /\ vault' = IF arrives THEN [vault EXCEPT ![path] = value] ELSE vault
  /\ stored' = IF arrives THEN stored \cup {<<path, value>>} ELSE stored
  /\ cmd' = [cmd EXCEPT !.at = i + 1, !.failed = @ \/ ~answered]
  /\ last' = <<>>

PutLine ==
  /\ cmd.stage = "put"
  /\ \E i \in Ahead :
       /\ \A j \in Ahead : i <= j
       /\ \E arrives, answered \in BOOLEAN : Put(i, arrives, answered)
  /\ UNCHANGED <<file, ignore, shell, commands, others>>

\* Faulty variant for mutation testing: the loop stops before the last pair.
AllPut_OneLess == Cardinality(Ahead) <= 1

AllPut == Ahead = {}

\* Faulty variant for mutation testing: no bail! after a failure.
MayCleanUp_Always == TRUE

\* if fail > 0 { bail! }
MayCleanUp == ~cmd.failed

EndPuts ==
  /\ cmd.stage = "put" /\ AllPut
  /\ cmd' = IF MayCleanUp THEN [cmd EXCEPT !.stage = IF cmd.yes THEN "remove" ELSE "cleanup"]
            ELSE Idle
  /\ last' = IF MayCleanUp /\ cmd.quiet THEN cmd.pairs ELSE <<>>
  /\ UNCHANGED <<file, ignore, vault, stored, shell, commands, faults, others>>

AgreeToCleanUp == cmd.stage = "cleanup" /\ Become([cmd EXCEPT !.stage = "remove"])

\* remove_file, which fails when the user removed it before.
RemoveFile ==
  /\ cmd.stage = "remove"
  /\ cmd' = IF file = None THEN Idle ELSE [cmd EXCEPT !.stage = "ignore"]
  /\ file' = None
  /\ UNCHANGED <<ignore, vault, stored, shell, last, commands, faults, others>>

\* writeln! at the end of .gitignore, which is created when it is missing.
Listed == IF ignore = "open" THEN "glued" ELSE "listed"

AppendIgnore ==
  /\ cmd.stage = "ignore"
  /\ ignore' = IF ignore = "listed" THEN ignore ELSE Listed
  /\ cmd' = Idle
  /\ UNCHANGED <<file, vault, stored, shell, last, commands, faults, others>>

-------------------------------------------------------------------------------
\* Export, run, inject.

Live(values)        == {p \in Paths : values[p] # None}
Sharing(values, n)  == {p \in Live(values) : NameOf(p) = n}

\* Of "a/b" and "a_b" the second comes later in the order of a JSON object's keys.
Later(S) == IF "a_b" \in S THEN "a_b" ELSE CHOOSE p \in S : TRUE

\* fetch_export_map: the value of each name; on a collision the latter path's.
Map(values, n) == IF Sharing(values, n) = {} THEN None ELSE values[Later(Sharing(values, n))]

\* The GET of /export; an answer that is lost ends the command as Leave does.
StartExport == Begin([Idle EXCEPT !.stage = "write", !.got = vault])
StartRun(replace) == Begin([Idle EXCEPT !.stage = "run", !.got = vault, !.over = replace])
StartInject(overwrite) ==
  Begin([Idle EXCEPT !.stage = "inject", !.got = vault, !.over = overwrite, !.todo = Live(vault)])

\* What the parser will read of a value that render_dotenv wrote: quotes come back escaped,
\* and of several lines only the first, with its quotation mark.
ReadBack(v) == IF v = "odd" THEN "spoilt" ELSE v

\* Faulty variant for mutation testing: a line also for a name that has no value.
Rendered_All(values) == <<[name |-> "A", text |-> Map(values, "A")],
                          [name |-> "A_B", text |-> Map(values, "A_B")]>>

\* render_dotenv: one line a name, sorted; fs::write replaces what was there.
Rendered(values) ==
  LET line(n) == IF Map(values, n) = None THEN <<>>
                 ELSE <<[name |-> n, text |-> ReadBack(Map(values, n))]>>
  IN line("A") \o line("A_B")

WriteFile ==
  /\ cmd.stage = "write"
  /\ file' = Rendered(cmd.got)
  /\ cmd' = Idle
  /\ UNCHANGED <<ignore, vault, stored, shell, last, commands, faults, others>>

\* Command::envs over what is inherited; replace_env inherits nothing of these names.
Run ==
  /\ cmd.stage = "run"
  /\ Become([cmd EXCEPT !.stage = "ran",
                        !.vars = [n \in Shown |->
                          IF Map(cmd.got, n) # None THEN Map(cmd.got, n)
                          ELSE IF cmd.over THEN None ELSE shell[n]]])

\* Faulty variant for mutation testing: whatever is set is left alone.
MaySet_Never(n) == cmd.vars[n] = None

\* overwrite || env::var(&name).is_err()
MaySet(n) == cmd.over \/ cmd.vars[n] = None

\* inject, one path of the map at a time, in any order.
InjectOne(p) ==
  /\ cmd.stage = "inject" /\ p \in cmd.todo
  /\ Become([cmd EXCEPT !.todo = @ \ {p},
                        !.vars[NameOf(p)] = IF MaySet(NameOf(p)) THEN cmd.got[p] ELSE @])

Injected == cmd.stage = "inject" /\ cmd.todo = {} /\ Become([cmd EXCEPT !.stage = "injected"])

-------------------------------------------------------------------------------
\* Others.

OtherPut(p, v) ==
  /\ others < MaxOther /\ others' = others + 1
  /\ vault' = [vault EXCEPT ![p] = v]
  /\ stored' = stored \cup {<<p, v>>}
  /\ cmd' = [cmd EXCEPT !.quiet = FALSE]
  /\ last' = <<>>
  /\ UNCHANGED <<file, ignore, shell, commands, faults>>

\* The user's editor saves the file with another line.
Edit(line) ==
  /\ others < MaxOther /\ others' = others + 1
  /\ file' = IF file = None THEN <<line>> ELSE Append(file, line)
  /\ UNCHANGED <<ignore, vault, stored, shell, cmd, last, commands, faults>>

\* The user has given the last command.
AtPrompt == cmd.stage = "idle" /\ UNCHANGED fileVars

FileNext ==
  \/ \E flag \in BOOLEAN : StartImport(flag) \/ StartRun(flag) \/ StartInject(flag)
  \/ StartExport
  \/ Confirm \/ Leave \/ PutLine \/ EndPuts \/ AgreeToCleanUp \/ RemoveFile \/ AppendIgnore
  \/ WriteFile \/ Run \/ Injected
  \/ \E p \in Paths : InjectOne(p)
  \/ \E p \in Paths, v \in {"x", "odd"} : OtherPut(p, v)
  \/ \E line \in [name: {"A_B", None}, text: {"y"}] : Edit(line)
  \/ AtPrompt

FileSpec == FileInit /\ [][FileNext]_fileVars

-------------------------------------------------------------------------------
\* What is checked.

\* Whatever was refused or cut off, the file is removed only when every line the import
\* read was stored: a partial import leaves the file, to be imported again.
RemovedOnlyWhenStored ==
  cmd.stage \in {"cleanup", "remove", "ignore"} =>
    \A i \in Named(cmd.pairs) : <<PathOf(cmd.pairs[i].name), cmd.pairs[i].value>> \in stored

\* The pair whose value counts: no later one has its path.
Counts(pairs, i) == \A j \in Named(pairs) : j > i => PathOf(pairs[j].name) # PathOf(pairs[i].name)

\* What a complete import stored comes back under the same name, if names are uppercase
\* ("Round-trip: env_var_name(env_var_to_path(KEY)) == KEY"), and of several lines the last,
\* also when the file was imported before and failed half way: in what export shows and, if
\* it is an ordinary value, in what the parser reads of the file that export writes, in what
\* run starts its process with, and, unless another path is shown under the name or the
\* name is taken, in what inject sets.
RoundTrip ==
  cmd.quiet =>
    \A i \in Named(last) :
      LET n == last[i].name  value == last[i].value IN
      Counts(last, i) /\ n \in Shown =>
        /\ cmd.stage = "write" =>
             /\ Map(cmd.got, n) = value
             /\ value \in Plain =>
                  \E k \in DOMAIN Rendered(cmd.got) : Parsed(Rendered(cmd.got))[k] = last[i]
        /\ cmd.stage = "ran" => cmd.vars[n] = value
        /\ /\ cmd.stage = "injected"
           /\ Cardinality(Sharing(cmd.got, n)) = 1
           /\ cmd.over \/ shell[n] = None
           => cmd.vars[n] = value

\* A process gets each name from a path that is shown under it; unless two are, run and
\* inject agree, whatever the order of inject's map, and neither leaves a path out.
\* (Of two, inject takes any, and run the later one.)
RunAndInjectAgree ==
  \A n \in Shown :
    LET mine == {cmd.got[p] : p \in Sharing(cmd.got, n)} IN
    /\ cmd.stage = "ran" =>
         IF mine # {} THEN cmd.vars[n] \in mine
         ELSE cmd.vars[n] = IF cmd.over THEN None ELSE shell[n]
    /\ cmd.stage = "injected" =>
         IF mine # {} /\ (cmd.over \/ shell[n] = None) THEN cmd.vars[n] \in mine
         ELSE cmd.vars[n] = shell[n]

-------------------------------------------------------------------------------
\* A statement of the code's comments that the code does not keep.

\* "Delete the .env and add it to .gitignore" (main.rs:1099): after the file was deleted its
\* name is on a line of its own.
ImportIgnoresFile == [][AppendIgnore => ignore' = "listed"]_fileVars
===============================================================================

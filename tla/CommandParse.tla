---------------------------- MODULE CommandParse ----------------------------
(***************************************************************************)
(* What the user types and what the node makes of it: the line loop of     *)
(* main (src/bin/file-sharing.rs) and Command::from_str (src/command.rs),  *)
(* together with the names that ls@ shows (src/network/mod.rs).            *)
(*                                                                         *)
(* A line is a sequence of tokens: the fixed pieces of the syntax, blanks, *)
(* and letters for everything else.  A word is the text between blanks.    *)
(* Words are compared as wholes: "register" followed by a letter is some   *)
(* other word.                                                             *)
(***************************************************************************)
EXTENDS Naturals, Sequences, SequencesExt

CONSTANTS
    Letters,    \* text that means nothing to the parser
    Lossy,      \* a piece of a file name that is not UTF-8
    Replaced,   \* the character that to_string_lossy puts in its place
    FileNames,  \* names of files in another node's sharing_dir
    MaxLine     \* bound on the tokens the user types in a line

Blank == " "

Syntax == {"register", "ls_peers", "ls@", "get@", "->", Blank}

ASSUME ParseAssumption ==
    /\ Letters \cap Syntax = {}
    /\ Lossy \notin Letters \cup Syntax
    /\ Replaced \notin Syntax \cup {Lossy}
    /\ FileNames \subseteq Seq((Letters \cup Syntax) \cup {Lossy, Replaced})
    /\ MaxLine \in Nat

VARIABLES
    line,       \* the line so far
    wanted      \* the names of the files the line was made for, none or one

lineVars == <<line, wanted>>

Tokens == Letters \cup Syntax

-----------------------------------------------------------------------------
\* The place of the first t in s, or 0.
Place(s, t) == SelectInSeq(s, LAMBDA x : x = t)

\* The part of s before the first t, and the part behind it.
Before(s, t) ==
    IF Contains(s, t) THEN SubSeq(s, 1, Place(s, t) - 1) ELSE s

Behind(s, t) ==
    IF Contains(s, t) THEN SubSeq(s, Place(s, t) + 1, Len(s)) ELSE <<>>

\* s from its first token that is not a blank.
Trimmed(s) ==
    LET i == SelectInSeq(s, LAMBDA t : t # Blank)
    IN  IF i = 0 THEN <<>> ELSE SubSeq(s, i, Len(s))

\* split_whitespace: the first two words, each <<>> where there is none.
Word1(s) == Before(Trimmed(s), Blank)
Word2(s) == Word1(Behind(Trimmed(s), Blank))

\* Command, and the error InvalidCommand.
Register(u)    == [name |-> "Register", user |-> u]
ListPeers      == [name |-> "ListPeers"]
ListFiles(u)   == [name |-> "ListFiles", user |-> u]
GetFile(u, f)  == [name |-> "GetFile", user |-> u, file |-> f]
InvalidCommand == [name |-> "InvalidCommand"]

\* Fault: the user name is all that follows.
ParseRegisterRest(s) ==
    IF Word2(s) = <<>>
    THEN InvalidCommand
    ELSE Register(Trimmed(Behind(Trimmed(s), Blank)))

ParseRegister(s) ==
    IF Word2(s) = <<>> THEN InvalidCommand ELSE Register(Word2(s))

\* Fault: the user name and the file name are swapped.
ParseGetFileSwapped(rest) ==
    IF Contains(rest, "->")
    THEN GetFile(Before(Behind(rest, "->"), "->"), Before(rest, "->"))
    ELSE InvalidCommand

\* split("->"): a user name, possibly empty, and a file name up to the next
\* arrow, possibly empty; there is none without an arrow.
ParseGetFile(rest) ==
    IF Contains(rest, "->")
    THEN GetFile(Before(rest, "->"), Before(Behind(rest, "->"), "->"))
    ELSE InvalidCommand

\* Command::from_str.
FromStr(s) ==
    LET word == Word1(s) IN
    CASE word = <<"register">>      -> ParseRegister(s)
      [] word = <<"ls_peers">>      -> ListPeers
      [] IsPrefix(<<"ls@">>, word)  -> ListFiles(Tail(word))
      [] IsPrefix(<<"get@">>, word) -> ParseGetFile(Tail(word))
      [] OTHER                      -> InvalidCommand

-----------------------------------------------------------------------------
(***************************************************************************)
(* The line loop of main.  A line that does not parse is reported and the  *)
(* loop goes on.                                                           *)
(***************************************************************************)
Type(t) ==
    /\ Len(line) < MaxLine
    /\ line' = Append(line, t)
    /\ wanted' = {}

\* A file name as ls@ shows it: to_string_lossy.
Shown(name) == [i \in DOMAIN name |-> IF name[i] = Lossy THEN Replaced ELSE name[i]]

\* The user asks for a file that ls@ has shown.
TypeListed(u, name) ==
    /\ line = <<>>
    /\ line' = <<"get@", u, "->">> \o Shown(name)
    /\ wanted' = {GetFile(<<u>>, name)}

HandleInput ==
    /\ line' = <<>>
    /\ wanted' = {}

LineInit ==
    /\ line = <<>>
    /\ wanted = {}

LineNext ==
    \/ \E t \in Tokens : Type(t)
    \/ \E u \in Letters, name \in FileNames : TypeListed(u, name)
    \/ HandleInput

LineSpec == LineInit /\ [][LineNext]_lineVars

-----------------------------------------------------------------------------
(***************************************************************************)
(* Properties.                                                             *)
(***************************************************************************)
Blanks(n) == [i \in 1..n |-> Blank]

\* A command as README.md writes it: register <USERNAME>, ls_peers,
\* ls@<USERNAME>, get@<USERNAME>-><FILENAME>; with blanks in front of it and
\* between its words.
Written(c, lead, gap) ==
    Blanks(lead) \o
    (CASE c.name = "Register"  -> <<"register">> \o Blanks(gap) \o c.user
       [] c.name = "ListPeers" -> <<"ls_peers">>
       [] c.name = "ListFiles" -> <<"ls@">> \o c.user
       [] c.name = "GetFile"   -> <<"get@">> \o c.user \o <<"->">> \o c.file)

\* The commands with names from s: a name is not empty and has no blank, and
\* beside an arrow it has none of its own.
Documented(s) ==
    LET words == {w \in SubSeqs(s) : w # <<>> /\ ~Contains(w, Blank)}
        parts == {w \in words : ~Contains(w, "->")}
    IN  {ListPeers} \cup {Register(u) : u \in words}
        \cup {ListFiles(u) : u \in words}
        \cup {GetFile(u, f) : u \in parts, f \in parts}

\* s is the text, and no more than blanks behind it.
Spells(s, text) ==
    LET rest == SubSeq(s, Len(text) + 1, Len(s))
    IN  IsPrefix(text, s) /\ \A i \in DOMAIN rest : rest[i] = Blank

\* A line that is a command written as README.md documents it is taken for
\* that command, with its own user name and file name.
DocumentedLinesParse ==
    \A c \in Documented(line) :
        (\E lead \in 0..Len(line), gap \in 1..Len(line) :
            Spells(line, Written(c, lead, gap)))
        => FromStr(line) = c

\* register takes any word for a user name.  Under it a user can be asked for
\* the list of files, and for a file just when the name has no arrow.
RegisteredUsersCanBeAsked ==
    LET c == FromStr(line) IN
    c.name = "Register" =>
        /\ FromStr(<<"ls@">> \o c.user) = ListFiles(c.user)
        /\ \A t \in Letters :
              FromStr(<<"get@">> \o c.user \o <<"->", t>>) = GetFile(c.user, <<t>>)
              <=> ~Contains(c.user, "->")

\* A file that ls@ shows can be asked for by its own name just when that has
\* no blank and no arrow and survives to_string_lossy.
ListedFilesCanBeFetched ==
    \A c \in wanted :
        FromStr(line) = c <=> ~ \E t \in {Blank, "->", Lossy} : Contains(c.file, t)

=============================================================================

------------------------------ MODULE MCDeploy ------------------------------
(* Constant values for model-checking Deploy.                              *)
EXTENDS Deploy

CONSTANTS other, author, article, fullName, search, main, replica, broken

Entry(t, cf) == [name |-> t, computed |-> cf]
Source(n, u, ts, fs) == [name |-> n, url |-> u, tables |-> ts, functions |-> fs]

\* A default source, a second source, and an override of the default source
\* that points at another database.
Overridden ==
    <<Source(Default, Unset, {Entry(author, {fullName})}, {search}),
      Source(other, main, {Entry(article, {})}, {}),
      Source(Default, replica, {Entry(article, {})}, {})>>

\* Two sources on the validated database.
Plain ==
    <<Source(Default, Unset, {Entry(author, {fullName})}, {search}),
      Source(other, main, {Entry(article, {})}, {})>>

\* The sources the other way round: no source is named default first.
Swapped ==
    <<Source(other, replica, {Entry(article, {})}, {}),
      Source(Default, main, {Entry(author, {})}, {})>>

\* A second source whose URL does not parse.
Unparsable ==
    <<Source(Default, Unset, {Entry(author, {fullName})}, {search}),
      Source(other, broken, {Entry(article, {})}, {})>>

NoSources == <<>>

Deployed == {Overridden, Plain, Unparsable, NoSources}
OtherFirst == {Swapped}

Create == [adds |-> {author, fullName}, drops |-> {}]
Extend == [adds |-> {article, search}, drops |-> {}]
Retire == [adds |-> {}, drops |-> {fullName}]
ThreeMigrations == <<Create, Extend, Retire>>
=============================================================================

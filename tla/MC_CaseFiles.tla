----------------------------- MODULE MC_CaseFiles -----------------------------
(* A case with files and directories, one of wrf and one of sphinx3, with    *)
(* data that lacks each thing that a case may look for.                      *)
EXTENDS CaseFiles

Files(names) == [d \in {"all", "input"} |-> [p \in names[d] |-> Content(d, p)]]

File(path) == [dir |-> FALSE, to |-> "", from |-> path]
Directory(to, path) == [dir |-> TRUE, to |-> to, from |-> path]

\* The second input has the name of the ELF.
Plain == [name |-> "plain", bench |-> "other", binary |-> "perl",
          files |-> <<File(<<"in">>), File(<<"perl">>), Directory("libs", <<"lib">>)>>]
Wrf == [name |-> "wrf", bench |-> "wrf", binary |-> "wrf", files |-> <<Directory(".", <<>>)>>]
Sphinx3 == [name |-> "sphinx3", bench |-> "sphinx3", binary |-> "sphinx", files |-> <<Directory(".", <<>>)>>]

MCCases == {Plain, Wrf, Sphinx3}

MCRaw == [a |-> [be |-> "a.be.raw", le |-> "a.le.raw", plain |-> "a.raw"],
          b |-> [be |-> "b.be.raw", le |-> "b.le.raw", plain |-> "b.raw"]]

\* All of a set but for at most so many of its elements.
AllBut(n, S) == {T \in SUBSET S : Cardinality(S \ T) <= n}

Pairs(all, input) == {Files([all |-> a, input |-> i]) : a \in all, i \in input}

MCData ==
    [plain   |-> Pairs(AllBut(2, {<<"in">>, <<"perl">>, <<"lib", "x">>, <<"lib", "y">>, <<"spare">>}),
                       SUBSET {<<"in">>, <<"lib", "x">>}),
     wrf     |-> Pairs(AllBut(1, {<<"f">>, <<"le", "f">>, <<"le", "g">>, <<"be", "g">>,
                                  <<"le", "64", "f">>, <<"le", "32", "g">>, <<"be", "32", "h">>}),
                       {{}, {<<"f">>}, {<<"be", "f">>}}),
     sphinx3 |-> Pairs({{}, {<<"a.be.raw">>}, {<<"a.be.raw">>, <<"a.le.raw">>},
                        {<<"a.be.raw">>, <<"a.le.raw">>, <<"a.raw">>}},
                       {{}, {<<"a.le.raw">>}, {<<"a.be.raw">>}, {<<"b.be.raw">>, <<"b.le.raw">>}})]
===============================================================================

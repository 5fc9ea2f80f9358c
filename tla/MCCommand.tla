------------------------------ MODULE MCCommand ------------------------------
(* Two families of scenes: small submissions with the requests that choose *)
(* among their files, and small configurations with the requests that      *)
(* choose settings and a language model.                                   *)
EXTENDS Command

MCProfiles == {"software", "research"}
MCDisabledFor == [software |-> {}, research |-> {"ARC"}]
MCRubric == [r1 |-> [prefix |-> "ARC", placeholder |-> "none"],
             r2 |-> [prefix |-> "FMT", placeholder |-> "known"]]

-----------------------------------------------------------------------------
Plain(refs) == [kind |-> File, refs |-> refs]
LinkTo(p) == [kind |-> Link, target |-> p]
Nowhere == [kind |-> NoFile]

Ref(kind, dir, stem) == [kind |-> kind, form |-> "plain", dir |-> dir, stem |-> stem, suffix |-> ""]
Of(form, ref) == [ref EXCEPT !.form = form]

Chapter == PathAt(<<"a">>, "intro", "tex")
Part == PathAt(<<>>, "part", "tex")
NestedMain == PathAt(<<"a">>, "main", "tex")
OtherMain == PathAt(<<"b">>, "Main", "tex")
Thesis == PathAt(<<>>, "thesis", "tex")

ToChapter == Ref("include", <<"a">>, "intro")

\* What each path may be; {} stands for nothing there.
MainEntries == {{}, {Plain(<<ToChapter>>)},
                {Plain(<<Ref("image", <<>>, "fig"), Ref("bibliography", <<>>, "part"),
                         Of("standard", Ref("class", <<>>, "article"))>>)},
                {Plain(<<Of("dynamic", Ref("include", <<>>, "part"))>>)}}
ChapterEntries == {{}, {Plain(<<>>)}, {Plain(<<Ref("include", <<>>, "part")>>)},
                   {Plain(<<ToChapter>>)},
                   {Plain(<<Of("up", Ref("include", <<>>, "part"))>>)}}
PartEntries == {{}, {Plain(<<>>)}}
NestedEntries == {{}, {Plain(<<>>)}}
OtherEntries == {{}, {Plain(<<>>)}, {Nowhere}, {LinkTo(NestedMain)}}

Put(p, choice) == {[path |-> p, entry |-> e] : e \in choice}

TreeOf(puts) == [p \in {e.path : e \in puts} |->
                   (CHOOSE e \in puts : e.path = p).entry]

Trees == {TreeOf(Put(TopMain, m) \cup Put(Chapter, c) \cup Put(Part, t)
                 \cup Put(NestedMain, n) \cup Put(OtherMain, o)) :
            m \in MainEntries, c \in ChapterEntries, t \in PartEntries,
            n \in NestedEntries, o \in OtherEntries}

\* A chapter the working directory shadows, and a main.tex or a main.pdf that is
\* a link to a file of another kind.
Shadow == PathAt(<<"a">>, "part", "tex")
Notes == PathAt(<<"b">>, "notes", "txt")
ToPart == [Ref("include", <<>>, "part") EXCEPT !.suffix = "tex"]
OddTrees ==
    {TreeOf(Put(TopMain, {Plain(<<ToChapter>>)}) \cup Put(Chapter, {Plain(<<ToPart>>)})
            \cup Put(Part, {Plain(p)}) \cup Put(Shadow, {Plain(s)})) :
        p \in {<<>>, <<Ref("include", <<>>, "gone")>>},
        s \in {<<>>, <<Ref("include", <<>>, "gone")>>}}
    \cup {TreeOf(Put(Notes, {Plain(<<>>)}) \cup Put(OtherMain, {LinkTo(Notes)})),
          TreeOf(Put(Notes, {Plain(<<>>)}) \cup Put(TopMain, {LinkTo(Notes)})),
          TreeOf(Put(Thesis, {Plain(<<>>)}) \cup Put(TopPdf, {LinkTo(Thesis)}))}

Added == Put(TopMain, {Plain(<<>>)}) \cup Put(NestedMain, {Plain(<<>>)})
         \cup Put(OtherMain, {Plain(<<>>)}) \cup Put(TopPdf, {Plain(<<>>)})

-----------------------------------------------------------------------------
Content(include, values) == [readable |-> TRUE, include |-> include, values |-> values]
Unreadable == [readable |-> FALSE, include |-> <<>>, values |-> <<>>]

TopContents == {Content(<<"base">>, <<>>),
                Content(<<"base">>, [work_profile |-> "research"]),
                Content(<<"top">>, [work_profile |-> "software"])}
BaseContents == {Content(<<>>, [work_profile |-> "software"]),
                 Content(<<>>, [work_profile |-> "research", provider |-> "yandex"]),
                 Content(<<>>, [work_profile |-> "software", provider |-> "yandex",
                                cloud |-> "true"]),
                 Content(<<>>, [work_profile |-> "software", provider |-> "ollama",
                                approved |-> "yes", param |-> "override"]),
                 Unreadable}

Disk(t, b) == [f \in {"top", "base"} |-> IF f = "top" THEN t ELSE b]

Keyed == [LLM_API_KEY |-> "key", LLM_MODEL |-> "model"]
Environs == {<<>>, Keyed, Keyed @@ [ALLOW_CLOUD_DATA |-> "true"],
             Keyed @@ [ALLOW_CLOUD_DATA |-> "", LLM_ALLOW_CLOUD_DATA |-> "true"],
             Keyed @@ [ALLOW_CLOUD_DATA |-> "maybe", LLM_PROVIDER |-> "ollama"],
             [LLM_PROVIDER |-> "yandex"]}

Request == [source |-> <<>>, root |-> <<>>, cwd |-> Elsewhere, environ |-> <<>>,
            profile |-> Absent, provider |-> Absent, model |-> Absent, no_llm |-> TRUE,
            only |-> {}, gate_mode |-> Absent]

FileRequests ==
    {Request, [Request EXCEPT !.cwd = AtTheTop],
     [Request EXCEPT !.source = <<NestedMain>>],
     [Request EXCEPT !.source = <<TopPdf>>],
     [Request EXCEPT !.root = <<[unsafe |-> FALSE, path |-> NestedMain]>>],
     [Request EXCEPT !.root = <<[unsafe |-> TRUE, path |-> NestedMain]>>]}

SettingRequests ==
    {[Request EXCEPT !.no_llm = FALSE, !.environ = e] : e \in Environs}
    \cup {[Request EXCEPT !.no_llm = FALSE, !.environ = e, !.provider = "yandex"] :
             e \in {<<>>, Keyed, [Keyed EXCEPT !.LLM_API_KEY = ""]}}
    \cup {[Request EXCEPT !.profile = p] : p \in {"research", "bogus"}}
    \cup {[Request EXCEPT !.only = o] : o \in {{"formal"}, {"semantic", "aggregate"}, {"bogus"}}}
    \cup {[Request EXCEPT !.gate_mode = "bogus"]}

\* Submissions that are edited, with one configuration.
FileScenes ==
    {[disk |-> Disk(Content(<<>>, [work_profile |-> "software"]), Unreadable), tree |-> t,
      contents |-> [f \in {"top", "base"} |-> {}], entries |-> Added,
      requests |-> FileRequests, runs |-> 1] : t \in Trees \cup OddTrees}

\* Configurations that are edited, with one submission; --profile is named by
\* some commands or by none.
SettingScenes ==
    {[disk |-> Disk(t, b), tree |-> TreeOf(Put(TopMain, {Plain(<<>>)})),
      contents |-> [f \in {"top", "base"} |-> IF f = "top" THEN TopContents ELSE BaseContents],
      entries |-> {}, requests |-> asked, runs |-> 2] :
        t \in TopContents, b \in BaseContents,
        asked \in {SettingRequests, {r \in SettingRequests : r.profile = Absent}}}

MCScenes == FileScenes \cup SettingScenes

\* One submission with two theses in it, for the cache.
TwoTheses ==
    {[disk |-> Disk(Content(<<>>, [work_profile |-> "software"]), Unreadable),
      tree |-> TreeOf(Put(TopMain, {Plain(<<>>)}) \cup Put(NestedMain, {Plain(<<>>)})),
      contents |-> [f \in {"top", "base"} |-> {}], entries |-> {}, requests |-> FileRequests,
      runs |-> 2]}
=============================================================================

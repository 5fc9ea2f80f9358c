------------------------------ MODULE PageRoles ------------------------------
(***************************************************************************)
(* analyze_page_roles: which pages of a PDF are forms (the title page, the *)
(* assignment, the calendar plan, the approval, a review) and are kept out *)
(* of layout metrics and of the excerpts sent to the model.                *)
(*                                                                         *)
(* A page is what is found on it: the anchor phrases of its text, those of *)
(* its lines that look like a heading, and how many of the six groups of   *)
(* form fields it mentions.                                                *)
(***************************************************************************)
EXTENDS FiniteSets, FiniteSetsExt, Integers

Anchor == {"thesis", "program", "institution", "assignment", "assignment phrase",
           "approval", "calendar plan", "term", "contents", "guidelines"}
HeadingTitle == {"assignment", "review", "introduction", "abstract", "contents",
                 "bibliography", "appendix"}
ServiceRoles == {"title", "approval", "assignment", "calendar_plan", "review"}
NoMain == 0

\* _introduction_page: by the sections, else by a line that looks like a
\* heading; an entry of the contents is none.  No caller passes headings.
IntroductionPage(pages, sectionPages) ==
    LET titled == {p \in DOMAIN pages : /\ "introduction" \in pages[p].titles
                                        /\ "contents" \notin pages[p].anchors}
    IN IF sectionPages # {} THEN Min(sectionPages)
       ELSE IF titled # {} THEN Min(titled) ELSE NoMain

\* _service_role
ServiceRole(page, beforeMain, hasMain) ==
    LET Has(a) == a \in page.anchors IN
    IF "review" \in page.titles /\ page.support >= 2 THEN "review"
    ELSE IF hasMain /\ ~beforeMain THEN "none"
    ELSE IF \/ /\ (Has("assignment phrase") \/ "assignment" \in page.titles)
               /\ page.support >= 2
            \/ Has("assignment") /\ page.support >= 3
      THEN "assignment"
    ELSE IF Has("calendar plan") /\ Has("term") THEN "calendar_plan"
    ELSE IF Has("approval") /\ Has("institution") /\ page.support >= 1
      THEN "approval"
    ELSE IF Has("thesis") /\ Has("program") /\ Has("institution") THEN "title"
    ELSE "none"

NonServiceRole(page) ==
    IF "abstract" \in page.titles THEN "abstract"
    ELSE IF "contents" \in page.titles THEN "contents"
    ELSE IF "bibliography" \in page.titles THEN "bibliography"
    ELSE IF "appendix" \in page.titles THEN "appendix" ELSE "none"

\* The role of page p when the main text starts on page main.
PageRole(pages, p, main) ==
    LET service == ServiceRole(pages[p], main = NoMain \/ p < main, main # NoMain)
    IN IF service # "none" THEN service
       ELSE IF NonServiceRole(pages[p]) # "none" THEN NonServiceRole(pages[p])
       ELSE IF main # NoMain /\ p >= main THEN "main_text" ELSE "unknown"

\* excluded_service_pages
ServicePages(pages, main) ==
    {p \in DOMAIN pages : PageRole(pages, p, main) \in ServiceRoles}

DocumentKind(pages, main) ==
    IF pages = <<>> THEN "unknown"
    ELSE IF main # NoMain THEN "thesis"
    ELSE IF ServicePages(pages, main) = DOMAIN pages THEN "service_document"
    ELSE IF \E p \in DOMAIN pages : "guidelines" \in pages[p].anchors
      THEN "methodical_document"
    ELSE "unknown"
=============================================================================

------------------------------- MODULE Navigation -------------------------------
(***************************************************************************)
(* What visitors navigate by: pages, the menu that links them, categories  *)
(* and the products in them: content/store.go, content/menu.go,            *)
(* commerce/store.go and category.go, and their handlers in admin.         *)
(*                                                                         *)
(* Menu entries and categories are trees kept as rows that name a parent.  *)
(* A foreign key sees that the parent exists, never a cycle: the code      *)
(* walks the tree, before a statement of its own writes the change.        *)
(***************************************************************************)
EXTENDS Integers, FiniteSetsExt

CONSTANTS
    Edits,                    \* bound: requests that arrive, each once
    Pages, Slugs,             \* pages and the addresses they may have
    Entries, Categories, Products,
    FirstPages, FirstMenu, FirstCategories, FirstTags,   \* what there is at first
    MaxCategoryDepth,
    Top, Nothing, Gone

PageStatuses == {"draft", "published"}
Page     == [status : PageStatuses, slug : Slugs]
MenuItem == [parent : Entries \cup {Top}, url : Slugs \cup {Nothing}]

Is(row)  == row \notin {Nothing, Gone}
There(f) == {x \in DOMAIN f : Is(f[x])}
New(f)   == {x \in DOMAIN f : f[x] = Nothing}

\* What hangs in a tree under some of it, at any depth, and these: the least set that
\* has them and, with a row, the rows that name it their parent.
Closed(parents, es) == \A e \in DOMAIN parents : parents[e] \in es => e \in es
Under(parents, es) ==
    {e \in es \cup DOMAIN parents : \A more \in SUBSET (DOMAIN parents \ es) :
        Closed(parents, es \cup more) => e \in es \cup more}
\* Every walk up reaches the top.
Forest(parents) == DOMAIN parents \subseteq Under(parents, {Top})

\* Rows of their types, as the foreign keys and pages.slug UNIQUE let them be.
PagesTyped(pages) ==
    /\ pages \in [Pages -> Page \cup {Nothing, Gone}]
    /\ \A p, q \in There(pages) : pages[p].slug = pages[q].slug => p = q
MenuTyped(items) ==
    /\ items \in [Entries -> MenuItem \cup {Nothing, Gone}]
    /\ \A e \in There(items) : items[e].parent \in There(items) \cup {Top}
CategoriesTyped(parents) ==
    /\ parents \in [Categories -> Categories \cup {Top, Nothing, Gone}]
    /\ \A c \in There(parents) : parents[c] \in There(parents) \cup {Top}
TagsTyped(lists, parents) ==
    /\ lists \in [Products -> (SUBSET Categories) \cup {Nothing, Gone}]
    /\ \A p \in There(lists) : lists[p] \subseteq There(parents)

ASSUME NavigationAssumption ==
    /\ MaxCategoryDepth \in Nat \ {0}
    /\ Top \notin {Nothing, Gone} /\ Nothing # Gone
    /\ {Top, Nothing, Gone} \cap (Entries \cup Categories \cup Edits) = {}
    /\ {Nothing, Gone} \cap (Page \cup MenuItem) = {}
    /\ PagesTyped(FirstPages) /\ MenuTyped(FirstMenu)
    /\ CategoriesTyped(FirstCategories) /\ TagsTyped(FirstTags, FirstCategories)
    /\ Forest([c \in There(FirstCategories) |-> FirstCategories[c]])

VARIABLES
    page,      \* rows by their id: Nothing yet, Gone, or a page's status and slug,
    menu,      \*   a menu entry's parent and url,
    category,  \*   a category's parent,
    tags,      \*   a product's categories
    advisory,  \* who holds the advisory lock of category moves
    edit       \* requests in flight

navigationVars == <<page, menu, category, tags, advisory, edit>>
navigation == <<page, menu>>
catalogue  == <<category, tags, advisory>>

Lifts == UNION {[es -> Entries \cup {Top}] : es \in SUBSET Entries}
Edit ==
    [op : {"new", "done"}]
    \cup [op : {"move status"}, page : Pages, from : PageStatuses, to : PageStatuses]
    \cup [op : {"delete page"}, page : Pages]
    \cup [op : {"lifted"}, page : Pages, lift : Lifts]
    \cup [op : {"update entry"}, entry : Entries, item : MenuItem]
    \cup [op : {"reparent", "judge", "place"}, child : Categories, parent : Categories \cup {Top}]
    \cup [op : {"tag"}, product : Products, tags : SUBSET Categories]

NavigationTypeOK ==
    /\ PagesTyped(page) /\ MenuTyped(menu)
    /\ CategoriesTyped(category) /\ TagsTyped(tags, category)
    /\ advisory \in Edits \cup {Nothing}
    /\ edit \in [Edits -> Edit]

NavigationInit ==
    /\ page = FirstPages /\ menu = FirstMenu
    /\ category = FirstCategories /\ tags = FirstTags
    /\ advisory = Nothing
    /\ edit = [r \in Edits |-> [op |-> "new"]]

Doing(r, op)      == edit[r].op = op
Turn(r, what) == edit' = [edit EXCEPT ![r] = what]
Over(r)        == Turn(r, [op |-> "done"])

\* A failed statement, a crash: an open transaction is rolled back.
Fails(r) ==
    /\ edit[r].op \notin {"new", "done"}
    /\ Over(r)
    /\ advisory' = IF advisory = r THEN Nothing ELSE advisory
    /\ UNCHANGED <<navigation, category, tags>>

-----------------------------------------------------------------------------
(* Pages: A-302, A-303.  Definitions commented "Mutant" are used by no other: *)
(* each is a plausible bug of the one that follows it.                        *)

\* A transaction that deleted the page holds its row until it ends.
Deleting(p) == \E r \in Edits : edit[r].op \in {"delete page", "lifted"} /\ edit[r].page = p
SlugTaken(p, s) == \E q \in There(page) \ {p} : page[q].slug = s

InsertPage(p, s) ==
    ~SlugTaken(p, s) /\ page' = [page EXCEPT ![p] = [status |-> "draft", slug |-> s]]
CreatePage(r) == \E p \in New(page), s \in Slugs :
    /\ Doing(r, "new")
    /\ InsertPage(p, s)
    /\ Over(r)
    /\ UNCHANGED <<menu, catalogue>>
\* The status is not the form's to change.
UpdatePage(r) == \E p \in There(page), s \in Slugs :
    /\ Doing(r, "new") /\ ~SlugTaken(p, s) /\ ~Deleting(p)
    /\ page' = [page EXCEPT ![p].slug = s]
    /\ Over(r)
    /\ UNCHANGED <<menu, catalogue>>

\* A status moves to the other one; to the same one is no move.
CanTransition(from, to) == from # to
PageStatus(p) == page[p].status
PagePublish(r) == \E p \in There(page), to \in PageStatuses :
    /\ Doing(r, "new") /\ CanTransition(PageStatus(p), to)
    /\ Turn(r, [op |-> "move status", page |-> p, from |-> PageStatus(p), to |-> to])
    /\ UNCHANGED <<navigation, catalogue>>
\* Where it changed meanwhile the request ends in a refusal, whatever it is now.
MoveStatus(p, from, to) ==
    page' = IF Is(page[p]) /\ page[p].status = from
            THEN [page EXCEPT ![p].status = to] ELSE page
SetPageStatus(r) ==
    /\ Doing(r, "move status") /\ ~Deleting(edit[r].page)
    /\ MoveStatus(edit[r].page, edit[r].from, edit[r].to)
    /\ Over(r)
    /\ UNCHANGED <<menu, catalogue>>

\* DeletePage, in a transaction with the entries that point at it.
PageDelete(r) == \E p \in There(page) :
    /\ Doing(r, "new") /\ ~Deleting(p)
    /\ Turn(r, [op |-> "delete page", page |-> p])
    /\ UNCHANGED <<navigation, catalogue>>
PointsAt(e, p) == Is(menu[e]) /\ menu[e].url = page[p].slug
Pointing(p) == {e \in Entries : PointsAt(e, p)}
\* One statement: what it reads of a parent is what was there before it.
LiftsOf(p) ==
    [e \in {x \in There(menu) : menu[x].parent \in Pointing(p)} |-> menu[menu[e].parent].parent]
\* Entries a transaction updated are locked until it ends; those it named as their
\* parents cannot be deleted until then.
Locked(e) == \E r \in Edits : Doing(r, "lifted") /\ e \in DOMAIN edit[r].lift
Kept(r, e) == \E q \in Edits \ {r} : /\ Doing(q, "lifted")
                                       /\ \E x \in DOMAIN edit[q].lift : e \in {x, edit[q].lift[x]}
LiftMenuChildren(r) ==
    /\ Doing(r, "delete page")
    /\ LET lift == LiftsOf(edit[r].page) IN
       /\ \A e \in DOMAIN lift : ~Locked(e)
       /\ Turn(r, [op |-> "lifted", page |-> edit[r].page, lift |-> lift])
    /\ UNCHANGED <<navigation, catalogue>>

\* parent_id ON DELETE CASCADE.
WithChildren(items, es) == Under([e \in There(items) |-> items[e].parent], es)
Without(items, es) ==
    [e \in DOMAIN items |-> IF e \in WithChildren(items, es) THEN Gone ELSE items[e]]
\* The menu as this transaction sees it, its own lifts in place.
Lifted(r) ==
    LET lift == edit[r].lift
    IN  [e \in Entries |-> IF e \in DOMAIN lift /\ Is(menu[e])
                           THEN [menu[e] EXCEPT !.parent = lift[e]] ELSE menu[e]]
\* Mutant: the entries go before their children are lifted.
DeleteMenusForFirst(r) ==
    /\ Doing(r, "lifted")
    /\ menu' = Without(menu, Pointing(edit[r].page))
    /\ page' = [page EXCEPT ![edit[r].page] = Gone]
    /\ Over(r)
    /\ UNCHANGED catalogue
DeleteMenusFor(r) ==
    /\ Doing(r, "lifted")
    /\ \A e \in WithChildren(Lifted(r), Pointing(edit[r].page)) : ~Kept(r, e)
    /\ menu' = Without(Lifted(r), Pointing(edit[r].page))
    /\ page' = [page EXCEPT ![edit[r].page] = Gone]
    /\ Over(r)
    /\ UNCHANGED catalogue

-----------------------------------------------------------------------------
(* The menu: A-204                                                           *)

CreateMenuItem(e, item) ==
    /\ item.parent \in There(menu) \cup {Top}
    /\ menu' = [menu EXCEPT ![e] = item]
MenuCreate(r) == \E e \in New(menu), item \in MenuItem :
    /\ Doing(r, "new")
    /\ CreateMenuItem(e, item)
    /\ Over(r)
    /\ UNCHANGED <<page, catalogue>>

MenuItems == [e \in There(menu) |-> menu[e]]
BuildMenu(items) == Forest([e \in DOMAIN items |-> items[e].parent])
MenuUpdate(r) == \E e \in There(menu), item \in MenuItem :
    /\ Doing(r, "new")
    /\ BuildMenu([MenuItems EXCEPT ![e] = item])
    /\ Turn(r, [op |-> "update entry", entry |-> e, item |-> item])
    /\ UNCHANGED <<navigation, catalogue>>
UpdateMenuItem(r) ==
    /\ Doing(r, "update entry") /\ ~Locked(edit[r].entry)
    /\ IF Is(menu[edit[r].entry]) /\ edit[r].item.parent \in There(menu) \cup {Top}
       THEN menu' = [menu EXCEPT ![edit[r].entry] = edit[r].item] ELSE UNCHANGED menu
    /\ Over(r)
    /\ UNCHANGED <<page, catalogue>>
MenuDelete(r) == \E e \in There(menu) :
    /\ Doing(r, "new")
    /\ \A x \in WithChildren(menu, {e}) : ~Kept(r, x)
    /\ menu' = Without(menu, {e})
    /\ Over(r)
    /\ UNCHANGED <<page, catalogue>>

-----------------------------------------------------------------------------
(* Categories: A-509, and the products in them: A-502                        *)

\* The key finds that the parent is there; how deep it is nobody asks.
InsertCategory(c, parent) ==
    /\ parent \in There(category) \cup {Top}
    /\ category' = [category EXCEPT ![c] = parent]
CategoryCreate(r) == \E c \in New(category), parent \in Categories \cup {Top} :
    /\ Doing(r, "new")
    /\ InsertCategory(c, parent)
    /\ Over(r)
    /\ UNCHANGED <<navigation, tags, advisory>>
\* RESTRICT, by categories and products that name it.
DeleteCategory(c) ==
    /\ \A d \in Categories : category[d] # c
    /\ \A p \in There(tags) : c \notin tags[p]
    /\ category' = [category EXCEPT ![c] = Gone]
CategoryDelete(r) == \E c \in There(category) :
    /\ Doing(r, "new")
    /\ DeleteCategory(c)
    /\ Over(r)
    /\ UNCHANGED <<navigation, tags, advisory>>

\* The whole tree as one statement read it.
categoryParents == [c \in There(category) |-> category[c]]
\* A category and those above it; how many levels down it is, and how many more its
\* lowest is.
Above(c) == {a \in DOMAIN categoryParents : c \in Under(categoryParents, {a})}
Depth(c) == Cardinality(Above(c))
subtreeHeight(c) ==
    Max({Depth(d) : d \in Under(categoryParents, {c})}) - Depth(c)
CheckReparent(child, parent) ==
    /\ child \in DOMAIN categoryParents
    /\ parent # Top =>
        /\ parent \in DOMAIN categoryParents
        /\ child \notin Above(parent)
        /\ Depth(parent) + subtreeHeight(child) <= MaxCategoryDepth

CategoryReparent(r) == \E c \in Categories, parent \in Categories \cup {Top} :
    /\ Doing(r, "new") /\ c \in There(category) /\ parent \in There(category) \cup {Top}
    /\ Turn(r, [op |-> "reparent", child |-> c, parent |-> parent])
    /\ UNCHANGED <<navigation, catalogue>>
\* Mutant: the transaction without the lock.
AdvisoryXactUnlocked(r) ==
    /\ Doing(r, "reparent")
    /\ UNCHANGED advisory
    /\ Turn(r, [edit[r] EXCEPT !.op = "judge"])
    /\ UNCHANGED <<navigation, category, tags>>
AdvisoryXactLock(r) ==
    /\ Doing(r, "reparent") /\ advisory = Nothing
    /\ advisory' = r
    /\ Turn(r, [edit[r] EXCEPT !.op = "judge"])
    /\ UNCHANGED <<navigation, category, tags>>
Reparent(r) ==
    /\ Doing(r, "judge")
    /\ CheckReparent(edit[r].child, edit[r].parent)
    /\ Turn(r, [edit[r] EXCEPT !.op = "place"])
    /\ UNCHANGED <<navigation, catalogue>>
\* A child deleted meanwhile changes no row; a parent deleted fails.
SetCategoryParent(c, parent) ==
    /\ parent \in There(category) \cup {Top}
    /\ category' = IF Is(category[c]) THEN [category EXCEPT ![c] = parent] ELSE category
ReparentCommit(r) ==
    /\ Doing(r, "place")
    /\ SetCategoryParent(edit[r].child, edit[r].parent)
    /\ advisory' = Nothing
    /\ Over(r)
    /\ UNCHANGED <<navigation, tags>>

\* The product and its categories are one transaction: its row is locked.
Saving(p) == \E r \in Edits : Doing(r, "tag") /\ edit[r].product = p
ProductSave(r) == \E p \in There(tags) \cup New(tags), cs \in SUBSET Categories :
    /\ Doing(r, "new") /\ ~Saving(p) /\ cs \subseteq There(category)
    /\ Turn(r, [op |-> "tag", product |-> p, tags |-> cs])
    /\ UNCHANGED <<navigation, catalogue>>
AddProductCategories(p, cs) ==
    cs \subseteq There(category) /\ tags' = [tags EXCEPT ![p] = cs]
setProductCategories(r) ==
    /\ Doing(r, "tag")
    /\ AddProductCategories(edit[r].product, edit[r].tags)
    /\ Over(r)
    /\ UNCHANGED <<navigation, category, advisory>>
DeleteProduct(r) == \E p \in There(tags) :
    /\ Doing(r, "new") /\ ~Saving(p)
    /\ tags' = [tags EXCEPT ![p] = Gone]
    /\ Over(r)
    /\ UNCHANGED <<navigation, category, advisory>>

-----------------------------------------------------------------------------
NavigationNext == \E r \in Edits :
    \/ Fails(r)
    \/ CreatePage(r) \/ UpdatePage(r) \/ PagePublish(r) \/ SetPageStatus(r)
    \/ PageDelete(r) \/ LiftMenuChildren(r) \/ DeleteMenusFor(r)
    \/ MenuCreate(r) \/ MenuUpdate(r) \/ UpdateMenuItem(r) \/ MenuDelete(r)
    \/ CategoryCreate(r) \/ CategoryDelete(r)
    \/ CategoryReparent(r) \/ AdvisoryXactLock(r) \/ Reparent(r) \/ ReparentCommit(r)
    \/ ProductSave(r) \/ setProductCategories(r) \/ DeleteProduct(r)

NavigationSpec == NavigationInit /\ [][NavigationNext]_navigationVars

-----------------------------------------------------------------------------
(* Properties                                                                *)

\* Categories stay a forest, and the rows what their keys say.  "두 요청이 각각 합법인
\* 이동을 동시에 하면 합쳐서 고리가 된다" (commerce/store.go): the lock is what lets the second
\* move see the first, where the check alone judges a tree that is no more.
CategoriesAcyclic ==
    /\ NavigationTypeOK
    /\ Forest(categoryParents)

\* An entry that hung under one of a deleted page's entries stays in the menu, in its
\* grandparent's place, unless it or an entry above that place goes with the page too:
\* "함께 지우면 상관없는 메뉴까지 사라진다" (content/store.go).  Between the lift and the deletion
\* other editors create, move and delete entries.
Spared(r, e) ==
    LET gone == Pointing(edit[r].page)
    IN  Is(menu[e]) /\ e \notin WithChildren(Lifted(r), gone)
DeletionSparesMenus ==
    [][\A r \in Edits : Doing(r, "lifted") /\ page[edit[r].page] # page'[edit[r].page] /\ page'[edit[r].page] = Gone =>
         \A e \in DOMAIN edit[r].lift : Spared(r, e) =>
            Is(menu'[e]) /\ menu'[e].parent = edit[r].lift[e]]_navigationVars
=================================================================================

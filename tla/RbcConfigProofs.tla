--------------------------- MODULE RbcConfigProofs ---------------------------
(***************************************************************************)
(* Proofs about the configuration file, for every set of tools, errors,    *)
(* files and arguments, every sequence of runs of robo_config and every    *)
(* number of crashes.                                                      *)
(***************************************************************************)
EXTENDS RbcConfig, WellFoundedInduction, TLAPS

Element(K) == [lead : BOOLEAN, kids : Seq(K), count : Nat]

ToolNode == [name : Tool, lead : BOOLEAN, params : Element(Argument), errs : Element(ErrId)]

InputNode == [tag : {"static", "dynamic"}, value : Executable \cup {None},
              body : Element(Source \cup Argument)]

Document == [tools : Element(Tool), installed : Element(ToolNode),
             input : Element(InputNode), errors : [ErrId -> Element(Detail)],
             load : BOOLEAN]

Request == [created : SUBSET Tool, tools : Seq(Tool), files : Seq(Source),
            args : Seq(Argument), exec : Executable \cup {None}, load : BOOLEAN,
            errs : [Tool -> SUBSET ErrId], params : [Tool -> Seq(Argument)],
            details : [ErrId -> Detail \cup {None}]]

-----------------------------------------------------------------------------
(* Elements *)

\* The count attribute is the number of children.
Counted(e) == e.count = Len(e.kids)

LEMMA EmptyElement ==
  ASSUME NEW K, NEW b \in BOOLEAN
  PROVE  /\ Empty(b) \in Element(K)
         /\ Empty(b).kids = <<>> /\ Empty(b).count = 0 /\ Empty(b).lead = b
         /\ Counted(Empty(b))
  BY DEF Empty, Element, Counted

LEMMA AddedChild ==
  ASSUME NEW K, NEW e \in Element(K), NEW kid \in K
  PROVE  /\ AddChild(e, kid) \in Element(K)
         /\ AddChild(e, kid).kids = Append(e.kids, kid)
         /\ AddChild(e, kid).lead = e.lead
         /\ Counted(e) => Counted(AddChild(e, kid))
  <1>1. e.kids \in Seq(K) /\ e.count \in Nat /\ e.lead \in BOOLEAN
    BY DEF Element
  <1>2. /\ AddChild(e, kid).kids = Append(e.kids, kid)
        /\ AddChild(e, kid).count = e.count + 1
    BY DEF AddChild, Element
  <1>3. AddChild(e, kid).lead = e.lead
    BY DEF AddChild, Element
  <1>4. Append(e.kids, kid) \in Seq(K) /\ e.count + 1 \in Nat
    BY <1>1
  <1>5. AddChild(e, kid) \in Element(K)
    BY <1>1, <1>4 DEF AddChild, Element
  <1> QED  BY <1>1, <1>2, <1>3, <1>5 DEF Counted

LEMMA IndentedElement ==
  ASSUME NEW K, NEW e \in Element(K)
  PROVE  /\ Indent(e) \in Element(K)
         /\ Indent(e).kids = e.kids
         /\ Indent(e).count = e.count
         /\ e.lead => Indent(e).lead
         /\ e.kids # <<>> => Indent(e).lead
         /\ Counted(e) => Counted(Indent(e))
  BY DEF Indent, Element, Counted

\* get_next_node's first step does not skip a child where there is white space.
Shows(e) == e.kids # <<>> => e.lead

LEMMA ShownElement ==
  ASSUME NEW K, NEW e \in Element(K), Shows(e)
  PROVE  /\ Seen(e) = 1..Len(e.kids)
         /\ Counted(e) => ReadAll(e) = e.kids
  <1>1. Seen(e) = 1..Len(e.kids)
    BY DEF Seen, Shows, Element
  <1>2. ASSUME Counted(e) PROVE ReadAll(e) = e.kids
    <2>1. e.kids \in Seq(K) /\ e.count = Len(e.kids)
      BY <1>2 DEF Element, Counted
    <2>2. CASE e.kids = <<>>
      BY <2>1, <2>2 DEF ReadAll
    <2>3. CASE e.lead
      BY <2>1, <2>3 DEF ReadAll
    <2> QED  BY <2>2, <2>3 DEF Shows
  <1> QED  BY <1>1, <1>2

\* A set of natural numbers that has a member has a least one.
LEMMA LeastMember ==
  ASSUME NEW hits \in SUBSET Nat, hits # {}
  PROVE  \E k \in hits : \A j \in hits : k <= j
  <1> DEFINE R == {ss \in Nat \X Nat : ss[1] < ss[2]}
  <1>1. IsWellFoundedOn(R, Nat)
    BY NatLessThanWellFounded DEF OpToRel
  <1> HIDE DEF R
  <1>2. PICK k \in hits : \A j \in hits : <<j, k>> \notin R
    BY <1>1, WFMin
  <1>3. ASSUME NEW j \in hits PROVE k <= j
    <2>1. ~(j < k)
      BY <1>2 DEF R
    <2> QED  BY <2>1
  <1> QED  BY <1>3

LEMMA LookupNode ==
  ASSUME NEW hits \in SUBSET (Nat \ {0})
  PROVE  /\ lookup_node(hits) = 0 <=> hits = {}
         /\ lookup_node(hits) # 0 => /\ lookup_node(hits) \in hits
                                     /\ \A j \in hits : lookup_node(hits) <= j
  <1>1. CASE hits = {}
    BY <1>1 DEF lookup_node
  <1>2. CASE hits # {}
    <2>1. \E k \in hits : \A j \in hits : k <= j
      BY <1>2, LeastMember
    <2>2. /\ lookup_node(hits) \in hits
          /\ \A j \in hits : lookup_node(hits) <= j
      BY <2>1, <1>2 DEF lookup_node
    <2> QED  BY <1>2, <2>2
  <1> QED  BY <1>1, <1>2

-----------------------------------------------------------------------------
(* What is true of a document *)

\* The tools to run are counted, seen and installed.
ToolsSound(tools, installed) ==
  /\ Counted(tools) /\ tools.lead /\ installed.lead
  /\ \A k \in 1..Len(tools.kids) :
       \E j \in 1..Len(installed.kids) : installed.kids[j].name = tools.kids[k]

NodesSound(installed) ==
  \A k \in 1..Len(installed.kids) :
    Counted(installed.kids[k].errs) /\ Counted(installed.kids[k].params)

InputSound(input) == \A k \in 1..Len(input.kids) : Counted(input.kids[k].body)

Sound(d) == /\ d \in Document
            /\ ToolsSound(d.tools, d.installed)
            /\ NodesSound(d.installed)
            /\ InputSound(d.input)

Tagged(input, tag) == {k \in 1..Len(input.kids) : input.kids[k].tag = tag}
Named(installed, t) == {k \in 1..Len(installed.kids) : installed.kids[k].name = t}

\* A document holds what a request asks for, somewhere.
HoldsInput(input, tag, f) ==
  \E k \in 1..Len(input.kids) : /\ input.kids[k].tag = tag
                                /\ \E j \in 1..Len(input.kids[k].body.kids) :
                                     input.kids[k].body.kids[j] = f

HoldsTool(tools, t) == \E j \in 1..Len(tools.kids) : tools.kids[j] = t

HoldsError(installed, t, id) ==
  \E k \in 1..Len(installed.kids) : /\ installed.kids[k].name = t
                                    /\ \E j \in 1..Len(installed.kids[k].errs.kids) :
                                         installed.kids[k].errs.kids[j] = id

KeepsFiles(input, files) == \A k \in 1..Len(files) : HoldsInput(input, "static", files[k])
KeepsArgs(input, args) == \A k \in 1..Len(args) : HoldsInput(input, "dynamic", args[k])
KeepsExec(input, exec) == exec # None => Tagged(input, "dynamic") # {}
KeepsTools(tools, names) == \A k \in 1..Len(names) : HoldsTool(tools, names[k])
KeepsErrors(installed, errs) ==
  \A t \in Tool : \A id \in errs[t] : HoldsError(installed, t, id)

KeepsCreated(installed, created) == \A t \in created : Named(installed, t) # {}
KeepsDetails(errors, details) ==
  \A id \in ErrId : details[id] # None => errors[id].kids # <<>>

Keeps(d, w) == /\ KeepsFiles(d.input, w.files)
               /\ KeepsArgs(d.input, w.args)
               /\ KeepsExec(d.input, w.exec)
               /\ KeepsTools(d.tools, w.tools)
               /\ KeepsErrors(d.installed, w.errs)
               /\ KeepsCreated(d.installed, w.created)
               /\ KeepsDetails(d.errors, w.details)

\* A document holds what a request asks for and nothing else, each thing in
\* the place where it is looked for.
MeansStatic(input, files) ==
  \/ Tagged(input, "static") = {} /\ files = <<>>
  \/ \E k \in 1..Len(input.kids) : /\ Tagged(input, "static") = {k}
                                   /\ input.kids[k].body.kids = files
                                   /\ files # <<>>

MeansDynamic(input, exec, args) ==
  \/ Tagged(input, "dynamic") = {} /\ exec = None /\ args = <<>>
  \/ \E k \in 1..Len(input.kids) : /\ Tagged(input, "dynamic") = {k}
                                   /\ input.kids[k].value = exec
                                   /\ input.kids[k].body.kids = args
                                   /\ exec # None

Members(s) == {s[k] : k \in 1..Len(s)}

MeansErrors(installed, created, errs) ==
  \A t \in Tool :
    \/ t \notin created /\ errs[t] = {} /\ Named(installed, t) = {}
    \/ /\ t \in created
       /\ \E k \in Named(installed, t) :
            /\ \A j \in Named(installed, t) : k <= j
            /\ Members(installed.kids[k].errs.kids) = errs[t]

MeansDetails(errors, details) ==
  \A id \in ErrId :
    errors[id].kids = IF details[id] = None THEN <<>> ELSE <<details[id]>>

Means(d, w) == /\ d.tools.kids = w.tools
               /\ MeansStatic(d.input, w.files)
               /\ MeansDynamic(d.input, w.exec, w.args)
               /\ MeansErrors(d.installed, w.created, w.errs)
               /\ MeansDetails(d.errors, w.details)
               /\ d.load <=> w.load

\* Nothing is hidden.
InputShown(input) == /\ Shows(input)
                     /\ \A k \in 1..Len(input.kids) : Shows(input.kids[k].body)
NodesShown(installed) ==
  \A k \in 1..Len(installed.kids) :
    /\ installed.kids[k].lead
    /\ Shows(installed.kids[k].errs) /\ Shows(installed.kids[k].params)
DetailsShown(errors) == \A id \in ErrId : Shows(errors[id])
Pretty(d) == InputShown(d.input) /\ NodesShown(d.installed) /\ DetailsShown(d.errors)

-----------------------------------------------------------------------------
(* The fields of a document *)

LEMMA Fields ==
  ASSUME NEW d \in Document
  PROVE  /\ d.tools \in Element(Tool) /\ d.installed \in Element(ToolNode)
         /\ d.input \in Element(InputNode) /\ d.errors \in [ErrId -> Element(Detail)]
         /\ d.load \in BOOLEAN
  BY DEF Document

LEMMA ChangeTools ==
  ASSUME NEW d \in Document, NEW x \in Element(Tool)
  PROVE  LET n == [d EXCEPT !.tools = x]
         IN  /\ n \in Document /\ n.tools = x
             /\ n.installed = d.installed /\ n.input = d.input
             /\ n.errors = d.errors /\ n.load = d.load
  BY DEF Document

LEMMA ChangeInstalled ==
  ASSUME NEW d \in Document, NEW x \in Element(ToolNode)
  PROVE  LET n == [d EXCEPT !.installed = x]
         IN  /\ n \in Document /\ n.installed = x
             /\ n.tools = d.tools /\ n.input = d.input
             /\ n.errors = d.errors /\ n.load = d.load
  BY DEF Document

LEMMA ChangeInput ==
  ASSUME NEW d \in Document, NEW x \in Element(InputNode)
  PROVE  LET n == [d EXCEPT !.input = x]
         IN  /\ n \in Document /\ n.input = x
             /\ n.tools = d.tools /\ n.installed = d.installed
             /\ n.errors = d.errors /\ n.load = d.load
  BY DEF Document

LEMMA ChangeErrors ==
  ASSUME NEW d \in Document, NEW x \in [ErrId -> Element(Detail)]
  PROVE  LET n == [d EXCEPT !.errors = x]
         IN  /\ n \in Document /\ n.errors = x
             /\ n.tools = d.tools /\ n.installed = d.installed
             /\ n.input = d.input /\ n.load = d.load
  BY DEF Document

LEMMA ChangeLoad ==
  ASSUME NEW d \in Document, NEW x \in BOOLEAN
  PROVE  LET n == [d EXCEPT !.load = x]
         IN  /\ n \in Document /\ n.load = x
             /\ n.tools = d.tools /\ n.installed = d.installed
             /\ n.input = d.input /\ n.errors = d.errors
  BY DEF Document

-----------------------------------------------------------------------------
(* What one operation does *)

\* A sound document becomes a sound one that holds what it held and what is
\* asked for now; where nothing was hidden it holds nothing else.
Edited(d, w, doc, wish) ==
  /\ Sound(doc) /\ wish \in Request
  /\ Keeps(d, w) => Keeps(doc, w) /\ Keeps(doc, wish)
  /\ Means(d, w) /\ Pretty(d) => Means(doc, wish)

LEMMA Unedited ==
  ASSUME NEW d, NEW w \in Request, Sound(d)
  PROVE  Edited(d, w, d, w)
  BY DEF Edited

LEMMA ToolLookup ==
  ASSUME NEW d, NEW t \in Tool, Sound(d)
  PROVE  /\ ToolAt(d, t) = 0 <=> Named(d.installed, t) = {}
         /\ ToolAt(d, t) # 0 => /\ ToolAt(d, t) \in Named(d.installed, t)
                                /\ \A j \in Named(d.installed, t) : ToolAt(d, t) <= j
  <1>1. d.installed \in Element(ToolNode) /\ d.installed.lead
    BY Fields DEF Sound, ToolsSound
  <1>2. Seen(d.installed) = 1..Len(d.installed.kids)
    BY <1>1, ShownElement DEF Shows
  <1>3. ToolAt(d, t) = lookup_node(Named(d.installed, t))
    BY <1>2 DEF ToolAt, Named
  <1>4. Named(d.installed, t) \in SUBSET (Nat \ {0})
    BY <1>1 DEF Named, Element
  <1> QED  BY <1>3, <1>4, LookupNode

\* register_tool for a tool that is installed
ToolRegistered(d, t) == [d EXCEPT !.tools = AddChild(@, t)]
ToolWanted(w, t) == [w EXCEPT !.tools = Append(@, t)]

LEMMA WantTool ==
  ASSUME NEW w \in Request, NEW t \in Tool
  PROVE  /\ ToolWanted(w, t) \in Request
         /\ ToolWanted(w, t).tools = Append(w.tools, t)
         /\ w.tools \in Seq(Tool)
         /\ ToolWanted(w, t).files = w.files /\ ToolWanted(w, t).args = w.args
         /\ ToolWanted(w, t).exec = w.exec /\ ToolWanted(w, t).load = w.load
         /\ ToolWanted(w, t).created = w.created /\ ToolWanted(w, t).errs = w.errs
         /\ ToolWanted(w, t).details = w.details
  <1>1. w.tools \in Seq(Tool)
    BY DEF Request
  <1>2. Append(w.tools, t) \in Seq(Tool)
    BY <1>1
  <1> QED  BY <1>1, <1>2 DEF ToolWanted, Request

LEMMA EditTools ==
  ASSUME NEW d, NEW w \in Request, NEW t \in Tool, Sound(d), ToolAt(d, t) # 0
  PROVE  Edited(d, w, ToolRegistered(d, t), ToolWanted(w, t))
  <1> DEFINE n == ToolRegistered(d, t)
             u == ToolWanted(w, t)
             e == AddChild(d.tools, t)
  <1>1. d \in Document /\ d.tools \in Element(Tool)
    BY Fields DEF Sound
  <1>2. /\ e \in Element(Tool)
        /\ e.kids = Append(d.tools.kids, t)
        /\ e.lead = d.tools.lead
        /\ Counted(d.tools) => Counted(e)
    BY <1>1, AddedChild
  <1>3. /\ n \in Document /\ n.tools = e /\ n.installed = d.installed
        /\ n.input = d.input /\ n.errors = d.errors /\ n.load = d.load
    BY <1>1, <1>2, ChangeTools DEF ToolRegistered
  <1>4. /\ u \in Request /\ u.tools = Append(w.tools, t) /\ w.tools \in Seq(Tool)
        /\ u.files = w.files /\ u.args = w.args /\ u.exec = w.exec /\ u.load = w.load
        /\ u.created = w.created /\ u.errs = w.errs /\ u.details = w.details
    BY WantTool
  <1>5. d.tools.kids \in Seq(Tool)
    BY <1>1 DEF Element
  <1> HIDE DEF n, u, e
  <1>6. ToolsSound(e, d.installed)
    <2>1. PICK j \in 1..Len(d.installed.kids) : d.installed.kids[j].name = t
      BY ToolLookup DEF Named
    <2>2. ASSUME NEW k \in 1..Len(e.kids)
          PROVE  \E i \in 1..Len(d.installed.kids) : d.installed.kids[i].name = e.kids[k]
      <3>1. CASE k \in 1..Len(d.tools.kids)
        BY <3>1, <1>2, <1>5 DEF Sound, ToolsSound
      <3>2. CASE k = Len(d.tools.kids) + 1
        BY <3>2, <1>2, <1>5, <2>1
      <3> QED  BY <1>2, <1>5, <3>1, <3>2
    <2> QED  BY <1>2, <2>2 DEF Sound, ToolsSound
  <1>7. Sound(n)
    BY <1>3, <1>6 DEF Sound
  <1>8. ASSUME Keeps(d, w) PROVE KeepsTools(e, u.tools) /\ KeepsTools(e, w.tools)
    <2>1. ASSUME NEW x \in Tool, HoldsTool(d.tools, x) PROVE HoldsTool(e, x)
      BY <2>1, <1>2, <1>5 DEF HoldsTool
    <2>2. HoldsTool(e, t)
      BY <1>2, <1>5 DEF HoldsTool
    <2>3. \A k \in 1..Len(w.tools) : HoldsTool(e, w.tools[k])
      BY <1>4, <1>8, <2>1 DEF Keeps, KeepsTools
    <2> QED  BY <1>4, <2>2, <2>3 DEF KeepsTools
  <1>9. Keeps(d, w) => Keeps(n, w) /\ Keeps(n, u)
    BY <1>3, <1>4, <1>8 DEF Keeps
  <1>10. Means(d, w) => Means(n, u)
    BY <1>2, <1>3, <1>4 DEF Means
  <1> QED  BY <1>4, <1>7, <1>9, <1>10 DEF Edited, n, u

\* create_tool
ToolCreated(d, t) == [d EXCEPT !.installed = AddChild(@, NewTool(t))]
ToolMade(w, t) == [w EXCEPT !.created = @ \cup {t}]

LEMMA MakeTool ==
  ASSUME NEW w \in Request, NEW t \in Tool
  PROVE  /\ ToolMade(w, t) \in Request
         /\ ToolMade(w, t).created = w.created \cup {t}
         /\ ToolMade(w, t).tools = w.tools
         /\ ToolMade(w, t).files = w.files /\ ToolMade(w, t).args = w.args
         /\ ToolMade(w, t).exec = w.exec /\ ToolMade(w, t).load = w.load
         /\ ToolMade(w, t).errs = w.errs /\ ToolMade(w, t).details = w.details
  BY DEF ToolMade, Request

LEMMA NewToolNode ==
  ASSUME NEW t \in Tool
  PROVE  /\ NewTool(t) \in ToolNode /\ NewTool(t).name = t
         /\ NewTool(t).errs.kids = <<>>
         /\ Counted(NewTool(t).errs) /\ Counted(NewTool(t).params)
  <1>1. /\ Empty(FALSE) \in Element(Argument) /\ Empty(FALSE) \in Element(ErrId)
        /\ Empty(FALSE).kids = <<>> /\ Counted(Empty(FALSE))
    BY EmptyElement
  <1> QED  BY <1>1 DEF NewTool, ToolNode

LEMMA EditInstalled ==
  ASSUME NEW d, NEW w \in Request, NEW t \in Tool, Sound(d)
  PROVE  Edited(d, w, ToolCreated(d, t), ToolMade(w, t))
  <1> DEFINE n == ToolCreated(d, t)
             u == ToolMade(w, t)
             e == AddChild(d.installed, NewTool(t))
             N == Len(d.installed.kids)
  <1>1. d \in Document /\ d.installed \in Element(ToolNode)
    BY Fields DEF Sound
  <1>2. /\ e \in Element(ToolNode)
        /\ e.kids = Append(d.installed.kids, NewTool(t))
        /\ e.lead = d.installed.lead
    BY <1>1, AddedChild, NewToolNode
  <1>3. /\ n \in Document /\ n.installed = e /\ n.tools = d.tools
        /\ n.input = d.input /\ n.errors = d.errors /\ n.load = d.load
    BY <1>1, <1>2, ChangeInstalled DEF ToolCreated
  <1>4. /\ u \in Request /\ u.created = w.created \cup {t} /\ u.tools = w.tools
        /\ u.files = w.files /\ u.args = w.args /\ u.exec = w.exec /\ u.load = w.load
        /\ u.errs = w.errs /\ u.details = w.details
    BY MakeTool
  <1>5. /\ d.installed.kids \in Seq(ToolNode) /\ N \in Nat
        /\ Len(e.kids) = N + 1
        /\ \A k \in 1..N : e.kids[k] = d.installed.kids[k]
        /\ e.kids[N + 1] = NewTool(t)
    BY <1>1, <1>2, NewToolNode DEF Element
  <1> HIDE DEF n, u, e, N
  <1>6. ToolsSound(d.tools, e)
    BY <1>2, <1>5 DEF Sound, ToolsSound, N
  <1>7. NodesSound(e)
    BY <1>5, NewToolNode DEF Sound, NodesSound, N
  <1>8. Sound(n)
    BY <1>3, <1>6, <1>7 DEF Sound
  <1>9. ASSUME NEW x, NEW id, HoldsError(d.installed, x, id) PROVE HoldsError(e, x, id)
    <2>1. PICK k \in 1..N : /\ d.installed.kids[k].name = x
                            /\ \E j \in 1..Len(d.installed.kids[k].errs.kids) :
                                 d.installed.kids[k].errs.kids[j] = id
      BY <1>9 DEF HoldsError, N
    <2>2. k \in 1..Len(e.kids) /\ e.kids[k] = d.installed.kids[k]
      BY <1>5
    <2> QED  BY <2>1, <2>2 DEF HoldsError
  <1>10. Keeps(d, w) => Keeps(n, w) /\ Keeps(n, u)
    <2>1. N + 1 \in Named(e, t)
      BY <1>5, NewToolNode DEF Named
    <2>2. ASSUME NEW x, Named(d.installed, x) # {} PROVE Named(e, x) # {}
      <3>1. PICK k \in 1..N : d.installed.kids[k].name = x
        BY <2>2 DEF Named, N
      <3>2. k \in Named(e, x)
        BY <1>5, <3>1 DEF Named
      <3> QED  BY <3>2
    <2>3. KeepsCreated(d.installed, w.created) =>
            KeepsCreated(e, w.created) /\ KeepsCreated(e, u.created)
      BY <1>4, <2>1, <2>2 DEF KeepsCreated
    <2>4. KeepsErrors(d.installed, w.errs) => KeepsErrors(e, w.errs)
      BY <1>9 DEF KeepsErrors
    <2> QED  BY <1>3, <1>4, <2>3, <2>4 DEF Keeps
  <1>11. ASSUME Means(d, w) PROVE MeansErrors(e, u.created, u.errs)
    <2> SUFFICES ASSUME NEW x \in Tool
                 PROVE  \/ x \notin u.created /\ u.errs[x] = {} /\ Named(e, x) = {}
                        \/ /\ x \in u.created
                           /\ \E k \in Named(e, x) :
                                /\ \A j \in Named(e, x) : k <= j
                                /\ Members(e.kids[k].errs.kids) = u.errs[x]
      BY DEF MeansErrors
    <2>1. Named(e, x) = Named(d.installed, x) \cup (IF x = t THEN {N + 1} ELSE {})
      BY <1>5, NewToolNode DEF Named, N
    <2>2. CASE Named(d.installed, x) # {}
      <3>1. PICK k \in Named(d.installed, x) :
              /\ \A j \in Named(d.installed, x) : k <= j
              /\ Members(d.installed.kids[k].errs.kids) = w.errs[x]
        BY <1>11, <2>2 DEF Means, MeansErrors
      <3>2. x \in w.created
        BY <1>11, <2>2 DEF Means, MeansErrors
      <3>3. k \in 1..N
        BY DEF Named, N
      <3>4. \A j \in Named(e, x) : k <= j
        BY <2>1, <3>1, <3>3, <1>5
      <3>5. Members(e.kids[k].errs.kids) = u.errs[x]
        BY <3>1, <3>3, <1>4, <1>5
      <3> QED  BY <2>1, <3>2, <3>4, <3>5, <1>4
    <2>3. CASE Named(d.installed, x) = {} /\ x # t
      BY <2>1, <2>3, <1>4, <1>11 DEF Means, MeansErrors
    <2>4. CASE Named(d.installed, x) = {} /\ x = t
      <3>1. Named(e, x) = {N + 1} /\ w.errs[x] = {}
        BY <2>1, <2>4, <1>11 DEF Means, MeansErrors
      <3>2. Members(e.kids[N + 1].errs.kids) = {}
        BY <1>5, NewToolNode DEF Members
      <3>3. \A j \in Named(e, x) : N + 1 <= j
        BY <3>1, <1>5
      <3> QED  BY <3>1, <3>2, <3>3, <2>4, <1>4
    <2> QED  BY <2>2, <2>3, <2>4
  <1>12. Means(d, w) => Means(n, u)
    BY <1>3, <1>4, <1>11 DEF Means
  <1> QED  BY <1>4, <1>8, <1>10, <1>12 DEF Edited, n, u

\* register_error for a tool that is installed, at position k
ErrorRegistered(d, k, id) == [d EXCEPT !.installed.kids[k].errs = AddChild(@, id)]
ErrorWanted(w, t, id) == [w EXCEPT !.errs[t] = @ \cup {id}]

LEMMA WantError ==
  ASSUME NEW w \in Request, NEW t \in Tool, NEW id \in ErrId
  PROVE  /\ ErrorWanted(w, t, id) \in Request
         /\ ErrorWanted(w, t, id).errs[t] = w.errs[t] \cup {id}
         /\ \A x \in Tool \ {t} : ErrorWanted(w, t, id).errs[x] = w.errs[x]
         /\ ErrorWanted(w, t, id).created = w.created
         /\ ErrorWanted(w, t, id).tools = w.tools
         /\ ErrorWanted(w, t, id).files = w.files /\ ErrorWanted(w, t, id).args = w.args
         /\ ErrorWanted(w, t, id).exec = w.exec /\ ErrorWanted(w, t, id).load = w.load
         /\ ErrorWanted(w, t, id).details = w.details
  BY DEF ErrorWanted, Request

\* A tool node with one more error.
NodeWith(node, id) == [node EXCEPT !.errs = AddChild(@, id)]

LEMMA NodeGetsError ==
  ASSUME NEW node \in ToolNode, NEW id \in ErrId
  PROVE  /\ NodeWith(node, id) \in ToolNode
         /\ NodeWith(node, id).name = node.name
         /\ NodeWith(node, id).params = node.params
         /\ NodeWith(node, id).errs.kids = Append(node.errs.kids, id)
         /\ node.errs.kids \in Seq(ErrId)
         /\ Counted(node.errs) => Counted(NodeWith(node, id).errs)
  <1>1. node.errs \in Element(ErrId)
    BY DEF ToolNode
  <1>2. /\ AddChild(node.errs, id) \in Element(ErrId)
        /\ AddChild(node.errs, id).kids = Append(node.errs.kids, id)
        /\ Counted(node.errs) => Counted(AddChild(node.errs, id))
    BY <1>1, AddedChild
  <1>3. NodeWith(node, id).errs = AddChild(node.errs, id)
    BY DEF NodeWith, ToolNode
  <1>4. NodeWith(node, id) \in ToolNode
    BY <1>2 DEF NodeWith, ToolNode
  <1>5. node.errs.kids \in Seq(ErrId)
    BY <1>1 DEF Element
  <1>6. NodeWith(node, id).name = node.name /\ NodeWith(node, id).params = node.params
    BY DEF NodeWith, ToolNode
  <1> QED  BY <1>2, <1>3, <1>4, <1>5, <1>6

\* An element with one child replaced.
WithKid(e, k, kid) == [e EXCEPT !.kids[k] = kid]

LEMMA ReplacedKid ==
  ASSUME NEW K, NEW e \in Element(K), NEW k \in 1..Len(e.kids), NEW kid \in K
  PROVE  /\ WithKid(e, k, kid) \in Element(K)
         /\ WithKid(e, k, kid).lead = e.lead /\ WithKid(e, k, kid).count = e.count
         /\ Len(WithKid(e, k, kid).kids) = Len(e.kids)
         /\ WithKid(e, k, kid).kids[k] = kid
         /\ \A j \in 1..Len(e.kids) : j # k => WithKid(e, k, kid).kids[j] = e.kids[j]
  <1>1. e.kids \in Seq(K)
    BY DEF Element
  <1>2. WithKid(e, k, kid).kids = [e.kids EXCEPT ![k] = kid]
    BY DEF WithKid, Element
  <1>3. /\ [e.kids EXCEPT ![k] = kid] \in Seq(K)
        /\ Len([e.kids EXCEPT ![k] = kid]) = Len(e.kids)
    BY <1>1
  <1>4. WithKid(e, k, kid) \in Element(K)
    BY <1>3 DEF WithKid, Element
  <1>5. WithKid(e, k, kid).lead = e.lead /\ WithKid(e, k, kid).count = e.count
    BY DEF WithKid, Element
  <1> QED  BY <1>1, <1>2, <1>3, <1>4, <1>5

LEMMA ErrorRegisteredAs ==
  ASSUME NEW d \in Document, NEW k \in 1..Len(d.installed.kids), NEW id \in ErrId
  PROVE  ErrorRegistered(d, k, id) =
           [d EXCEPT !.installed = WithKid(d.installed, k, NodeWith(d.installed.kids[k], id))]
  BY DEF ErrorRegistered, WithKid, NodeWith

LEMMA AppendedMember ==
  ASSUME NEW K, NEW s \in Seq(K), NEW x \in K
  PROVE  /\ Len(Append(s, x)) = Len(s) + 1 /\ Len(s) \in Nat
         /\ \A j \in 1..Len(s) : Append(s, x)[j] = s[j]
         /\ Append(s, x)[Len(s) + 1] = x
         /\ Members(Append(s, x)) = Members(s) \cup {x}
  <1>1. /\ Len(Append(s, x)) = Len(s) + 1 /\ Len(s) \in Nat
        /\ \A j \in 1..Len(s) : Append(s, x)[j] = s[j]
        /\ Append(s, x)[Len(s) + 1] = x
    OBVIOUS
  <1>2. 1..(Len(s) + 1) = (1..Len(s)) \cup {Len(s) + 1}
    BY <1>1
  <1> DEFINE r == Append(s, x)
  <1> HIDE DEF r
  <1>3. Members(r) = Members(s) \cup {x}
    <2>1. ASSUME NEW y \in Members(r) PROVE y \in Members(s) \cup {x}
      <3>1. PICK j \in 1..Len(r) : y = r[j]
        BY DEF Members
      <3> QED  BY <1>1, <1>2, <3>1 DEF Members, r
    <2>2. ASSUME NEW y \in Members(s) PROVE y \in Members(r)
      <3>1. PICK j \in 1..Len(s) : y = s[j]
        BY DEF Members
      <3>2. j \in 1..Len(r) /\ r[j] = y
        BY <1>1, <1>2, <3>1 DEF r
      <3> QED  BY <3>2 DEF Members
    <2>3. x \in Members(r)
      <3>1. Len(s) + 1 \in 1..Len(r) /\ r[Len(s) + 1] = x
        BY <1>1 DEF r
      <3> QED  BY <3>1 DEF Members
    <2> QED  BY <2>1, <2>2, <2>3
  <1> QED  BY <1>1, <1>3 DEF r

LEMMA EditErrors ==
  ASSUME NEW d, NEW w \in Request, NEW t \in Tool, NEW id \in ErrId,
         Sound(d), ToolAt(d, t) # 0
  PROVE  Edited(d, w, ErrorRegistered(d, ToolAt(d, t), id), ErrorWanted(w, t, id))
  <1> DEFINE p == ToolAt(d, t)
             n == ErrorRegistered(d, p, id)
             u == ErrorWanted(w, t, id)
             old == d.installed.kids[p]
             e == WithKid(d.installed, p, NodeWith(old, id))
             N == Len(d.installed.kids)
  <1>1. /\ d \in Document /\ d.installed \in Element(ToolNode)
        /\ d.installed.kids \in Seq(ToolNode)
    BY Fields DEF Sound, Element
  <1>2. p \in Named(d.installed, t) /\ \A j \in Named(d.installed, t) : p <= j
    BY ToolLookup
  <1>3. p \in 1..N /\ old.name = t /\ old \in ToolNode
    BY <1>1, <1>2 DEF Named
  <1>4. /\ NodeWith(old, id) \in ToolNode /\ NodeWith(old, id).name = t
        /\ NodeWith(old, id).params = old.params
        /\ NodeWith(old, id).errs.kids = Append(old.errs.kids, id)
        /\ old.errs.kids \in Seq(ErrId)
        /\ Counted(old.errs) => Counted(NodeWith(old, id).errs)
    BY <1>3, NodeGetsError
  <1>5. /\ e \in Element(ToolNode) /\ e.lead = d.installed.lead
        /\ Len(e.kids) = N
        /\ e.kids[p] = NodeWith(old, id)
        /\ \A j \in 1..N : j # p => e.kids[j] = d.installed.kids[j]
    BY <1>1, <1>3, <1>4, ReplacedKid
  <1>6. n = [d EXCEPT !.installed = e]
    BY <1>1, <1>3, ErrorRegisteredAs
  <1>7. /\ n \in Document /\ n.installed = e /\ n.tools = d.tools
        /\ n.input = d.input /\ n.errors = d.errors /\ n.load = d.load
    BY <1>1, <1>5, <1>6, ChangeInstalled
  <1>8. /\ u \in Request /\ u.created = w.created /\ u.tools = w.tools
        /\ u.files = w.files /\ u.args = w.args /\ u.exec = w.exec /\ u.load = w.load
        /\ u.details = w.details
        /\ u.errs[t] = w.errs[t] \cup {id} /\ \A x \in Tool \ {t} : u.errs[x] = w.errs[x]
    BY WantError
  <1> HIDE DEF n, u, e, N, old, p
  <1>9. \A j \in 1..N : e.kids[j].name = d.installed.kids[j].name
    BY <1>3, <1>4, <1>5 DEF old
  <1>10. ToolsSound(d.tools, e)
    BY <1>5, <1>9 DEF Sound, ToolsSound, N
  <1>11. NodesSound(e)
    BY <1>3, <1>4, <1>5 DEF Sound, NodesSound, N, old
  <1>12. Sound(n)
    BY <1>7, <1>10, <1>11 DEF Sound
  <1>13. ASSUME NEW x, NEW y, HoldsError(d.installed, x, y) PROVE HoldsError(e, x, y)
    <2>1. PICK k \in 1..N : /\ d.installed.kids[k].name = x
                            /\ \E j \in 1..Len(d.installed.kids[k].errs.kids) :
                                 d.installed.kids[k].errs.kids[j] = y
      BY <1>13 DEF HoldsError, N
    <2>2. PICK j \in 1..Len(d.installed.kids[k].errs.kids) :
            d.installed.kids[k].errs.kids[j] = y
      BY <2>1
    <2>3. j \in 1..Len(e.kids[k].errs.kids) /\ e.kids[k].errs.kids[j] = y
      <3>1. CASE k = p
        <4>1. e.kids[k].errs.kids = Append(old.errs.kids, id)
          BY <3>1, <1>4, <1>5
        <4>2. j \in 1..Len(old.errs.kids) /\ old.errs.kids[j] = y
          BY <3>1, <2>2 DEF old
        <4> QED  BY <4>1, <4>2, <1>4, AppendedMember
      <3>2. CASE k # p
        BY <3>2, <2>2, <1>5
      <3> QED  BY <3>1, <3>2
    <2> QED  BY <2>1, <2>3, <1>5, <1>9 DEF HoldsError
  <1>14. HoldsError(e, t, id)
    <2>1. /\ Len(old.errs.kids) + 1 \in 1..Len(e.kids[p].errs.kids)
          /\ e.kids[p].errs.kids[Len(old.errs.kids) + 1] = id
      BY <1>4, <1>5
    <2>2. p \in 1..Len(e.kids) /\ e.kids[p].name = t
      BY <1>3, <1>4, <1>5
    <2> QED  BY <2>1, <2>2 DEF HoldsError
  <1>15. Keeps(d, w) => KeepsErrors(e, w.errs) /\ KeepsErrors(e, u.errs)
    <2> SUFFICES ASSUME Keeps(d, w), NEW x \in Tool
                 PROVE  /\ \A y \in w.errs[x] : HoldsError(e, x, y)
                        /\ \A y \in u.errs[x] : HoldsError(e, x, y)
      BY DEF KeepsErrors
    <2>1. \A y \in w.errs[x] : HoldsError(e, x, y)
      BY <1>13 DEF Keeps, KeepsErrors
    <2> QED  BY <2>1, <1>8, <1>14
  <1>16. Keeps(d, w) => Keeps(n, w) /\ Keeps(n, u)
    <2>1. \A x : Named(e, x) = Named(d.installed, x)
      BY <1>5, <1>9 DEF Named, N
    <2>2. KeepsCreated(d.installed, w.created) => KeepsCreated(e, w.created)
      BY <2>1 DEF KeepsCreated
    <2> QED  BY <1>7, <1>8, <1>15, <2>2 DEF Keeps
  <1>17. ASSUME Means(d, w) PROVE MeansErrors(e, u.created, u.errs)
    <2> SUFFICES ASSUME NEW x \in Tool
                 PROVE  \/ x \notin u.created /\ u.errs[x] = {} /\ Named(e, x) = {}
                        \/ /\ x \in u.created
                           /\ \E k \in Named(e, x) :
                                /\ \A j \in Named(e, x) : k <= j
                                /\ Members(e.kids[k].errs.kids) = u.errs[x]
      BY DEF MeansErrors
    <2>1. Named(e, x) = Named(d.installed, x)
      BY <1>5, <1>9 DEF Named, N
    <2>2. CASE x = t
      <3>1. PICK k \in Named(d.installed, t) :
              /\ \A j \in Named(d.installed, t) : k <= j
              /\ Members(d.installed.kids[k].errs.kids) = w.errs[t]
        BY <1>2, <1>17 DEF Means, MeansErrors
      <3>2. k = p
        <4>1. k <= p /\ p <= k /\ k \in Int /\ p \in Int
          BY <1>2, <3>1 DEF Named
        <4> QED  BY <4>1
      <3>3. Members(e.kids[p].errs.kids) = Members(old.errs.kids) \cup {id}
        <4>1. e.kids[p].errs.kids = Append(old.errs.kids, id) /\ old.errs.kids \in Seq(ErrId)
          BY <1>4, <1>5
        <4>2. Members(Append(old.errs.kids, id)) = Members(old.errs.kids) \cup {id}
          BY <4>1, AppendedMember
        <4> QED  BY <4>1, <4>2
      <3>4. Members(e.kids[p].errs.kids) = u.errs[t]
        BY <3>1, <3>2, <3>3, <1>8 DEF old
      <3>5. t \in u.created
        BY <1>2, <1>8, <1>17 DEF Means, MeansErrors
      <3> QED  BY <2>1, <2>2, <3>4, <3>5, <1>2
    <2>3. CASE x # t
      <3>1. \A k \in Named(d.installed, x) : k \in 1..N /\ k # p
        BY <1>3, <2>3 DEF Named, N, old
      <3>2. \A k \in Named(d.installed, x) : e.kids[k] = d.installed.kids[k]
        BY <3>1, <1>5
      <3> QED  BY <2>1, <2>3, <3>2, <1>8, <1>17 DEF Means, MeansErrors
    <2> QED  BY <2>2, <2>3
  <1>18. Means(d, w) => Means(n, u)
    BY <1>7, <1>8, <1>17 DEF Means
  <1> QED  BY <1>8, <1>12, <1>16, <1>18 DEF Edited, n, u, p

LEMMA LengthIsNat ==
  ASSUME NEW K, NEW s \in Seq(K)
  PROVE  Len(s) \in Nat
  OBVIOUS

LEMMA InputLookup ==
  ASSUME NEW d \in Document, NEW tag
  PROVE  /\ InputAt(d, tag) # 0 => InputAt(d, tag) \in Tagged(d.input, tag)
         /\ Shows(d.input) /\ Tagged(d.input, tag) # {} => InputAt(d, tag) # 0
         /\ InputAt(d, tag) # 0 => InputAt(d, tag) \in 1..Len(d.input.kids)
  <1> DEFINE hits == {k \in Seen(d.input) : d.input.kids[k].tag = tag}
  <1>1. d.input \in Element(InputNode)
    BY Fields
  <1>2. hits \in SUBSET (Nat \ {0}) /\ hits \subseteq Tagged(d.input, tag)
    BY <1>1 DEF Seen, Element, Tagged
  <1>3. Shows(d.input) => hits = Tagged(d.input, tag)
    BY <1>1, ShownElement DEF Tagged
  <1>4. InputAt(d, tag) = lookup_node(hits)
    BY DEF InputAt
  <1> HIDE DEF hits
  <1> QED  BY <1>2, <1>3, <1>4, LookupNode DEF Tagged

LEMMA NewInputNode ==
  ASSUME NEW tag \in {"static", "dynamic"}, NEW x \in Executable \cup {None}
  PROVE  /\ NewInput(tag, x) \in InputNode /\ NewInput(tag, x).tag = tag
         /\ NewInput(tag, x).value = x /\ NewInput(tag, x).body.kids = <<>>
         /\ Counted(NewInput(tag, x).body)
  <1>1. /\ Empty(FALSE) \in Element(Source \cup Argument)
        /\ Empty(FALSE).kids = <<>> /\ Counted(Empty(FALSE))
    BY EmptyElement
  <1> QED  BY <1>1 DEF NewInput, InputNode

\* An input node with one more child.
InputWith(node, f) == [node EXCEPT !.body = AddChild(@, f)]

LEMMA InputGetsChild ==
  ASSUME NEW node \in InputNode, NEW f \in Source \cup Argument
  PROVE  /\ InputWith(node, f) \in InputNode
         /\ InputWith(node, f).tag = node.tag /\ InputWith(node, f).value = node.value
         /\ InputWith(node, f).body.kids = Append(node.body.kids, f)
         /\ node.body.kids \in Seq(Source \cup Argument)
         /\ Counted(node.body) => Counted(InputWith(node, f).body)
  <1>1. node.body \in Element(Source \cup Argument)
    BY DEF InputNode
  <1>2. /\ AddChild(node.body, f) \in Element(Source \cup Argument)
        /\ AddChild(node.body, f).kids = Append(node.body.kids, f)
        /\ Counted(node.body) => Counted(AddChild(node.body, f))
    BY <1>1, AddedChild
  <1>3. InputWith(node, f).body = AddChild(node.body, f)
    BY DEF InputWith, InputNode
  <1>4. InputWith(node, f) \in InputNode
    BY <1>2 DEF InputWith, InputNode
  <1>5. node.body.kids \in Seq(Source \cup Argument)
    BY <1>1 DEF Element
  <1>6. InputWith(node, f).tag = node.tag /\ InputWith(node, f).value = node.value
    BY DEF InputWith, InputNode
  <1> QED  BY <1>2, <1>3, <1>4, <1>5, <1>6

\* What the three operations on <input> do to it: one node is added or
\* replaced, and loses none of its children.
InputEdited(old, new) ==
  /\ old \in Element(InputNode) /\ new \in Element(InputNode)
  /\ Len(old.kids) <= Len(new.kids)
  /\ \A k \in 1..Len(old.kids) :
       /\ new.kids[k].tag = old.kids[k].tag
       /\ Len(old.kids[k].body.kids) <= Len(new.kids[k].body.kids)
       /\ \A j \in 1..Len(old.kids[k].body.kids) :
            new.kids[k].body.kids[j] = old.kids[k].body.kids[j]

LEMMA InputKept ==
  ASSUME NEW old, NEW new, InputEdited(old, new), NEW tag, NEW f, HoldsInput(old, tag, f)
  PROVE  HoldsInput(new, tag, f)
  <1>1. PICK k \in 1..Len(old.kids) : /\ old.kids[k].tag = tag
                                      /\ \E j \in 1..Len(old.kids[k].body.kids) :
                                           old.kids[k].body.kids[j] = f
    BY DEF HoldsInput
  <1>2. PICK j \in 1..Len(old.kids[k].body.kids) : old.kids[k].body.kids[j] = f
    BY <1>1
  <1>3. old.kids \in Seq(InputNode) /\ new.kids \in Seq(InputNode)
    BY DEF InputEdited, Element
  <1>4. k \in 1..Len(new.kids) /\ new.kids[k].tag = tag
    BY <1>1, <1>3 DEF InputEdited
  <1>5. old.kids[k] \in InputNode /\ new.kids[k] \in InputNode
    BY <1>3, <1>4
  <1>6. old.kids[k].body.kids \in Seq(Source \cup Argument)
        /\ new.kids[k].body.kids \in Seq(Source \cup Argument)
    BY <1>5 DEF InputNode, Element
  <1>7. j \in 1..Len(new.kids[k].body.kids) /\ new.kids[k].body.kids[j] = f
    <2>1. /\ Len(old.kids[k].body.kids) <= Len(new.kids[k].body.kids)
          /\ new.kids[k].body.kids[j] = old.kids[k].body.kids[j]
      BY <1>2 DEF InputEdited
    <2>2. Len(old.kids[k].body.kids) \in Nat /\ Len(new.kids[k].body.kids) \in Nat
      BY <1>6, LengthIsNat
    <2> QED  BY <1>2, <2>1, <2>2
  <1> QED  BY <1>4, <1>7 DEF HoldsInput

LEMMA InputNodesKept ==
  ASSUME NEW old, NEW new, InputEdited(old, new), NEW tag, Tagged(old, tag) # {}
  PROVE  Tagged(new, tag) # {}
  <1>1. PICK k \in 1..Len(old.kids) : old.kids[k].tag = tag
    BY DEF Tagged
  <1>2. old.kids \in Seq(InputNode) /\ new.kids \in Seq(InputNode)
    BY DEF InputEdited, Element
  <1>3. k \in Tagged(new, tag)
    BY <1>1, <1>2 DEF InputEdited, Tagged
  <1> QED  BY <1>3

LEMMA InputLengths ==
  ASSUME NEW input \in Element(InputNode)
  PROVE  /\ input.kids \in Seq(InputNode) /\ Len(input.kids) \in Nat
         /\ \A k \in 1..Len(input.kids) :
              /\ input.kids[k] \in InputNode
              /\ input.kids[k].body \in Element(Source \cup Argument)
              /\ input.kids[k].body.kids \in Seq(Source \cup Argument)
              /\ Len(input.kids[k].body.kids) \in Nat
  <1>1. input.kids \in Seq(InputNode)
    BY DEF Element
  <1>2. ASSUME NEW k \in 1..Len(input.kids)
        PROVE  /\ input.kids[k] \in InputNode
               /\ input.kids[k].body \in Element(Source \cup Argument)
               /\ input.kids[k].body.kids \in Seq(Source \cup Argument)
               /\ Len(input.kids[k].body.kids) \in Nat
    <2>1. input.kids[k] \in InputNode
      BY <1>1
    <2>2. input.kids[k].body \in Element(Source \cup Argument)
      BY <2>1 DEF InputNode
    <2>3. input.kids[k].body.kids \in Seq(Source \cup Argument)
      BY <2>2 DEF Element
    <2> QED  BY <2>1, <2>2, <2>3, LengthIsNat
  <1>3. Len(input.kids) \in Nat
    BY <1>1, LengthIsNat
  <1> QED  BY <1>1, <1>2, <1>3

LEMMA AddedInput ==
  ASSUME NEW input \in Element(InputNode), NEW node \in InputNode, Counted(node.body)
  PROVE  LET new == AddChild(input, node)
             N == Len(input.kids)
         IN  /\ new \in Element(InputNode) /\ Len(new.kids) = N + 1
             /\ \A k \in 1..N : new.kids[k] = input.kids[k]
             /\ new.kids[N + 1] = node
             /\ InputEdited(input, new)
             /\ InputSound(input) => InputSound(new)
             /\ \A tag : Tagged(new, tag) =
                           Tagged(input, tag) \cup (IF node.tag = tag THEN {N + 1} ELSE {})
  <1> DEFINE new == AddChild(input, node)
             N == Len(input.kids)
  <1>1. input.kids \in Seq(InputNode) /\ N \in Nat
    BY InputLengths
  <1>2. new \in Element(InputNode) /\ new.kids = Append(input.kids, node)
    BY AddedChild
  <1>3. Len(new.kids) = N + 1 /\ new.kids[N + 1] = node
    BY <1>1, <1>2, AppendedMember
  <1>4. \A k \in 1..N : new.kids[k] = input.kids[k]
    BY <1>1, <1>2, AppendedMember
  <1> HIDE DEF new, N
  <1>5. InputEdited(input, new)
    BY <1>1, <1>2, <1>3, <1>4, InputLengths DEF InputEdited, N
  <1>6. InputSound(input) => InputSound(new)
    BY <1>1, <1>3, <1>4 DEF InputSound, N
  <1>7. ASSUME NEW tag
        PROVE  Tagged(new, tag) =
                 Tagged(input, tag) \cup (IF node.tag = tag THEN {N + 1} ELSE {})
    BY <1>1, <1>3, <1>4 DEF Tagged, N
  <1> QED  BY <1>2, <1>3, <1>4, <1>5, <1>6, <1>7 DEF new, N

\* node is old with more children.
Extends(old, node) ==
  /\ node.tag = old.tag
  /\ Len(old.body.kids) <= Len(node.body.kids)
  /\ \A j \in 1..Len(old.body.kids) : node.body.kids[j] = old.body.kids[j]

LEMMA ReplacedInput ==
  ASSUME NEW input \in Element(InputNode), NEW k \in 1..Len(input.kids),
         NEW node \in InputNode, Counted(node.body), Extends(input.kids[k], node)
  PROVE  LET new == WithKid(input, k, node)
         IN  /\ new \in Element(InputNode) /\ Len(new.kids) = Len(input.kids)
             /\ new.kids[k] = node
             /\ \A j \in 1..Len(input.kids) : j # k => new.kids[j] = input.kids[j]
             /\ InputEdited(input, new)
             /\ InputSound(input) => InputSound(new)
             /\ \A tag : Tagged(new, tag) = Tagged(input, tag)
  <1> DEFINE new == WithKid(input, k, node)
  <1>1. /\ new \in Element(InputNode) /\ Len(new.kids) = Len(input.kids)
        /\ new.kids[k] = node
        /\ \A j \in 1..Len(input.kids) : j # k => new.kids[j] = input.kids[j]
    BY ReplacedKid
  <1> HIDE DEF new
  <1>2. InputEdited(input, new)
    <2>1. ASSUME NEW j \in 1..Len(input.kids) PROVE Extends(input.kids[j], new.kids[j])
      <3>1. Len(input.kids[j].body.kids) <= Len(input.kids[j].body.kids)
        BY InputLengths
      <3> QED  BY <1>1, <3>1 DEF Extends
    <2>2. Len(input.kids) <= Len(new.kids)
      BY <1>1, InputLengths
    <2> QED  BY <1>1, <2>1, <2>2 DEF InputEdited, Extends
  <1>3. InputSound(input) => InputSound(new)
    BY <1>1 DEF InputSound
  <1>4. ASSUME NEW tag PROVE Tagged(new, tag) = Tagged(input, tag)
    BY <1>1 DEF Tagged, Extends
  <1> QED  BY <1>1, <1>2, <1>3, <1>4 DEF new

LEMMA InputEditedTwice ==
  ASSUME NEW a, NEW b, NEW c, InputEdited(a, b), InputEdited(b, c)
  PROVE  InputEdited(a, c)
  <1>1. /\ a \in Element(InputNode) /\ b \in Element(InputNode) /\ c \in Element(InputNode)
        /\ Len(a.kids) <= Len(b.kids) /\ Len(b.kids) <= Len(c.kids)
    BY DEF InputEdited
  <1>2. Len(a.kids) \in Nat /\ Len(b.kids) \in Nat /\ Len(c.kids) \in Nat
    BY <1>1, InputLengths
  <1>3. Len(a.kids) <= Len(c.kids)
    BY <1>1, <1>2
  <1>4. ASSUME NEW k \in 1..Len(a.kids)
        PROVE  /\ c.kids[k].tag = a.kids[k].tag
               /\ Len(a.kids[k].body.kids) <= Len(c.kids[k].body.kids)
               /\ \A j \in 1..Len(a.kids[k].body.kids) :
                    c.kids[k].body.kids[j] = a.kids[k].body.kids[j]
    <2>1. k \in 1..Len(b.kids) /\ k \in 1..Len(c.kids)
      BY <1>1, <1>2
    <2>2. /\ Len(a.kids[k].body.kids) \in Nat /\ Len(b.kids[k].body.kids) \in Nat
          /\ Len(c.kids[k].body.kids) \in Nat
      BY <1>1, <2>1, InputLengths
    <2>3. /\ b.kids[k].tag = a.kids[k].tag /\ c.kids[k].tag = b.kids[k].tag
          /\ Len(a.kids[k].body.kids) <= Len(b.kids[k].body.kids)
          /\ Len(b.kids[k].body.kids) <= Len(c.kids[k].body.kids)
          /\ \A j \in 1..Len(a.kids[k].body.kids) :
               b.kids[k].body.kids[j] = a.kids[k].body.kids[j]
          /\ \A j \in 1..Len(b.kids[k].body.kids) :
               c.kids[k].body.kids[j] = b.kids[k].body.kids[j]
      BY <2>1 DEF InputEdited
    <2>4. Len(a.kids[k].body.kids) <= Len(c.kids[k].body.kids)
      <3>1. \A x, y, z \in Nat : x <= y /\ y <= z => x <= z
        OBVIOUS
      <3> QED  BY <3>1, <2>2, <2>3, Zenon
    <2>5. \A j \in 1..Len(a.kids[k].body.kids) : j \in 1..Len(b.kids[k].body.kids)
      <3>1. \A x, y \in Nat : x <= y => \A j \in 1..x : j \in 1..y
        OBVIOUS
      <3> QED  BY <3>1, <2>2, <2>3, Zenon
    <2> QED  BY <2>3, <2>4, <2>5
  <1> QED  BY <1>1, <1>3, <1>4 DEF InputEdited

\* The nodes with this tag have not been touched.
Untouched(old, new, tag) ==
  /\ Tagged(new, tag) = Tagged(old, tag)
  /\ \A k \in Tagged(old, tag) : new.kids[k] = old.kids[k]

LEMMA UntouchedMeaning ==
  ASSUME NEW old, NEW new, NEW files, NEW exec, NEW args
  PROVE  /\ Untouched(old, new, "static") /\ MeansStatic(old, files) => MeansStatic(new, files)
         /\ Untouched(old, new, "dynamic") /\ MeansDynamic(old, exec, args)
              => MeansDynamic(new, exec, args)
  <1>1. ASSUME Untouched(old, new, "static"), MeansStatic(old, files)
        PROVE  MeansStatic(new, files)
    <2>1. CASE Tagged(old, "static") = {}
      BY <1>1, <2>1 DEF MeansStatic, Untouched
    <2>2. CASE Tagged(old, "static") # {}
      <3>1. PICK k \in 1..Len(old.kids) : /\ Tagged(old, "static") = {k}
                                          /\ old.kids[k].body.kids = files
                                          /\ files # <<>>
        BY <1>1, <2>2 DEF MeansStatic
      <3>2. /\ k \in Tagged(new, "static") /\ Tagged(new, "static") = {k}
            /\ new.kids[k] = old.kids[k]
        BY <1>1, <3>1 DEF Untouched
      <3>3. k \in 1..Len(new.kids)
        BY <3>2 DEF Tagged
      <3> QED  BY <3>1, <3>2, <3>3 DEF MeansStatic
    <2> QED  BY <2>1, <2>2
  <1>2. ASSUME Untouched(old, new, "dynamic"), MeansDynamic(old, exec, args)
        PROVE  MeansDynamic(new, exec, args)
    <2>1. CASE Tagged(old, "dynamic") = {}
      BY <1>2, <2>1 DEF MeansDynamic, Untouched
    <2>2. CASE Tagged(old, "dynamic") # {}
      <3>1. PICK k \in 1..Len(old.kids) : /\ Tagged(old, "dynamic") = {k}
                                          /\ old.kids[k].value = exec
                                          /\ old.kids[k].body.kids = args
                                          /\ exec # None
        BY <1>2, <2>2 DEF MeansDynamic
      <3>2. /\ k \in Tagged(new, "dynamic") /\ Tagged(new, "dynamic") = {k}
            /\ new.kids[k] = old.kids[k]
        BY <1>2, <3>1 DEF Untouched
      <3>3. k \in 1..Len(new.kids)
        BY <3>2 DEF Tagged
      <3> QED  BY <3>1, <3>2, <3>3 DEF MeansDynamic
    <2> QED  BY <2>1, <2>2
  <1> QED  BY <1>1, <1>2

\* add_static_parameter
FileTarget(d) == IF InputAt(d, "static") # 0 THEN d.input
                 ELSE AddChild(d.input, NewInput("static", None))
FileAt(d) == IF InputAt(d, "static") # 0 THEN InputAt(d, "static")
             ELSE Len(FileTarget(d).kids)
FileAdded(d, f) ==
  [d EXCEPT !.input = [FileTarget(d) EXCEPT !.kids[FileAt(d)].body = AddChild(@, f)]]
FileWanted(w, f) == [w EXCEPT !.files = Append(@, f)]

LEMMA WantFile ==
  ASSUME NEW w \in Request, NEW f \in Source
  PROVE  /\ FileWanted(w, f) \in Request
         /\ FileWanted(w, f).files = Append(w.files, f)
         /\ w.files \in Seq(Source)
         /\ FileWanted(w, f).tools = w.tools /\ FileWanted(w, f).args = w.args
         /\ FileWanted(w, f).exec = w.exec /\ FileWanted(w, f).load = w.load
         /\ FileWanted(w, f).created = w.created /\ FileWanted(w, f).errs = w.errs
         /\ FileWanted(w, f).details = w.details
  <1>1. w.files \in Seq(Source)
    BY DEF Request
  <1>2. Append(w.files, f) \in Seq(Source)
    BY <1>1
  <1> QED  BY <1>1, <1>2 DEF FileWanted, Request

LEMMA ExtendedByChild ==
  ASSUME NEW node \in InputNode, NEW f \in Source \cup Argument
  PROVE  Extends(node, InputWith(node, f))
  <1>1. /\ InputWith(node, f).tag = node.tag
        /\ InputWith(node, f).body.kids = Append(node.body.kids, f)
        /\ node.body.kids \in Seq(Source \cup Argument)
    BY InputGetsChild
  <1>2. \A s \in Seq(Source \cup Argument) :
          /\ Len(s) <= Len(Append(s, f))
          /\ \A j \in 1..Len(s) : Append(s, f)[j] = s[j]
    OBVIOUS
  <1> QED  BY <1>1, <1>2, Zenon DEF Extends

\* The place the file goes to: a <static> node, and the only one if nothing
\* was hidden.
LEMMA FilePlace ==
  ASSUME NEW d, Sound(d)
  PROVE  /\ FileTarget(d) \in Element(InputNode)
         /\ InputSound(FileTarget(d)) /\ InputEdited(d.input, FileTarget(d))
         /\ FileAt(d) \in Tagged(FileTarget(d), "static")
         /\ Untouched(d.input, FileTarget(d), "dynamic")
         /\ \A files : MeansStatic(d.input, files) /\ Shows(d.input) =>
              /\ Tagged(FileTarget(d), "static") = {FileAt(d)}
              /\ FileTarget(d).kids[FileAt(d)].body.kids = files
  <1> DEFINE p == InputAt(d, "static")
             N == Len(d.input.kids)
             new == AddChild(d.input, NewInput("static", None))
  <1>1. /\ d \in Document /\ d.input \in Element(InputNode) /\ InputSound(d.input)
        /\ N \in Nat
    BY Fields, InputLengths DEF Sound
  <1>2. CASE p # 0
    <2>1. FileTarget(d) = d.input /\ FileAt(d) = p
      BY <1>2 DEF FileTarget, FileAt
    <2>2. p \in Tagged(d.input, "static")
      BY <1>1, <1>2, InputLookup
    <2>3. InputEdited(d.input, d.input)
      <3>1. \A k \in 1..N : Len(d.input.kids[k].body.kids) \in Nat
        BY <1>1, InputLengths
      <3>2. \A n \in Nat : n <= n
        OBVIOUS
      <3> QED  BY <1>1, <3>1, <3>2, Zenon DEF InputEdited, N
    <2>4. Untouched(d.input, d.input, "dynamic")
      BY DEF Untouched
    <2>5. ASSUME NEW files, MeansStatic(d.input, files)
          PROVE  /\ Tagged(d.input, "static") = {p}
                 /\ d.input.kids[p].body.kids = files
      <3>1. PICK k \in 1..N : /\ Tagged(d.input, "static") = {k}
                              /\ d.input.kids[k].body.kids = files
        BY <2>2, <2>5 DEF MeansStatic
      <3>2. k = p
        BY <2>2, <3>1
      <3> QED  BY <3>1, <3>2
    <2> QED  BY <1>1, <2>1, <2>2, <2>3, <2>4, <2>5
  <1>3. CASE p = 0
    <2>1. FileTarget(d) = new /\ FileAt(d) = Len(new.kids)
      BY <1>3 DEF FileTarget, FileAt
    <2>2. /\ NewInput("static", None) \in InputNode
          /\ NewInput("static", None).tag = "static"
          /\ NewInput("static", None).body.kids = <<>>
          /\ Counted(NewInput("static", None).body)
      BY NewInputNode
    <2>3. /\ new \in Element(InputNode) /\ Len(new.kids) = N + 1
          /\ \A k \in 1..N : new.kids[k] = d.input.kids[k]
          /\ new.kids[N + 1] = NewInput("static", None)
          /\ InputEdited(d.input, new)
          /\ InputSound(d.input) => InputSound(new)
          /\ \A tag : Tagged(new, tag) = Tagged(d.input, tag) \cup
               (IF NewInput("static", None).tag = tag THEN {N + 1} ELSE {})
      BY <1>1, <2>2, AddedInput
    <2>4. /\ Tagged(new, "static") = Tagged(d.input, "static") \cup {N + 1}
          /\ Tagged(new, "dynamic") = Tagged(d.input, "dynamic")
      BY <2>2, <2>3
    <2>5. Untouched(d.input, new, "dynamic")
      BY <2>3, <2>4 DEF Untouched, Tagged, N
    <2>6. ASSUME NEW files, MeansStatic(d.input, files), Shows(d.input)
          PROVE  Tagged(new, "static") = {N + 1} /\ new.kids[N + 1].body.kids = files
      <3>1. Tagged(d.input, "static") = {}
        BY <1>1, <1>3, <2>6, InputLookup
      <3>2. files = <<>>
        BY <2>6, <3>1 DEF MeansStatic
      <3> QED  BY <2>2, <2>3, <2>4, <3>1, <3>2
    <2> QED  BY <1>1, <2>1, <2>3, <2>4, <2>5, <2>6
  <1> QED  BY <1>2, <1>3

\* What holds whatever an operation does to <input>.
LEMMA EditInput ==
  ASSUME NEW d, NEW w \in Request, NEW x, Sound(d),
         InputEdited(d.input, x), InputSound(x)
  PROVE  LET n == [d EXCEPT !.input = x]
         IN  /\ Sound(n) /\ n.input = x
             /\ n.tools = d.tools /\ n.installed = d.installed
             /\ n.errors = d.errors /\ n.load = d.load
             /\ Keeps(d, w) => Keeps(n, w)
  <1> DEFINE n == [d EXCEPT !.input = x]
  <1>1. x \in Element(InputNode) /\ d \in Document
    BY DEF InputEdited, Sound
  <1>2. /\ n \in Document /\ n.input = x
        /\ n.tools = d.tools /\ n.installed = d.installed
        /\ n.errors = d.errors /\ n.load = d.load
    BY <1>1, ChangeInput
  <1> HIDE DEF n
  <1>3. Sound(n)
    BY <1>2 DEF Sound
  <1>4. KeepsFiles(d.input, w.files) => KeepsFiles(x, w.files)
    BY InputKept DEF KeepsFiles
  <1>5. /\ KeepsArgs(d.input, w.args) => KeepsArgs(x, w.args)
        /\ KeepsExec(d.input, w.exec) => KeepsExec(x, w.exec)
    BY InputKept, InputNodesKept DEF KeepsArgs, KeepsExec
  <1>6. Keeps(d, w) => Keeps(n, w)
    BY <1>2, <1>4, <1>5 DEF Keeps
  <1> QED  BY <1>2, <1>3, <1>6 DEF n

LEMMA EditFiles ==
  ASSUME NEW d, NEW w \in Request, NEW f \in Source, Sound(d)
  PROVE  Edited(d, w, FileAdded(d, f), FileWanted(w, f))
  <1> DEFINE b == FileTarget(d)
             p == FileAt(d)
             x == WithKid(b, p, InputWith(b.kids[p], f))
             n == FileAdded(d, f)
             u == FileWanted(w, f)
  <1>1. /\ b \in Element(InputNode) /\ InputSound(b) /\ InputEdited(d.input, b)
        /\ p \in Tagged(b, "static") /\ Untouched(d.input, b, "dynamic")
        /\ \A files : MeansStatic(d.input, files) /\ Shows(d.input) =>
             Tagged(b, "static") = {p} /\ b.kids[p].body.kids = files
    BY FilePlace
  <1>2. n = [d EXCEPT !.input = x]
    BY DEF FileAdded, WithKid, InputWith
  <1>3. /\ u \in Request /\ u.files = Append(w.files, f) /\ w.files \in Seq(Source)
        /\ u.tools = w.tools /\ u.args = w.args /\ u.exec = w.exec /\ u.load = w.load
        /\ u.created = w.created /\ u.errs = w.errs /\ u.details = w.details
    BY WantFile
  <1> HIDE DEF b, p, n, u
  <1>4. p \in 1..Len(b.kids) /\ b.kids[p].tag = "static" /\ b.kids[p] \in InputNode
    BY <1>1, InputLengths DEF Tagged
  <1>5. /\ InputWith(b.kids[p], f) \in InputNode
        /\ InputWith(b.kids[p], f).tag = "static"
        /\ InputWith(b.kids[p], f).body.kids = Append(b.kids[p].body.kids, f)
        /\ b.kids[p].body.kids \in Seq(Source \cup Argument)
        /\ Counted(InputWith(b.kids[p], f).body)
        /\ Extends(b.kids[p], InputWith(b.kids[p], f))
    BY <1>1, <1>4, InputGetsChild, ExtendedByChild DEF InputSound
  <1>6. /\ x \in Element(InputNode) /\ Len(x.kids) = Len(b.kids)
        /\ x.kids[p] = InputWith(b.kids[p], f)
        /\ \A j \in 1..Len(b.kids) : j # p => x.kids[j] = b.kids[j]
        /\ InputEdited(b, x) /\ InputSound(x)
        /\ \A tag : Tagged(x, tag) = Tagged(b, tag)
    BY <1>1, <1>4, <1>5, ReplacedInput
  <1> HIDE DEF x
  <1>7. InputEdited(d.input, x)
    BY <1>1, <1>6, InputEditedTwice
  <1>8. /\ Sound(n) /\ n.input = x
        /\ n.tools = d.tools /\ n.installed = d.installed
        /\ n.errors = d.errors /\ n.load = d.load
        /\ Keeps(d, w) => Keeps(n, w)
    BY <1>2, <1>6, <1>7, EditInput
  <1>9. HoldsInput(x, "static", f)
    <2>1. x.kids[p].body.kids = Append(b.kids[p].body.kids, f)
      BY <1>5, <1>6
    <2>2. \A s \in Seq(Source \cup Argument) :
            /\ Len(s) + 1 \in 1..Len(Append(s, f))
            /\ Append(s, f)[Len(s) + 1] = f
      OBVIOUS
    <2>3. \E j \in 1..Len(x.kids[p].body.kids) : x.kids[p].body.kids[j] = f
      BY <1>5, <2>1, <2>2, Zenon
    <2> QED  BY <1>4, <1>5, <1>6, <2>3 DEF HoldsInput
  <1>10. Keeps(d, w) => Keeps(n, u)
    <2>1. ASSUME KeepsFiles(x, w.files) PROVE KeepsFiles(x, u.files)
      BY <1>3, <1>9, <2>1 DEF KeepsFiles
    <2> QED  BY <1>3, <1>8, <2>1 DEF Keeps
  <1>11. Untouched(d.input, x, "dynamic")
    <2>1. \A k \in Tagged(b, "dynamic") : k \in 1..Len(b.kids) /\ k # p
      BY <1>4 DEF Tagged
    <2> QED  BY <1>1, <1>6, <2>1 DEF Untouched
  <1>12. ASSUME MeansStatic(d.input, w.files), Shows(d.input)
         PROVE  MeansStatic(x, u.files)
    <2>1. Tagged(b, "static") = {p} /\ b.kids[p].body.kids = w.files
      BY <1>1, <1>12
    <2>2. Tagged(x, "static") = {p} /\ x.kids[p].body.kids = u.files
      BY <1>3, <1>5, <1>6, <2>1
    <2>3. p \in 1..Len(x.kids)
      BY <1>4, <1>6
    <2>4. u.files # <<>>
      BY <1>3
    <2> QED  BY <2>2, <2>3, <2>4 DEF MeansStatic
  <1>13. Means(d, w) /\ Pretty(d) => Means(n, u)
    BY <1>3, <1>8, <1>11, <1>12, UntouchedMeaning DEF Means, Pretty, InputShown
  <1> QED  BY <1>3, <1>8, <1>10, <1>13 DEF Edited, n, u

\* set_exec
ExecSet(d, x) ==
  [d EXCEPT !.input = IF InputAt(d, "dynamic") = 0 THEN AddChild(@, NewInput("dynamic", x))
                      ELSE [d.input EXCEPT !.kids[InputAt(d, "dynamic")].value = x]]
ExecWanted(w, x) == [w EXCEPT !.exec = x]

LEMMA WantExec ==
  ASSUME NEW w \in Request, NEW x \in Executable
  PROVE  /\ ExecWanted(w, x) \in Request
         /\ ExecWanted(w, x).exec = x
         /\ ExecWanted(w, x).tools = w.tools /\ ExecWanted(w, x).args = w.args
         /\ ExecWanted(w, x).files = w.files /\ ExecWanted(w, x).load = w.load
         /\ ExecWanted(w, x).created = w.created /\ ExecWanted(w, x).errs = w.errs
         /\ ExecWanted(w, x).details = w.details
  BY DEF ExecWanted, Request

\* An input node with another value.
NodeValued(node, x) == [node EXCEPT !.value = x]

LEMMA NodeGetsValue ==
  ASSUME NEW node \in InputNode, NEW x \in Executable
  PROVE  /\ NodeValued(node, x) \in InputNode
         /\ NodeValued(node, x).tag = node.tag /\ NodeValued(node, x).value = x
         /\ NodeValued(node, x).body = node.body
         /\ Extends(node, NodeValued(node, x))
  <1>1. /\ NodeValued(node, x) \in InputNode
        /\ NodeValued(node, x).tag = node.tag /\ NodeValued(node, x).value = x
        /\ NodeValued(node, x).body = node.body
    BY DEF NodeValued, InputNode
  <1>2. node.body.kids \in Seq(Source \cup Argument)
    BY DEF InputNode, Element
  <1>3. Len(node.body.kids) \in Nat
    BY <1>2, LengthIsNat
  <1>4. \A n \in Nat : n <= n
    OBVIOUS
  <1> QED  BY <1>1, <1>3, <1>4, Zenon DEF Extends

\* What holds of <input> after set_exec.
LEMMA ExecPlace ==
  ASSUME NEW d, Sound(d), NEW x \in Executable
  PROVE  LET new == ExecSet(d, x).input
         IN  /\ ExecSet(d, x) = [d EXCEPT !.input = new]
             /\ InputEdited(d.input, new) /\ InputSound(new)
             /\ Untouched(d.input, new, "static") /\ Tagged(new, "dynamic") # {}
             /\ \A exec, args : MeansDynamic(d.input, exec, args) /\ Shows(d.input) =>
                  MeansDynamic(new, x, args)
  <1> DEFINE p == InputAt(d, "dynamic")
             N == Len(d.input.kids)
             node == NewInput("dynamic", x)
             val == NodeValued(d.input.kids[p], x)
             new == IF p = 0 THEN AddChild(d.input, node) ELSE WithKid(d.input, p, val)
  <1>1. /\ d \in Document /\ d.input \in Element(InputNode) /\ InputSound(d.input)
        /\ N \in Nat
    BY Fields, InputLengths DEF Sound
  <1>2. ExecSet(d, x) = [d EXCEPT !.input = new]
    BY DEF ExecSet, WithKid, NodeValued
  <1>3. CASE p = 0
    <2>1. /\ node \in InputNode /\ node.tag = "dynamic" /\ node.value = x
          /\ node.body.kids = <<>> /\ Counted(node.body)
      BY NewInputNode
    <2> HIDE DEF node
    <2>2. new = AddChild(d.input, node)
      BY <1>3
    <2> HIDE DEF new, p
    <2>3. /\ new \in Element(InputNode) /\ Len(new.kids) = N + 1
          /\ \A k \in 1..N : new.kids[k] = d.input.kids[k]
          /\ new.kids[N + 1] = node
          /\ InputEdited(d.input, new) /\ InputSound(new)
          /\ \A tag : Tagged(new, tag) = Tagged(d.input, tag) \cup
               (IF node.tag = tag THEN {N + 1} ELSE {})
      BY <1>1, <2>1, <2>2, AddedInput
    <2>4. ExecSet(d, x).input = new
      BY <1>1, <1>2, <2>3, ChangeInput
    <2>5. /\ Tagged(new, "dynamic") = Tagged(d.input, "dynamic") \cup {N + 1}
          /\ Tagged(new, "static") = Tagged(d.input, "static")
      BY <2>1, <2>3
    <2>6. Untouched(d.input, new, "static")
      BY <2>3, <2>5 DEF Untouched, Tagged, N
    <2>7. ASSUME NEW exec, NEW args, MeansDynamic(d.input, exec, args), Shows(d.input)
          PROVE  MeansDynamic(new, x, args)
      <3>1. Tagged(d.input, "dynamic") = {}
        BY <1>1, <1>3, <2>7, InputLookup DEF p
      <3>2. args = <<>>
        BY <2>7, <3>1 DEF MeansDynamic
      <3>3. Tagged(new, "dynamic") = {N + 1} /\ N + 1 \in 1..Len(new.kids)
        BY <1>1, <2>3, <2>5, <3>1
      <3> QED  BY <2>1, <2>3, <3>2, <3>3, CfgAssumption DEF MeansDynamic
    <2>8. Tagged(new, "dynamic") # {}
      BY <2>5
    <2> QED  BY <1>2, <2>3, <2>4, <2>6, <2>7, <2>8
  <1>4. CASE p # 0
    <2>1. p \in Tagged(d.input, "dynamic") /\ p \in 1..N
      BY <1>1, <1>4, InputLookup
    <2>2. d.input.kids[p] \in InputNode /\ d.input.kids[p].tag = "dynamic"
      BY <1>1, <2>1, InputLengths DEF Tagged
    <2>3. /\ val \in InputNode /\ val.tag = "dynamic" /\ val.value = x
          /\ val.body = d.input.kids[p].body
          /\ Extends(d.input.kids[p], val)
      BY <2>2, NodeGetsValue
    <2>4. Counted(val.body)
      BY <1>1, <2>1, <2>3 DEF InputSound
    <2>5. new = WithKid(d.input, p, val)
      BY <1>4
    <2> HIDE DEF new, val, p
    <2>6. /\ new \in Element(InputNode) /\ Len(new.kids) = N
          /\ new.kids[p] = val
          /\ \A j \in 1..N : j # p => new.kids[j] = d.input.kids[j]
          /\ InputEdited(d.input, new) /\ InputSound(new)
          /\ \A tag : Tagged(new, tag) = Tagged(d.input, tag)
      BY <1>1, <2>1, <2>3, <2>4, <2>5, ReplacedInput
    <2>7. ExecSet(d, x).input = new
      BY <1>1, <1>2, <2>6, ChangeInput
    <2>8. Untouched(d.input, new, "static")
      <3>1. \A k \in Tagged(d.input, "static") : k \in 1..N /\ k # p
        BY <2>2 DEF Tagged
      <3> QED  BY <2>6, <3>1 DEF Untouched
    <2>9. ASSUME NEW exec, NEW args, MeansDynamic(d.input, exec, args)
          PROVE  MeansDynamic(new, x, args)
      <3>1. PICK k \in 1..N : /\ Tagged(d.input, "dynamic") = {k}
                              /\ d.input.kids[k].body.kids = args
        BY <2>1, <2>9 DEF MeansDynamic, N
      <3>2. k = p
        BY <2>1, <3>1
      <3>3. Tagged(new, "dynamic") = {p} /\ p \in 1..Len(new.kids)
        BY <2>1, <2>6, <3>1, <3>2
      <3> QED  BY <2>3, <2>6, <3>1, <3>2, <3>3, CfgAssumption DEF MeansDynamic
    <2>10. Tagged(new, "dynamic") # {}
      BY <2>1, <2>6
    <2> QED  BY <1>2, <2>6, <2>7, <2>8, <2>9, <2>10
  <1> QED  BY <1>3, <1>4

LEMMA EditExec ==
  ASSUME NEW d, NEW w \in Request, NEW x \in Executable, Sound(d)
  PROVE  Edited(d, w, ExecSet(d, x), ExecWanted(w, x))
  <1> DEFINE n == ExecSet(d, x)
             new == n.input
             u == ExecWanted(w, x)
  <1>1. /\ n = [d EXCEPT !.input = new]
        /\ InputEdited(d.input, new) /\ InputSound(new)
        /\ Untouched(d.input, new, "static") /\ Tagged(new, "dynamic") # {}
        /\ \A exec, args : MeansDynamic(d.input, exec, args) /\ Shows(d.input) =>
             MeansDynamic(new, x, args)
    BY ExecPlace
  <1>2. /\ u \in Request /\ u.exec = x /\ u.tools = w.tools /\ u.args = w.args
        /\ u.files = w.files /\ u.load = w.load
        /\ u.created = w.created /\ u.errs = w.errs /\ u.details = w.details
    BY WantExec
  <1> HIDE DEF n, new, u
  <1>3. /\ Sound(n) /\ n.input = new
        /\ n.tools = d.tools /\ n.installed = d.installed
        /\ n.errors = d.errors /\ n.load = d.load
        /\ Keeps(d, w) => Keeps(n, w)
    BY <1>1, EditInput
  <1>4. Keeps(d, w) => Keeps(n, u)
    <2>1. KeepsExec(new, u.exec)
      BY <1>1 DEF KeepsExec
    <2> QED  BY <1>2, <1>3, <2>1 DEF Keeps
  <1>5. Means(d, w) /\ Pretty(d) => Means(n, u)
    BY <1>1, <1>2, <1>3, UntouchedMeaning DEF Means, Pretty, InputShown
  <1> QED  BY <1>2, <1>3, <1>4, <1>5 DEF Edited, n, u

\* add_dynamic_parameter where there is a <dynamic> node
ArgumentAdded(d, a) == [d EXCEPT !.input.kids[InputAt(d, "dynamic")].body = AddChild(@, a)]
ArgumentWanted(w, a) == [w EXCEPT !.args = Append(@, a)]

LEMMA WantArgument ==
  ASSUME NEW w \in Request, NEW a \in Argument
  PROVE  /\ ArgumentWanted(w, a) \in Request
         /\ ArgumentWanted(w, a).args = Append(w.args, a)
         /\ w.args \in Seq(Argument)
         /\ ArgumentWanted(w, a).tools = w.tools /\ ArgumentWanted(w, a).exec = w.exec
         /\ ArgumentWanted(w, a).files = w.files /\ ArgumentWanted(w, a).load = w.load
         /\ ArgumentWanted(w, a).created = w.created /\ ArgumentWanted(w, a).errs = w.errs
         /\ ArgumentWanted(w, a).details = w.details
  <1>1. w.args \in Seq(Argument)
    BY DEF Request
  <1>2. Append(w.args, a) \in Seq(Argument)
    BY <1>1
  <1> QED  BY <1>1, <1>2 DEF ArgumentWanted, Request

LEMMA EditArguments ==
  ASSUME NEW d, NEW w \in Request, NEW a \in Argument, Sound(d), InputAt(d, "dynamic") # 0
  PROVE  Edited(d, w, ArgumentAdded(d, a), ArgumentWanted(w, a))
  <1> DEFINE p == InputAt(d, "dynamic")
             N == Len(d.input.kids)
             node == InputWith(d.input.kids[p], a)
             x == WithKid(d.input, p, node)
             n == ArgumentAdded(d, a)
             u == ArgumentWanted(w, a)
  <1>1. d \in Document /\ d.input \in Element(InputNode) /\ InputSound(d.input)
    BY Fields DEF Sound
  <1>2. p \in Tagged(d.input, "dynamic") /\ p \in 1..N
    BY <1>1, InputLookup
  <1>3. d.input.kids[p] \in InputNode /\ d.input.kids[p].tag = "dynamic"
    BY <1>1, <1>2, InputLengths DEF Tagged
  <1>4. n = [d EXCEPT !.input = x]
    BY DEF ArgumentAdded, WithKid, InputWith
  <1>5. /\ u \in Request /\ u.args = Append(w.args, a) /\ w.args \in Seq(Argument)
        /\ u.tools = w.tools
        /\ u.exec = w.exec /\ u.files = w.files /\ u.load = w.load
        /\ u.created = w.created /\ u.errs = w.errs /\ u.details = w.details
    BY WantArgument
  <1>6. /\ node \in InputNode /\ node.tag = "dynamic"
        /\ node.value = d.input.kids[p].value
        /\ node.body.kids = Append(d.input.kids[p].body.kids, a)
        /\ d.input.kids[p].body.kids \in Seq(Source \cup Argument)
        /\ Counted(node.body) /\ Extends(d.input.kids[p], node)
    BY <1>1, <1>2, <1>3, InputGetsChild, ExtendedByChild DEF InputSound
  <1> HIDE DEF p, node, n, u
  <1>7. /\ x \in Element(InputNode) /\ Len(x.kids) = N /\ x.kids[p] = node
        /\ \A j \in 1..N : j # p => x.kids[j] = d.input.kids[j]
        /\ InputEdited(d.input, x) /\ InputSound(x)
        /\ \A tag : Tagged(x, tag) = Tagged(d.input, tag)
    BY <1>1, <1>2, <1>6, ReplacedInput
  <1> HIDE DEF x
  <1>8. /\ Sound(n) /\ n.input = x
        /\ n.tools = d.tools /\ n.installed = d.installed
        /\ n.errors = d.errors /\ n.load = d.load
        /\ Keeps(d, w) => Keeps(n, w)
    <2>1. InputEdited(d.input, x) /\ InputSound(x)
      BY <1>7
    <2> QED  BY <1>4, <2>1, EditInput
  <1>9. Keeps(d, w) => Keeps(n, u)
    <2>1. \A s \in Seq(Source \cup Argument) :
            /\ Len(s) + 1 \in 1..Len(Append(s, a))
            /\ Append(s, a)[Len(s) + 1] = a
      OBVIOUS
    <2>2. \E j \in 1..Len(x.kids[p].body.kids) : x.kids[p].body.kids[j] = a
      BY <1>6, <1>7, <2>1, Zenon
    <2>3. HoldsInput(x, "dynamic", a)
      BY <1>2, <1>6, <1>7, <2>2 DEF HoldsInput
    <2>4. KeepsArgs(x, w.args) => KeepsArgs(x, u.args)
      BY <1>5, <2>3 DEF KeepsArgs
    <2> QED  BY <1>5, <1>8, <2>4 DEF Keeps
  <1>10. Untouched(d.input, x, "static")
    <2>1. \A k \in Tagged(d.input, "static") : k \in 1..N /\ k # p
      BY <1>3 DEF Tagged
    <2> QED  BY <1>7, <2>1 DEF Untouched
  <1>11. ASSUME MeansDynamic(d.input, w.exec, w.args)
         PROVE  MeansDynamic(x, u.exec, u.args)
    <2>1. PICK k \in 1..N : /\ Tagged(d.input, "dynamic") = {k}
                            /\ d.input.kids[k].value = w.exec
                            /\ d.input.kids[k].body.kids = w.args
                            /\ w.exec # None
      BY <1>2, <1>11 DEF MeansDynamic, N
    <2>2. k = p
      BY <1>2, <2>1
    <2>3. Tagged(x, "dynamic") = {p} /\ p \in 1..Len(x.kids)
      BY <1>2, <1>7, <2>1, <2>2
    <2>4. x.kids[p].value = u.exec /\ x.kids[p].body.kids = u.args
      BY <1>5, <1>6, <1>7, <2>1, <2>2
    <2> QED  BY <1>5, <2>1, <2>3, <2>4 DEF MeansDynamic
  <1>12. Means(d, w) => Means(n, u)
    BY <1>5, <1>8, <1>10, <1>11, UntouchedMeaning DEF Means
  <1> QED  BY <1>5, <1>8, <1>9, <1>12 DEF Edited, n, u

\* add_err_details
DetailAt(d, id) == lookup_node(Seen(d.errors[id]))
DetailAdded(d, id, x) ==
  [d EXCEPT !.errors[id] = IF DetailAt(d, id) = 0 THEN AddChild(@, x)
                           ELSE [d.errors[id] EXCEPT !.kids[DetailAt(d, id)] = x]]
DetailWanted(w, id, x) == [w EXCEPT !.details[id] = x]

LEMMA WantDetail ==
  ASSUME NEW w \in Request, NEW id \in ErrId, NEW x \in Detail
  PROVE  /\ DetailWanted(w, id, x) \in Request
         /\ DetailWanted(w, id, x).details[id] = x
         /\ \A y \in ErrId \ {id} : DetailWanted(w, id, x).details[y] = w.details[y]
         /\ DetailWanted(w, id, x).tools = w.tools /\ DetailWanted(w, id, x).exec = w.exec
         /\ DetailWanted(w, id, x).files = w.files /\ DetailWanted(w, id, x).load = w.load
         /\ DetailWanted(w, id, x).created = w.created /\ DetailWanted(w, id, x).errs = w.errs
         /\ DetailWanted(w, id, x).args = w.args
  BY DEF DetailWanted, Request

LEMMA DetailLookup ==
  ASSUME NEW d \in Document, NEW id \in ErrId
  PROVE  /\ d.errors[id] \in Element(Detail)
         /\ DetailAt(d, id) # 0 => DetailAt(d, id) \in 1..Len(d.errors[id].kids)
         /\ Shows(d.errors[id]) /\ d.errors[id].kids = <<>> => DetailAt(d, id) = 0
         /\ Shows(d.errors[id]) /\ Len(d.errors[id].kids) = 1 => DetailAt(d, id) = 1
  <1> DEFINE e == d.errors[id]
  <1>1. e \in Element(Detail)
    BY Fields
  <1> HIDE DEF e
  <1>2. /\ Seen(e) \in SUBSET (Nat \ {0}) /\ Seen(e) \subseteq 1..Len(e.kids)
        /\ Len(e.kids) \in Nat
    BY <1>1 DEF Seen, Element
  <1>3. Shows(e) => Seen(e) = 1..Len(e.kids)
    BY <1>1, ShownElement
  <1>4. e.kids = <<>> => Len(e.kids) = 0
    BY <1>1
  <1>5. DetailAt(d, id) = lookup_node(Seen(e))
    BY DEF DetailAt, e
  <1>6. DetailAt(d, id) # 0 => DetailAt(d, id) \in 1..Len(e.kids)
    BY <1>2, <1>5, LookupNode
  <1>7. Shows(e) /\ e.kids = <<>> => DetailAt(d, id) = 0
    BY <1>3, <1>4, <1>6
  <1>8. ASSUME Shows(e), Len(e.kids) = 1 PROVE DetailAt(d, id) = 1
    <2>1. Seen(e) = {1}
      BY <1>3, <1>8
    <2> QED  BY <1>2, <1>5, <2>1, LookupNode
  <1> QED  BY <1>1, <1>6, <1>7, <1>8 DEF e

LEMMA EditDetails ==
  ASSUME NEW d, NEW w \in Request, NEW id \in ErrId, NEW x \in Detail, Sound(d)
  PROVE  Edited(d, w, DetailAdded(d, id, x), DetailWanted(w, id, x))
  <1> DEFINE p == DetailAt(d, id)
             old == d.errors[id]
             e == IF p = 0 THEN AddChild(old, x) ELSE WithKid(old, p, x)
             f == [d.errors EXCEPT ![id] = e]
             n == DetailAdded(d, id, x)
             u == DetailWanted(w, id, x)
  <1>1. d \in Document /\ d.errors \in [ErrId -> Element(Detail)]
    BY Fields DEF Sound
  <1>2. old \in Element(Detail) /\ old.kids \in Seq(Detail)
    BY <1>1 DEF Element
  <1>3. /\ p # 0 => p \in 1..Len(old.kids)
        /\ Shows(old) /\ old.kids = <<>> => p = 0
        /\ Shows(old) /\ Len(old.kids) = 1 => p = 1
    BY <1>1, DetailLookup
  <1>4. n = [d EXCEPT !.errors = f]
    BY DEF DetailAdded, WithKid
  <1>5. /\ u \in Request /\ u.details[id] = x
        /\ \A y \in ErrId \ {id} : u.details[y] = w.details[y]
        /\ u.tools = w.tools /\ u.exec = w.exec /\ u.files = w.files /\ u.load = w.load
        /\ u.created = w.created /\ u.errs = w.errs /\ u.args = w.args
    BY WantDetail
  <1> HIDE DEF p, n, u, old
  <1>6. e \in Element(Detail)
    BY <1>2, <1>3, AddedChild, ReplacedKid
  <1>7. ASSUME Shows(old), \/ old.kids = <<>>
                           \/ \E y \in Detail : old.kids = <<y>>
        PROVE  e.kids = <<x>>
    <2>1. CASE old.kids = <<>>
      <3>1. e = AddChild(old, x)
        BY <1>3, <1>7, <2>1
      <3> QED  BY <1>2, <2>1, <3>1, AddedChild
    <2>2. CASE \E y \in Detail : old.kids = <<y>>
      <3>1. Len(old.kids) = 1
        BY <2>2
      <3>2. e = WithKid(old, 1, x) /\ 1 \in 1..Len(old.kids)
        BY <1>3, <1>7, <3>1
      <3> HIDE DEF e
      <3> DEFINE one == 1
      <3>3. e = WithKid(old, one, x) /\ one \in 1..Len(old.kids)
        BY <3>2
      <3> HIDE DEF one
      <3>4. e \in Element(Detail) /\ Len(e.kids) = Len(old.kids) /\ e.kids[one] = x
        BY <1>2, <3>3, ReplacedKid
      <3>5. e.kids \in Seq(Detail)
        BY <3>4 DEF Element
      <3> QED  BY <3>1, <3>4, <3>5 DEF one
    <2> QED  BY <1>7, <2>1, <2>2
  <1>14. e.kids # <<>>
    <2>1. CASE p = 0
      BY <1>2, <2>1, AddedChild
    <2>2. CASE p # 0
      <3>1. Len(WithKid(old, p, x).kids) = Len(old.kids) /\ p \in 1..Len(old.kids)
        BY <1>2, <1>3, <2>2, ReplacedKid
      <3>2. Len(e.kids) = Len(old.kids) /\ Len(old.kids) # 0
        BY <1>2, <2>2, <3>1
      <3> QED  BY <3>2
    <2> QED  BY <2>1, <2>2
  <1> HIDE DEF e
  <1>8. /\ f \in [ErrId -> Element(Detail)] /\ f[id] = e
        /\ \A y \in ErrId \ {id} : f[y] = d.errors[y]
    BY <1>1, <1>6
  <1> HIDE DEF f
  <1>9. /\ n \in Document /\ n.errors = f
        /\ n.tools = d.tools /\ n.installed = d.installed
        /\ n.input = d.input /\ n.load = d.load
    BY <1>1, <1>4, <1>8, ChangeErrors
  <1>10. Sound(n)
    BY <1>9 DEF Sound
  <1>11. Keeps(d, w) => Keeps(n, w) /\ Keeps(n, u)
    <2>1. KeepsDetails(d.errors, w.details) =>
            KeepsDetails(f, w.details) /\ KeepsDetails(f, u.details)
      BY <1>5, <1>8, <1>14 DEF KeepsDetails
    <2> QED  BY <1>5, <1>9, <2>1 DEF Keeps
  <1>12. ASSUME Means(d, w), Pretty(d) PROVE MeansDetails(f, u.details)
    <2> SUFFICES ASSUME NEW y \in ErrId
                 PROVE  f[y].kids = IF u.details[y] = None THEN <<>> ELSE <<u.details[y]>>
      BY DEF MeansDetails
    <2>1. d.errors[y].kids = IF w.details[y] = None THEN <<>> ELSE <<w.details[y]>>
      BY <1>12 DEF Means, MeansDetails
    <2>2. CASE y # id
      BY <1>5, <1>8, <2>1, <2>2
    <2>3. CASE y = id
      <3>1. w.details[id] \in Detail \cup {None}
        BY DEF Request
      <3>2. Shows(old)
        BY <1>12 DEF Pretty, DetailsShown, old
      <3>3. e.kids = <<x>>
        BY <1>7, <2>1, <2>3, <3>1, <3>2 DEF old
      <3>4. x # None
        BY CfgAssumption
      <3> QED  BY <1>5, <1>8, <2>3, <3>3, <3>4
    <2> QED  BY <2>2, <2>3
  <1>13. Means(d, w) /\ Pretty(d) => Means(n, u)
    BY <1>5, <1>9, <1>12 DEF Means
  <1> QED  BY <1>5, <1>10, <1>11, <1>13 DEF Edited, n, u

\* set_libpenalty_info
LoadSet(d, b) == [d EXCEPT !.load = b]
LoadWanted(w, b) == [w EXCEPT !.load = b]

LEMMA EditLoad ==
  ASSUME NEW d, NEW w \in Request, NEW b \in BOOLEAN, Sound(d)
  PROVE  Edited(d, w, LoadSet(d, b), LoadWanted(w, b))
  <1> DEFINE n == LoadSet(d, b)
             u == LoadWanted(w, b)
  <1>1. /\ n \in Document /\ n.load = b /\ n.tools = d.tools
        /\ n.installed = d.installed /\ n.input = d.input /\ n.errors = d.errors
    BY ChangeLoad DEF Sound, LoadSet
  <1>2. /\ u \in Request /\ u.load = b /\ u.tools = w.tools /\ u.exec = w.exec
        /\ u.files = w.files /\ u.created = w.created /\ u.errs = w.errs
        /\ u.args = w.args /\ u.details = w.details
    BY DEF LoadWanted, Request
  <1> HIDE DEF n, u
  <1>3. Sound(n)
    BY <1>1 DEF Sound
  <1>4. Keeps(d, w) => Keeps(n, w) /\ Keeps(n, u)
    BY <1>1, <1>2 DEF Keeps
  <1>5. Means(d, w) => Means(n, u)
    BY <1>1, <1>2 DEF Means
  <1> QED  BY <1>2, <1>3, <1>4, <1>5 DEF Edited, n, u

\* register_parameter: asked for, and not done.
ParameterWanted(w, t, a) == [w EXCEPT !.params[t] = Append(@, a)]

LEMMA EditParameters ==
  ASSUME NEW d, NEW w \in Request, NEW t \in Tool, NEW a \in Argument, Sound(d)
  PROVE  Edited(d, w, d, ParameterWanted(w, t, a))
  <1> DEFINE u == ParameterWanted(w, t, a)
  <1>1. w.params \in [Tool -> Seq(Argument)]
    BY DEF Request
  <1>2. [w.params EXCEPT ![t] = Append(@, a)] \in [Tool -> Seq(Argument)]
    BY <1>1
  <1>3. /\ u \in Request /\ u.load = w.load /\ u.tools = w.tools /\ u.exec = w.exec
        /\ u.files = w.files /\ u.created = w.created /\ u.errs = w.errs
        /\ u.args = w.args /\ u.details = w.details
    BY <1>2 DEF ParameterWanted, Request
  <1> HIDE DEF u
  <1>4. Keeps(d, w) => Keeps(d, u)
    BY <1>3 DEF Keeps
  <1>5. Means(d, w) => Means(d, u)
    BY <1>3 DEF Means
  <1> QED  BY <1>3, <1>4, <1>5 DEF Edited, u

\* Whatever robo_config is asked for, the document in memory is an edited one.
LEMMA OperationEdits ==
  ASSUME Sound(disk), asked \in Request, Operation
  PROVE  \E doc, wish : Run(doc, wish) /\ Edited(disk, asked, doc, wish)
  <1>1. ASSUME Query
        PROVE  \E doc, wish : Run(doc, wish) /\ Edited(disk, asked, doc, wish)
    BY <1>1, Unedited DEF Query
  <1>2. ASSUME NEW t \in Tool, create_tool(t)
        PROVE  \E doc, wish : Run(doc, wish) /\ Edited(disk, asked, doc, wish)
    <2>1. Run(ToolCreated(disk, t), ToolMade(asked, t))
      BY <1>2 DEF create_tool, ToolCreated, ToolMade
    <2> QED  BY <2>1, EditInstalled
  <1>3. ASSUME NEW t \in Tool, register_tool(t)
        PROVE  \E doc, wish : Run(doc, wish) /\ Edited(disk, asked, doc, wish)
    <2>1. CASE ToolAt(disk, t) = 0
      BY <1>1, <1>3, <2>1 DEF register_tool
    <2>2. CASE ToolAt(disk, t) # 0
      <3>1. Run(ToolRegistered(disk, t), ToolWanted(asked, t))
        BY <1>3, <2>2 DEF register_tool, ToolRegistered, ToolWanted
      <3> QED  BY <2>2, <3>1, EditTools
    <2> QED  BY <2>1, <2>2
  <1>4. ASSUME NEW t \in Tool, NEW id \in ErrId, register_error(id, t)
        PROVE  \E doc, wish : Run(doc, wish) /\ Edited(disk, asked, doc, wish)
    <2>1. \/ Query
          \/ /\ ToolAt(disk, t) # 0
             /\ Run(ErrorRegistered(disk, ToolAt(disk, t), id), ErrorWanted(asked, t, id))
      BY <1>4 DEF register_error, ErrorRegistered, ErrorWanted
    <2> QED  BY <1>1, <2>1, EditErrors
  <1>5. ASSUME NEW t \in Tool, NEW a \in Argument, register_parameter(a, t)
        PROVE  \E doc, wish : Run(doc, wish) /\ Edited(disk, asked, doc, wish)
    <2>1. Run(disk, asked) \/ Run(disk, ParameterWanted(asked, t, a))
      BY <1>5 DEF register_parameter, ParameterWanted
    <2> QED  BY <2>1, Unedited, EditParameters
  <1>6. ASSUME NEW f \in Source, add_static_parameter(f)
        PROVE  \E doc, wish : Run(doc, wish) /\ Edited(disk, asked, doc, wish)
    <2>1. Run(FileAdded(disk, f), FileWanted(asked, f))
      BY <1>6 DEF add_static_parameter, FileAdded, FileTarget, FileAt, FileWanted
    <2> QED  BY <2>1, EditFiles
  <1>7. ASSUME NEW x \in Executable, set_exec(x)
        PROVE  \E doc, wish : Run(doc, wish) /\ Edited(disk, asked, doc, wish)
    <2>1. Run(ExecSet(disk, x), ExecWanted(asked, x))
      BY <1>7 DEF set_exec, ExecSet, ExecWanted
    <2> QED  BY <2>1, EditExec
  <1>8. ASSUME NEW a \in Argument, add_dynamic_parameter(a)
        PROVE  \E doc, wish : Run(doc, wish) /\ Edited(disk, asked, doc, wish)
    <2>1. \/ Query
          \/ /\ InputAt(disk, "dynamic") # 0
             /\ Run(ArgumentAdded(disk, a), ArgumentWanted(asked, a))
      BY <1>8 DEF add_dynamic_parameter, ArgumentAdded, ArgumentWanted
    <2> QED  BY <1>1, <2>1, EditArguments
  <1>9. ASSUME NEW id \in ErrId, NEW x \in Detail, add_err_details(id, x)
        PROVE  \E doc, wish : Run(doc, wish) /\ Edited(disk, asked, doc, wish)
    <2>1. Run(DetailAdded(disk, id, x), DetailWanted(asked, id, x))
      BY <1>9 DEF add_err_details, DetailAdded, DetailAt, DetailWanted
    <2> QED  BY <2>1, EditDetails
  <1>10. ASSUME NEW b \in BOOLEAN, set_libpenalty_info(b)
         PROVE  \E doc, wish : Run(doc, wish) /\ Edited(disk, asked, doc, wish)
    <2>1. Run(LoadSet(disk, b), LoadWanted(asked, b))
      BY <1>10 DEF set_libpenalty_info, LoadSet, LoadWanted
    <2> QED  BY <2>1, EditLoad
  <1> QED  BY <1>1, <1>2, <1>3, <1>4, <1>5, <1>6, <1>7, <1>8, <1>9, <1>10 DEF Operation

-----------------------------------------------------------------------------
(* What indent_xml_file does *)

IndentTools(e) ==
  [Indent(e) EXCEPT !.kids = [k \in 1..Len(e.kids) |-> IndentTool(e.kids[k])]]
IndentInputs(e) ==
  [Indent(e) EXCEPT !.kids = [k \in 1..Len(e.kids) |-> IndentInput(e.kids[k])]]
IndentErrors(f) == [id \in ErrId |-> Indent(f[id])]

LEMMA IndentedTool ==
  ASSUME NEW node \in ToolNode
  PROVE  /\ IndentTool(node) \in ToolNode /\ IndentTool(node).name = node.name
         /\ IndentTool(node).errs.kids = node.errs.kids
         /\ IndentTool(node).lead
         /\ Shows(IndentTool(node).errs) /\ Shows(IndentTool(node).params)
         /\ Counted(node.errs) => Counted(IndentTool(node).errs)
         /\ Counted(node.params) => Counted(IndentTool(node).params)
  <1>1. node.errs \in Element(ErrId) /\ node.params \in Element(Argument)
    BY DEF ToolNode
  <1>2. Indent(node.errs) \in Element(ErrId) /\ Indent(node.params) \in Element(Argument)
    BY <1>1, IndentedElement
  <1>3. /\ IndentTool(node).errs = Indent(node.errs)
        /\ IndentTool(node).params = Indent(node.params)
        /\ IndentTool(node).name = node.name /\ IndentTool(node).lead
    BY DEF IndentTool, ToolNode
  <1>4. IndentTool(node) \in ToolNode
    BY <1>2 DEF IndentTool, ToolNode
  <1> QED  BY <1>1, <1>3, <1>4, IndentedElement DEF Shows

LEMMA IndentedInput ==
  ASSUME NEW node \in InputNode
  PROVE  /\ IndentInput(node) \in InputNode /\ IndentInput(node).tag = node.tag
         /\ IndentInput(node).value = node.value
         /\ IndentInput(node).body.kids = node.body.kids
         /\ Shows(IndentInput(node).body)
         /\ Counted(node.body) => Counted(IndentInput(node).body)
  <1>1. node.body \in Element(Source \cup Argument)
    BY DEF InputNode
  <1>2. Indent(node.body) \in Element(Source \cup Argument)
    BY <1>1, IndentedElement
  <1>3. /\ IndentInput(node).body = Indent(node.body)
        /\ IndentInput(node).tag = node.tag /\ IndentInput(node).value = node.value
    BY DEF IndentInput, InputNode
  <1>4. IndentInput(node) \in InputNode
    BY <1>2 DEF IndentInput, InputNode
  <1> QED  BY <1>1, <1>3, <1>4, IndentedElement DEF Shows

LEMMA IndentedTools ==
  ASSUME NEW e \in Element(ToolNode)
  PROVE  /\ IndentTools(e) \in Element(ToolNode)
         /\ e.lead => IndentTools(e).lead
         /\ Len(IndentTools(e).kids) = Len(e.kids)
         /\ \A k \in 1..Len(e.kids) : IndentTools(e).kids[k] = IndentTool(e.kids[k])
  <1>1. /\ Indent(e) \in Element(ToolNode) /\ Indent(e).kids = e.kids
        /\ (e.lead => Indent(e).lead) /\ e.kids \in Seq(ToolNode)
    BY IndentedElement DEF Element
  <1> DEFINE s == [k \in 1..Len(e.kids) |-> IndentTool(e.kids[k])]
  <1>2. \A k \in 1..Len(e.kids) : IndentTool(e.kids[k]) \in ToolNode
    BY <1>1, IndentedTool
  <1>3. /\ s \in Seq(ToolNode) /\ Len(s) = Len(e.kids)
        /\ \A k \in 1..Len(e.kids) : s[k] = IndentTool(e.kids[k])
    BY <1>1, <1>2
  <1>4. IndentTools(e) = [Indent(e) EXCEPT !.kids = s]
    BY <1>1 DEF IndentTools
  <1> HIDE DEF s
  <1>5. /\ IndentTools(e) \in Element(ToolNode) /\ IndentTools(e).kids = s
        /\ IndentTools(e).lead = Indent(e).lead
    BY <1>1, <1>3, <1>4 DEF Element
  <1> QED  BY <1>1, <1>3, <1>5

LEMMA IndentedInputs ==
  ASSUME NEW e \in Element(InputNode)
  PROVE  /\ IndentInputs(e) \in Element(InputNode)
         /\ Shows(IndentInputs(e))
         /\ Len(IndentInputs(e).kids) = Len(e.kids)
         /\ \A k \in 1..Len(e.kids) : IndentInputs(e).kids[k] = IndentInput(e.kids[k])
  <1>1. /\ Indent(e) \in Element(InputNode) /\ Indent(e).kids = e.kids
        /\ e.kids # <<>> => Indent(e).lead
    BY IndentedElement
  <1> DEFINE s == [k \in 1..Len(e.kids) |-> IndentInput(e.kids[k])]
  <1>2. e.kids \in Seq(InputNode)
    BY DEF Element
  <1>3. \A k \in 1..Len(e.kids) : IndentInput(e.kids[k]) \in InputNode
    BY <1>2, IndentedInput
  <1>4. /\ s \in Seq(InputNode) /\ Len(s) = Len(e.kids)
        /\ \A k \in 1..Len(e.kids) : s[k] = IndentInput(e.kids[k])
    BY <1>2, <1>3
  <1>5. IndentInputs(e) = [Indent(e) EXCEPT !.kids = s]
    BY <1>1 DEF IndentInputs
  <1>6. s # <<>> => e.kids # <<>>
    BY <1>2, <1>4
  <1> HIDE DEF s
  <1>7. /\ IndentInputs(e) \in Element(InputNode) /\ IndentInputs(e).kids = s
        /\ IndentInputs(e).lead = Indent(e).lead
    BY <1>1, <1>4, <1>5 DEF Element
  <1> QED  BY <1>1, <1>4, <1>6, <1>7 DEF Shows

LEMMA IndentedFields ==
  ASSUME NEW d \in Document
  PROVE  LET n == indent_xml_file(d)
         IN  /\ n \in Document
             /\ n.tools = Indent(d.tools) /\ n.installed = IndentTools(d.installed)
             /\ n.input = IndentInputs(d.input) /\ n.errors = IndentErrors(d.errors)
             /\ n.load = d.load
  <1>1. /\ d.tools \in Element(Tool) /\ d.installed \in Element(ToolNode)
        /\ d.input \in Element(InputNode) /\ d.errors \in [ErrId -> Element(Detail)]
    BY Fields
  <1>2. /\ Indent(d.tools) \in Element(Tool)
        /\ IndentTools(d.installed) \in Element(ToolNode)
        /\ IndentInputs(d.input) \in Element(InputNode)
    BY <1>1, IndentedElement, IndentedTools, IndentedInputs
  <1>3. IndentErrors(d.errors) \in [ErrId -> Element(Detail)]
    BY <1>1, IndentedElement DEF IndentErrors
  <1>4. indent_xml_file(d) = [d EXCEPT !.tools = Indent(d.tools),
                                       !.installed = IndentTools(d.installed),
                                       !.input = IndentInputs(d.input),
                                       !.errors = IndentErrors(d.errors)]
    BY DEF indent_xml_file, IndentTools, IndentInputs, IndentErrors
  <1> QED  BY <1>2, <1>3, <1>4 DEF Document

\* The second save changes nothing but what can be seen, and shows it all.
LEMMA IndentSound ==
  ASSUME NEW d, Sound(d)
  PROVE  Sound(indent_xml_file(d)) /\ Pretty(indent_xml_file(d))
  <1> DEFINE n == indent_xml_file(d)
  <1>1. d \in Document
    BY DEF Sound
  <1>2. /\ n \in Document
        /\ n.tools = Indent(d.tools) /\ n.installed = IndentTools(d.installed)
        /\ n.input = IndentInputs(d.input) /\ n.errors = IndentErrors(d.errors)
    BY <1>1, IndentedFields
  <1>3. /\ d.tools \in Element(Tool) /\ d.installed \in Element(ToolNode)
        /\ d.input \in Element(InputNode) /\ d.errors \in [ErrId -> Element(Detail)]
        /\ d.installed.kids \in Seq(ToolNode) /\ d.input.kids \in Seq(InputNode)
    BY <1>1, Fields DEF Element
  <1> HIDE DEF n
  <1>4. /\ n.tools.kids = d.tools.kids
        /\ d.tools.lead => n.tools.lead
        /\ Counted(d.tools) => Counted(n.tools)
    BY <1>2, <1>3, IndentedElement
  <1>5. /\ d.installed.lead => n.installed.lead
        /\ Len(n.installed.kids) = Len(d.installed.kids)
        /\ \A k \in 1..Len(d.installed.kids) : n.installed.kids[k] = IndentTool(d.installed.kids[k])
        /\ \A k \in 1..Len(d.installed.kids) : d.installed.kids[k] \in ToolNode
    BY <1>2, <1>3, IndentedTools
  <1>6. /\ Shows(n.input) /\ Len(n.input.kids) = Len(d.input.kids)
        /\ \A k \in 1..Len(d.input.kids) : n.input.kids[k] = IndentInput(d.input.kids[k])
        /\ \A k \in 1..Len(d.input.kids) : d.input.kids[k] \in InputNode
    BY <1>2, <1>3, IndentedInputs
  <1>7. ToolsSound(n.tools, n.installed)
    <2>1. \A k \in 1..Len(d.installed.kids) :
            n.installed.kids[k].name = d.installed.kids[k].name
      BY <1>5, IndentedTool
    <2>2. Counted(n.tools) /\ n.tools.lead /\ n.installed.lead
      BY <1>4, <1>5 DEF Sound, ToolsSound
    <2> QED  BY <1>4, <1>5, <2>1, <2>2 DEF Sound, ToolsSound
  <1>8. NodesSound(n.installed) /\ NodesShown(n.installed)
    <2> SUFFICES ASSUME NEW k \in 1..Len(d.installed.kids)
                 PROVE  /\ Counted(n.installed.kids[k].errs)
                        /\ Counted(n.installed.kids[k].params)
                        /\ n.installed.kids[k].lead
                        /\ Shows(n.installed.kids[k].errs)
                        /\ Shows(n.installed.kids[k].params)
      BY <1>5 DEF NodesSound, NodesShown
    <2>1. Counted(d.installed.kids[k].errs) /\ Counted(d.installed.kids[k].params)
      BY DEF Sound, NodesSound
    <2> QED  BY <1>5, <2>1, IndentedTool
  <1>9. InputSound(n.input) /\ InputShown(n.input)
    BY <1>6, IndentedInput DEF Sound, InputSound, InputShown
  <1>10. DetailsShown(n.errors)
    <2>1. ASSUME NEW id \in ErrId PROVE Shows(n.errors[id])
      <3>1. n.errors[id] = Indent(d.errors[id]) /\ d.errors[id] \in Element(Detail)
        BY <1>2, <1>3 DEF IndentErrors
      <3> QED  BY <3>1, IndentedElement DEF Shows
    <2> QED  BY <2>1 DEF DetailsShown
  <1> QED  BY <1>2, <1>7, <1>8, <1>9, <1>10 DEF Sound, Pretty, n

LEMMA IndentMeaning ==
  ASSUME NEW d, Sound(d), NEW w
  PROVE  /\ Keeps(d, w) => Keeps(indent_xml_file(d), w)
         /\ Means(d, w) => Means(indent_xml_file(d), w)
  <1> DEFINE n == indent_xml_file(d)
  <1>1. d \in Document
    BY DEF Sound
  <1>2. /\ n \in Document
        /\ n.tools = Indent(d.tools) /\ n.installed = IndentTools(d.installed)
        /\ n.input = IndentInputs(d.input) /\ n.errors = IndentErrors(d.errors)
        /\ n.load = d.load
    BY <1>1, IndentedFields
  <1>3. /\ d.tools \in Element(Tool) /\ d.installed \in Element(ToolNode)
        /\ d.input \in Element(InputNode) /\ d.errors \in [ErrId -> Element(Detail)]
        /\ d.installed.kids \in Seq(ToolNode) /\ d.input.kids \in Seq(InputNode)
    BY <1>1, Fields DEF Element
  <1> HIDE DEF n
  <1>4. n.tools.kids = d.tools.kids
    BY <1>2, <1>3, IndentedElement
  <1>5. /\ Len(n.installed.kids) = Len(d.installed.kids)
        /\ \A k \in 1..Len(d.installed.kids) :
             /\ n.installed.kids[k].name = d.installed.kids[k].name
             /\ n.installed.kids[k].errs.kids = d.installed.kids[k].errs.kids
    <2>1. /\ Len(n.installed.kids) = Len(d.installed.kids)
          /\ \A k \in 1..Len(d.installed.kids) :
               n.installed.kids[k] = IndentTool(d.installed.kids[k])
          /\ \A k \in 1..Len(d.installed.kids) : d.installed.kids[k] \in ToolNode
      BY <1>2, <1>3, IndentedTools
    <2> QED  BY <2>1, IndentedTool
  <1>6. /\ Len(n.input.kids) = Len(d.input.kids)
        /\ \A k \in 1..Len(d.input.kids) :
             /\ n.input.kids[k].tag = d.input.kids[k].tag
             /\ n.input.kids[k].value = d.input.kids[k].value
             /\ n.input.kids[k].body.kids = d.input.kids[k].body.kids
    <2>1. /\ Len(n.input.kids) = Len(d.input.kids)
          /\ \A k \in 1..Len(d.input.kids) : n.input.kids[k] = IndentInput(d.input.kids[k])
          /\ \A k \in 1..Len(d.input.kids) : d.input.kids[k] \in InputNode
      BY <1>2, <1>3, IndentedInputs
    <2> QED  BY <2>1, IndentedInput
  <1>7. \A id \in ErrId : n.errors[id].kids = d.errors[id].kids
    <2>1. ASSUME NEW id \in ErrId PROVE n.errors[id].kids = d.errors[id].kids
      <3>1. n.errors[id] = Indent(d.errors[id]) /\ d.errors[id] \in Element(Detail)
        BY <1>2, <1>3 DEF IndentErrors
      <3> QED  BY <3>1, IndentedElement
    <2> QED  BY <2>1
  <1>8. \A tag, f : HoldsInput(d.input, tag, f) => HoldsInput(n.input, tag, f)
    BY <1>6, Zenon DEF HoldsInput
  <1>9. \A t, id : HoldsError(d.installed, t, id) => HoldsError(n.installed, t, id)
    BY <1>5, Zenon DEF HoldsError
  <1>10. \A tag : Tagged(n.input, tag) = Tagged(d.input, tag)
    BY <1>6 DEF Tagged
  <1>11. \A t : Named(n.installed, t) = Named(d.installed, t)
    BY <1>5 DEF Named
  <1>12. Keeps(d, w) => Keeps(n, w)
    <2>1. /\ KeepsFiles(d.input, w.files) => KeepsFiles(n.input, w.files)
          /\ KeepsArgs(d.input, w.args) => KeepsArgs(n.input, w.args)
          /\ KeepsExec(d.input, w.exec) => KeepsExec(n.input, w.exec)
      BY <1>8, <1>10 DEF KeepsFiles, KeepsArgs, KeepsExec
    <2>2. /\ KeepsErrors(d.installed, w.errs) => KeepsErrors(n.installed, w.errs)
          /\ KeepsCreated(d.installed, w.created) => KeepsCreated(n.installed, w.created)
      BY <1>9, <1>11 DEF KeepsErrors, KeepsCreated
    <2>3. /\ KeepsTools(d.tools, w.tools) => KeepsTools(n.tools, w.tools)
          /\ KeepsDetails(d.errors, w.details) => KeepsDetails(n.errors, w.details)
      BY <1>4, <1>7 DEF KeepsTools, HoldsTool, KeepsDetails
    <2> QED  BY <2>1, <2>2, <2>3 DEF Keeps
  <1>13. ASSUME Means(d, w) PROVE Means(n, w)
    <2>1. MeansStatic(n.input, w.files)
      BY <1>6, <1>10, <1>13 DEF Means, MeansStatic
    <2>2. MeansDynamic(n.input, w.exec, w.args)
      BY <1>6, <1>10, <1>13 DEF Means, MeansDynamic
    <2>3. MeansErrors(n.installed, w.created, w.errs)
      <3>1. \A t : \A k \in Named(d.installed, t) :
              Members(n.installed.kids[k].errs.kids) = Members(d.installed.kids[k].errs.kids)
        BY <1>5 DEF Named
      <3> QED  BY <1>11, <1>13, <3>1 DEF Means, MeansErrors
    <2>4. MeansDetails(n.errors, w.details)
      BY <1>7, <1>13 DEF Means, MeansDetails
    <2> QED  BY <1>2, <1>4, <1>13, <2>1, <2>2, <2>3, <2>4 DEF Means
  <1> QED  BY <1>12, <1>13 DEF n

-----------------------------------------------------------------------------
(* The invariant *)

(***************************************************************************)
(* A document in memory is always sound, and so is the file when it parses *)
(* or is about to be parsed again.  It never loses what completed runs     *)
(* asked for, and holds the current run's request as soon as robo_config   *)
(* may save it.  What the second save is about to write hides nothing.     *)
(* Before the first crash a document also holds nothing else than what was *)
(* asked for, and between two runs hides nothing.                          *)
(***************************************************************************)
CfgInv ==
  /\ step \in {"idle", "raw", "writing raw", "indent", "pretty", "writing pretty"}
  /\ asked \in Request /\ job \in Request /\ crashes \in Nat
  /\ Sound(mem)
  /\ disk # Torn \/ step = "indent" => Sound(disk) /\ Keeps(disk, asked)
  /\ step # "idle" => Keeps(mem, asked) /\ Keeps(mem, job)
  /\ step = "indent" => Keeps(disk, job)
  /\ step \in {"writing raw", "writing pretty"} => disk = Torn
  /\ step \in {"pretty", "writing pretty"} => Pretty(mem)
  /\ crashes = 0 =>
       /\ step = "idle" => Sound(disk) /\ Means(disk, asked) /\ Pretty(disk)
       /\ step \in {"raw", "writing raw"} => Means(mem, job)
       /\ step = "indent" => Means(disk, job)
       /\ step \in {"pretty", "writing pretty"} => Means(mem, job)

LEMMA CfgInvInit == CfgInit => CfgInv
  <1> SUFFICES ASSUME CfgInit PROVE CfgInv
    OBVIOUS
  <1>1. /\ \A K : Empty(TRUE) \in Element(K) /\ Empty(FALSE) \in Element(K)
        /\ Empty(TRUE).kids = <<>> /\ Empty(FALSE).kids = <<>>
        /\ Empty(TRUE).lead /\ Counted(Empty(TRUE))
    BY EmptyElement
  <1>2. /\ Fresh.tools = Empty(TRUE) /\ Fresh.installed = Empty(TRUE)
        /\ Fresh.input = Empty(FALSE)
        /\ Fresh.errors = [id \in ErrId |-> Empty(FALSE)]
    BY DEF Fresh
  <1>3. Fresh.load <=> FALSE
    BY DEF Fresh
  <1> DEFINE none == 1..Len(<<>>)
  <1>0. /\ none = {}
        /\ 1..Len(Fresh.tools.kids) = none /\ 1..Len(Fresh.installed.kids) = none
        /\ 1..Len(Fresh.input.kids) = none
    <2>1. none = {}
      OBVIOUS
    <2> QED  BY <1>1, <1>2, <2>1
  <1> HIDE DEF none
  <1>4. Fresh \in Document
    BY <1>1 DEF Fresh, Document
  <1>5. NothingAsked \in Request
    BY DEF NothingAsked, Request
  <1>6. /\ NothingAsked.created = {} /\ NothingAsked.tools = <<>>
        /\ NothingAsked.files = <<>> /\ NothingAsked.args = <<>>
        /\ NothingAsked.exec = None
        /\ NothingAsked.errs = [t \in Tool |-> {}]
        /\ NothingAsked.details = [id \in ErrId |-> None]
    BY DEF NothingAsked
  <1>7. NothingAsked.load <=> FALSE
    BY DEF NothingAsked
  <1>8. Sound(Fresh)
    BY <1>0, <1>1, <1>2, <1>4 DEF Sound, ToolsSound, NodesSound, InputSound
  <1>9. Keeps(Fresh, NothingAsked)
    BY <1>6 DEF Keeps, KeepsFiles, KeepsArgs, KeepsExec, KeepsTools, KeepsErrors,
       KeepsCreated, KeepsDetails
  <1>10. Pretty(Fresh)
    BY <1>0, <1>1, <1>2 DEF Pretty, InputShown, NodesShown, DetailsShown, Shows
  <1>11. Means(Fresh, NothingAsked)
    <2>1. MeansStatic(Fresh.input, NothingAsked.files)
      BY <1>0, <1>6 DEF MeansStatic, Tagged
    <2>2. MeansDynamic(Fresh.input, NothingAsked.exec, NothingAsked.args)
      BY <1>0, <1>6 DEF MeansDynamic, Tagged
    <2>3. MeansErrors(Fresh.installed, NothingAsked.created, NothingAsked.errs)
      BY <1>0, <1>6 DEF MeansErrors, Named
    <2>4. MeansDetails(Fresh.errors, NothingAsked.details)
      BY <1>1, <1>2, <1>6 DEF MeansDetails
    <2>5. Fresh.tools.kids = NothingAsked.tools
      BY <1>1, <1>2, <1>6
    <2> QED  BY <1>3, <1>7, <2>1, <2>2, <2>3, <2>4, <2>5 DEF Means
  <1> QED  BY <1>5, <1>8, <1>9, <1>10, <1>11 DEF CfgInit, CfgInv

LEMMA CfgInvNext == CfgInv /\ [CfgNext]_cfgVars => CfgInv'
  <1> SUFFICES ASSUME CfgInv, [CfgNext]_cfgVars PROVE CfgInv'
    OBVIOUS
  <1>1. CASE Ready /\ Operation
    <2>1. Sound(disk) /\ Keeps(disk, asked) /\ asked \in Request /\ step = "idle"
      BY <1>1 DEF CfgInv, Ready
    <2>2. PICK doc, wish : Run(doc, wish) /\ Edited(disk, asked, doc, wish)
      BY <1>1, <2>1, OperationEdits
    <2>3. /\ mem' = doc /\ job' = wish /\ step' = "raw"
          /\ disk' = disk /\ asked' = asked /\ crashes' = crashes
      BY <2>2 DEF Run
    <2>4. /\ Sound(doc) /\ wish \in Request /\ Keeps(doc, asked) /\ Keeps(doc, wish)
          /\ Means(disk, asked) /\ Pretty(disk) => Means(doc, wish)
      BY <2>1, <2>2 DEF Edited
    <2> QED  BY <2>1, <2>3, <2>4 DEF CfgInv
  <1>2. CASE BeginSave
    BY <1>2 DEF CfgInv, BeginSave
  <1>3. CASE EndRawSave
    BY <1>3 DEF CfgInv, EndRawSave
  <1>4. CASE Reparse
    <2>1. /\ mem' = indent_xml_file(disk) /\ step' = "pretty" /\ step = "indent"
          /\ disk' = disk /\ asked' = asked /\ job' = job /\ crashes' = crashes
      BY <1>4 DEF Reparse
    <2>2. Sound(disk) /\ Keeps(disk, asked) /\ Keeps(disk, job)
      BY <2>1 DEF CfgInv
    <2>3. /\ Sound(mem') /\ Pretty(mem') /\ Keeps(mem', asked) /\ Keeps(mem', job)
          /\ Means(disk, job) => Means(mem', job)
      BY <2>1, <2>2, IndentSound, IndentMeaning
    <2> QED  BY <2>1, <2>2, <2>3 DEF CfgInv
  <1>5. CASE EndPrettySave
    BY <1>5 DEF CfgInv, EndPrettySave
  <1>6. CASE Crash
    <2>1. crashes \in Nat
      BY DEF CfgInv
    <2>2. crashes' = crashes + 1
      BY <1>6 DEF Crash
    <2>3. crashes' # 0 /\ crashes' \in Nat
      BY <2>1, <2>2
    <2>4. /\ step' = "idle" /\ disk' = disk /\ mem' = mem
          /\ asked' = asked /\ job' = job
      BY <1>6 DEF Crash
    <2> QED  BY <2>3, <2>4 DEF CfgInv
  <1>7. CASE UNCHANGED cfgVars
    BY <1>7 DEF CfgInv, cfgVars
  <1> QED  BY <1>1, <1>2, <1>3, <1>4, <1>5, <1>6, <1>7 DEF CfgNext

(***************************************************************************)
(* The invariant holds in every state of every sequence of robo_config     *)
(* runs.                                                                   *)
(***************************************************************************)
THEOREM ConfigInvariant == CfgSpec => []CfgInv
  BY CfgInvInit, CfgInvNext, PTL DEF CfgSpec

-----------------------------------------------------------------------------

\* A sound document that hides nothing is read in full.
LEMMA PrettyIsRead ==
  ASSUME NEW d, Sound(d), Pretty(d)
  PROVE  FullyRead(d)
  <1>1. /\ d.tools \in Element(Tool) /\ d.installed \in Element(ToolNode)
        /\ d.input \in Element(InputNode) /\ d.errors \in [ErrId -> Element(Detail)]
    BY Fields DEF Sound
  <1>2. ReadAll(d.tools) = d.tools.kids /\ Seen(d.installed) = 1..Len(d.installed.kids)
    BY <1>1, ShownElement DEF Sound, ToolsSound, Shows
  <1>3. ASSUME NEW k \in 1..Len(d.installed.kids)
        PROVE  /\ d.installed.kids[k].lead
               /\ ReadAll(d.installed.kids[k].params) = d.installed.kids[k].params.kids
               /\ ReadAll(d.installed.kids[k].errs) = d.installed.kids[k].errs.kids
    <2>1. d.installed.kids[k] \in ToolNode
      BY <1>1 DEF Element
    <2>2. /\ d.installed.kids[k].params \in Element(Argument)
          /\ d.installed.kids[k].errs \in Element(ErrId)
      BY <2>1 DEF ToolNode
    <2> QED  BY <2>2, ShownElement DEF Sound, NodesSound, Pretty, NodesShown
  <1>4. Seen(d.input) = 1..Len(d.input.kids)
    BY <1>1, ShownElement DEF Pretty, InputShown
  <1>5. ASSUME NEW k \in 1..Len(d.input.kids)
        PROVE  ReadAll(d.input.kids[k].body) = d.input.kids[k].body.kids
    <2>1. d.input.kids[k].body \in Element(Source \cup Argument)
      BY <1>1, InputLengths
    <2> QED  BY <2>1, ShownElement DEF Sound, InputSound, Pretty, InputShown
  <1>6. ASSUME NEW id \in ErrId PROVE Seen(d.errors[id]) = 1..Len(d.errors[id].kids)
    <2>1. d.errors[id] \in Element(Detail)
      BY <1>1
    <2> QED  BY <2>1, ShownElement DEF Pretty, DetailsShown
  <1> QED  BY <1>2, <1>3, <1>4, <1>5, <1>6 DEF FullyRead

(***************************************************************************)
(* After a run of robo_config that completes, whatever runs came before    *)
(* and however many of them crashed, robocheck's lookups and loops meet    *)
(* every child in the file and none that is not there.                     *)
(***************************************************************************)
THEOREM CompletedRunsHeal == CfgSpec => CompletedRunHeals
  <1>1. ASSUME CfgInv, [CfgNext]_cfgVars, step = "writing pretty", step' = "idle",
               disk' # Torn
        PROVE  FullyRead(disk')
    <2>1. Sound(mem) /\ Pretty(mem)
      BY <1>1 DEF CfgInv
    <2>2. EndPrettySave \/ Crash
      BY <1>1 DEF CfgNext, Ready, BeginSave, EndRawSave, Reparse, cfgVars
    <2>3. CASE EndPrettySave
      BY <2>1, <2>3, PrettyIsRead DEF EndPrettySave
    <2>4. CASE Crash
      BY <1>1, <2>4 DEF CfgInv, Crash
    <2> QED  BY <2>2, <2>3, <2>4
  <1>2. CfgInv /\ [CfgNext]_cfgVars =>
          [step = "writing pretty" /\ step' = "idle" /\ disk' # Torn => FullyRead(disk')]_cfgVars
    BY <1>1
  <1> QED  BY <1>2, ConfigInvariant, PTL DEF CfgSpec, CompletedRunHeals

(***************************************************************************)
(* Every tool that run_robocheck finds in a file that parses is installed  *)
(* there, for every sequence of runs and crashes.                          *)
(***************************************************************************)
THEOREM StartupAlwaysRunnable == CfgSpec => []StartupRunnable
  <1>1. ASSUME CfgInv, disk # Torn, NEW k \in 1..Len(startup_tools(disk))
        PROVE  ToolAt(disk, startup_tools(disk)[k]) # 0
    <2>1. Sound(disk)
      BY <1>1 DEF CfgInv
    <2>2. /\ disk.tools \in Element(Tool) /\ disk.tools.kids \in Seq(Tool)
          /\ Shows(disk.tools) /\ Counted(disk.tools)
      BY <2>1, Fields DEF Sound, ToolsSound, Shows, Element
    <2>3. startup_tools(disk) = disk.tools.kids
      BY <2>2, ShownElement DEF startup_tools
    <2> DEFINE t == startup_tools(disk)[k]
    <2>4. t \in Tool
      BY <2>2, <2>3
    <2>5. Named(disk.installed, t) # {}
      BY <2>1, <2>3 DEF Sound, ToolsSound, Named
    <2> QED  BY <2>1, <2>4, <2>5, ToolLookup
  <1>2. CfgInv => StartupRunnable
    BY <1>1 DEF StartupRunnable
  <1> QED  BY <1>2, ConfigInvariant, PTL

(***************************************************************************)
(* In a file that parses nothing is missing of the files, arguments, tools *)
(* and errors that the completed runs of robo_config added, and the        *)
(* executable and the details they set are still set (to their value or a  *)
(* crashed run's), for every sequence of runs and crashes.                 *)
(***************************************************************************)
THEOREM AcknowledgedAlwaysStored == CfgSpec => []AcknowledgedStored
  <1>1. ASSUME CfgInv, disk # Torn
        PROVE  /\ \A k \in 1..Len(asked.files) : Stored(disk, "static", asked.files[k])
               /\ \A k \in 1..Len(asked.args) : Stored(disk, "dynamic", asked.args[k])
               /\ asked.exec # None => Tagged(disk.input, "dynamic") # {}
               /\ \A k \in 1..Len(asked.tools) :
                    \E j \in 1..Len(disk.tools.kids) : disk.tools.kids[j] = asked.tools[k]
               /\ \A t \in asked.created : Named(disk.installed, t) # {}
               /\ \A t \in asked.created : \A id \in asked.errs[t] :
                    HoldsError(disk.installed, t, id)
               /\ \A id \in ErrId : asked.details[id] # None => disk.errors[id].kids # <<>>
    <2>1. Keeps(disk, asked) /\ asked.created \in SUBSET Tool
      BY <1>1 DEF CfgInv, Request
    <2>2. \A tag, f : HoldsInput(disk.input, tag, f) => Stored(disk, tag, f)
      BY DEF HoldsInput, Stored
    <2> QED  BY <2>1, <2>2 DEF Keeps, KeepsFiles, KeepsArgs, KeepsExec, KeepsTools, HoldsTool,
                KeepsErrors, KeepsCreated, KeepsDetails
  <1>2. CfgInv => AcknowledgedStored
    BY <1>1 DEF AcknowledgedStored, HoldsError, Tagged, Named
  <1> QED  BY <1>2, ConfigInvariant, PTL

(***************************************************************************)
(* Before the first crash robocheck reads from the file exactly what the   *)
(* completed runs of robo_config accepted, for every sequence of runs:     *)
(* tools, files, arguments and errors, the executable, the penalty option  *)
(* and the details of errors; the structures for files and for the program *)
(* are unset exactly until the first file or the executable is accepted.   *)
(***************************************************************************)
THEOREM ConfiguredAlwaysRead == CfgSpec => []ConfiguredIsRead
  <1>1. ASSUME CfgInv, step = "idle", crashes = 0
        PROVE  /\ startup_tools(disk) = asked.tools
               /\ extract_static_input(disk) = IF asked.files = <<>> THEN Unset ELSE asked.files
               /\ extract_dynamic_input(disk) =
                    IF asked.exec = None THEN Unset
                    ELSE [exec |-> asked.exec, args |-> asked.args]
               /\ \A t \in asked.created : extract_tool_errset(disk, t) = asked.errs[t]
               /\ \A id \in ErrId : error_details(disk, id) = asked.details[id]
               /\ disk.load = asked.load
    <2>1. Sound(disk) /\ Means(disk, asked) /\ Pretty(disk) /\ asked \in Request
      BY <1>1 DEF CfgInv
    <2>2. /\ disk \in Document
          /\ disk.tools \in Element(Tool) /\ disk.installed \in Element(ToolNode)
          /\ disk.input \in Element(InputNode)
          /\ disk.errors \in [ErrId -> Element(Detail)]
          /\ disk.load \in BOOLEAN
      BY <2>1, Fields DEF Sound
    <2>3. startup_tools(disk) = asked.tools
      BY <2>1, <2>2, ShownElement DEF startup_tools, Means, Sound, ToolsSound, Shows
    <2>4. \A tag : /\ InputAt(disk, tag) # 0 => InputAt(disk, tag) \in Tagged(disk.input, tag)
                   /\ Tagged(disk.input, tag) # {} => InputAt(disk, tag) # 0
      BY <2>1, <2>2, InputLookup DEF Pretty, InputShown
    <2>5. ASSUME NEW k \in 1..Len(disk.input.kids)
          PROVE  ReadAll(disk.input.kids[k].body) = disk.input.kids[k].body.kids
      <3>1. disk.input.kids[k].body \in Element(Source \cup Argument)
        BY <2>2, InputLengths
      <3>2. Shows(disk.input.kids[k].body) /\ Counted(disk.input.kids[k].body)
        BY <2>1 DEF Sound, InputSound, Pretty, InputShown
      <3> QED  BY <3>1, <3>2, ShownElement
    <2>6. extract_static_input(disk) = IF asked.files = <<>> THEN Unset ELSE asked.files
      <3>1. CASE Tagged(disk.input, "static") = {}
        BY <2>1, <2>4, <3>1 DEF extract_static_input, Means, MeansStatic
      <3>2. CASE Tagged(disk.input, "static") # {}
        <4>1. PICK k \in 1..Len(disk.input.kids) :
                /\ Tagged(disk.input, "static") = {k}
                /\ disk.input.kids[k].body.kids = asked.files /\ asked.files # <<>>
          BY <2>1, <3>2 DEF Means, MeansStatic
        <4>2. InputAt(disk, "static") = k /\ InputAt(disk, "static") # 0
          BY <2>4, <4>1
        <4> QED  BY <2>5, <4>1, <4>2 DEF extract_static_input
      <3> QED  BY <3>1, <3>2
    <2>7. extract_dynamic_input(disk) = IF asked.exec = None THEN Unset
                                        ELSE [exec |-> asked.exec, args |-> asked.args]
      <3>1. CASE Tagged(disk.input, "dynamic") = {}
        BY <2>1, <2>4, <3>1 DEF extract_dynamic_input, Means, MeansDynamic
      <3>2. CASE Tagged(disk.input, "dynamic") # {}
        <4>1. PICK k \in 1..Len(disk.input.kids) :
                /\ Tagged(disk.input, "dynamic") = {k}
                /\ disk.input.kids[k].value = asked.exec
                /\ disk.input.kids[k].body.kids = asked.args /\ asked.exec # None
          BY <2>1, <3>2 DEF Means, MeansDynamic
        <4>2. InputAt(disk, "dynamic") = k /\ InputAt(disk, "dynamic") # 0
          BY <2>4, <4>1
        <4> QED  BY <2>5, <4>1, <4>2 DEF extract_dynamic_input
      <3> QED  BY <3>1, <3>2
    <2>8. ASSUME NEW t \in asked.created PROVE extract_tool_errset(disk, t) = asked.errs[t]
      <3> DEFINE p == ToolAt(disk, t)
                 e == disk.installed.kids[p].errs
      <3>1. t \in Tool /\ asked.errs[t] \in SUBSET ErrId
        BY <2>1 DEF Request
      <3>2. PICK k \in Named(disk.installed, t) :
              /\ \A j \in Named(disk.installed, t) : k <= j
              /\ Members(disk.installed.kids[k].errs.kids) = asked.errs[t]
        BY <2>1, <3>1 DEF Means, MeansErrors
      <3>3. p \in Named(disk.installed, t) /\ \A j \in Named(disk.installed, t) : p <= j
        BY <2>1, <3>1, <3>2, ToolLookup
      <3>4. p = k /\ p \in 1..Len(disk.installed.kids)
        <4>1. k <= p /\ p <= k /\ k \in Int /\ p \in Int
          BY <3>2, <3>3 DEF Named
        <4> QED  BY <3>3, <4>1 DEF Named
      <3>5. disk.installed.kids[p] \in ToolNode
        BY <2>2, <3>4 DEF Element
      <3>6. e \in Element(ErrId) /\ Counted(e) /\ Shows(e)
        BY <2>1, <3>4, <3>5 DEF ToolNode, Sound, NodesSound, Pretty, NodesShown
      <3>7. ReadAll(e) = e.kids /\ e.count = Len(e.kids)
        BY <3>6, ShownElement DEF Counted
      <3>8. extract_tool_errset(disk, t) = Members(e.kids) \ {None}
        BY <3>7 DEF extract_tool_errset, Members
      <3>9. None \notin asked.errs[t]
        BY <3>1, CfgAssumption
      <3> QED  BY <3>2, <3>4, <3>8, <3>9
    <2>9. ASSUME NEW id \in ErrId PROVE error_details(disk, id) = asked.details[id]
      <3>1. /\ DetailAt(disk, id) # 0 => DetailAt(disk, id) \in 1..Len(disk.errors[id].kids)
            /\ Shows(disk.errors[id]) /\ disk.errors[id].kids = <<>> => DetailAt(disk, id) = 0
            /\ Shows(disk.errors[id]) /\ Len(disk.errors[id].kids) = 1 => DetailAt(disk, id) = 1
        BY <2>2, DetailLookup
      <3>2. Shows(disk.errors[id])
        BY <2>1 DEF Pretty, DetailsShown
      <3>3. disk.errors[id].kids =
              IF asked.details[id] = None THEN <<>> ELSE <<asked.details[id]>>
        BY <2>1 DEF Means, MeansDetails
      <3>4. error_details(disk, id) = IF DetailAt(disk, id) = 0 THEN None
                                      ELSE disk.errors[id].kids[DetailAt(disk, id)]
        BY DEF error_details, DetailAt
      <3>5. CASE asked.details[id] = None
        BY <3>1, <3>2, <3>3, <3>4, <3>5
      <3>6. CASE asked.details[id] # None
        BY <3>1, <3>2, <3>3, <3>4, <3>6
      <3> QED  BY <3>5, <3>6
    <2>10. disk.load = asked.load
      <3>1. asked.load \in BOOLEAN /\ (disk.load <=> asked.load)
        BY <2>1 DEF Request, Means
      <3> QED  BY <2>2, <3>1
    <2> QED  BY <2>3, <2>6, <2>7, <2>8, <2>9, <2>10
  <1>2. CfgInv => ConfiguredIsRead
    BY <1>1 DEF ConfiguredIsRead
  <1> QED  BY <1>2, ConfigInvariant, PTL
=============================================================================

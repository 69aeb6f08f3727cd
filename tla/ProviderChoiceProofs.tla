------------------------ MODULE ProviderChoiceProofs ------------------------
(***************************************************************************)
(* Theorems about ProviderChoice, for every set of command lines,          *)
(* environments and configurations.                                        *)
(***************************************************************************)
EXTENDS ProviderChoice, TLAPS

-----------------------------------------------------------------------------
(***************************************************************************)
(* What determineProvider returns.                                         *)
(***************************************************************************)
\* ToProvider builds a provider from the entry it is given, or none.
LEMMA ToProviderFrom ==
    ASSUME NEW p, NEW e
    PROVE  \/ ToProvider(p, e) = NoOp
           \/ /\ ToProvider(p, e).from = p
              /\ ToProvider(p, e).kind \in {"google", "azure", "gitlabci", "gitlab", "hello",
                                            "github", "forgejo", "generic"}
BY DEF ToProvider, Op

\* IsCICDProvider recognises every entry that is built for CI/CD.
LEMMA NotForCICD ==
    ASSUME NEW p, NEW e, ~IsCICDProvider(p), ToProvider(p, e) # NoOp
    PROVE  Browser(ToProvider(p, e))
BY DEF ToProvider, Op, IsCICDProvider, Browser

\* A provider that ToProvider returns for some entry and environment.
Made(o) == \E p : \E e : o = ToProvider(p, e)

\* A result is an error, one provider, or a list to choose from; which error it
\* is does not matter but for the one of the chooser.
Sound(r) ==
    /\ r.kind \in {"error", "op", "chooser"}
    /\ r # Error("not browser")
    /\ r.kind = "op" => r.op # NoOp /\ Made(r.op)
    /\ r.kind = "chooser" =>
         /\ r.ops # {}
         /\ \A o \in r.ops : Browser(o) /\ o # NoOp /\ Made(o)

\* The provider built for an entry is sound, or the error is.
LEMMA BuiltSound ==
    ASSUME NEW p, NEW e
    PROVE  Sound(Built(ToProvider(p, e)))
BY DEF Sound, Made, Built, Error

\* The chooser offers what can be chosen.
LEMMA ChooserSound ==
    ASSUME NEW list, NEW e
    PROVE  Sound(Chooser(list, e))
<1> DEFINE offered == {i \in DOMAIN list : ~IsCICDProvider(list[i])}
           ops == {ToProvider(list[i], e) : i \in offered}
<1>1. \A o \in ops : o = NoOp \/ (Browser(o) /\ Made(o))
    BY NotForCICD DEF Made
<1>2. NoOp \notin ops => ~ \E o \in ops : ~Browser(o)
    BY <1>1
<1>3. Chooser(list, e) = IF NoOp \in ops THEN Error("build")
                         ELSE IF \E o \in ops : ~Browser(o) THEN Error("not browser")
                         ELSE IF ops = {} THEN Error("nothing to choose")
                         ELSE [kind |-> "chooser", ops |-> ops]
    BY DEF Chooser
<1> HIDE DEF ops
<1>4. CASE NoOp \in ops \/ ops = {}
  <2>1. Chooser(list, e) = Error("build") \/ Chooser(list, e) = Error("nothing to choose")
      BY <1>3, <1>4
  <2>2. Sound(Error("build")) /\ Sound(Error("nothing to choose"))
      BY DEF Sound, Error
  <2> QED
      BY <2>1, <2>2
<1>5. CASE NoOp \notin ops /\ ops # {}
  <2>1. Chooser(list, e) = [kind |-> "chooser", ops |-> ops]
      BY <1>2, <1>3, <1>5
  <2> DEFINE r == [kind |-> "chooser", ops |-> ops]
  <2>2. r.kind = "chooser" /\ r.ops = ops /\ r # Error("not browser")
      BY DEF Error
  <2>3. \A o \in ops : Browser(o) /\ o # NoOp /\ Made(o)
      BY <1>1, <1>5
  <2> HIDE DEF r
  <2>4. Sound(r)
      BY <1>5, <2>2, <2>3 DEF Sound
  <2> QED
      BY <2>1, <2>4 DEF r
<1> QED
    BY <1>4, <1>5

\* Every result of determineProvider is sound.
LEMMA DetermineSound ==
    ASSUME NEW a, NEW e, NEW c
    PROVE  Sound(DetermineProvider(a, e, c))
<1>1. \A why \in {"parse", "no providers", "duplicate", "not here", "unset the list",
                  "no such alias"} : Sound(Error(why))
    BY DEF Sound, Error
<1>2. \A alias, list : Sound(ByAlias(alias, list, e))
    BY <1>1, BuiltSound DEF ByAlias, NotFound
<1> QED
    BY <1>1, <1>2, BuiltSound, ChooserSound DEF DetermineProvider

-----------------------------------------------------------------------------
\* Only the two places that call determineProvider and the chooser set found
\* and op.
ResultInv ==
    /\ Sound(found)
    /\ op = NoOp \/ Made(op)
    /\ stage = "asking" => found.kind = "chooser"

\* ResultInv holds in every state.
LEMMA ResultInvariant == Spec => []ResultInv
<1>1. Sound(Error("none"))
    BY DEF Sound, Error
<1>2. Init => ResultInv
    BY <1>1 DEF Init, ResultInv
<1>3. ResultInv /\ [Next]_vars => ResultInv'
  <2> SUFFICES ASSUME ResultInv, [Next]_vars PROVE ResultInv'
      OBVIOUS
  <2>1. CASE Exit
      BY <1>1, <2>1 DEF Exit, ResultInv
  <2>2. CASE Determine
    <3>1. Sound(found')
        BY <2>2, DetermineSound DEF Determine
    <3>2. op' = op \/ (found'.kind = "op" /\ op' = found'.op)
        BY <2>2 DEF Determine
    <3>3. op' = NoOp \/ Made(op')
      <4>1. CASE op' = op
          BY <4>1 DEF ResultInv
      <4>2. CASE found'.kind = "op" /\ op' = found'.op
          BY <3>1, <4>2 DEF Sound
      <4> QED
          BY <3>2, <4>1, <4>2
    <3>4. stage' = "asking" => found'.kind = "chooser"
        BY <2>2 DEF Determine, Ends
    <3> QED
        BY <3>1, <3>3, <3>4 DEF ResultInv
  <2>3. CASE ChooseOp
      BY <2>3 DEF ChooseOp, ResultInv, Sound, Ends
  <2>4. CASE UNCHANGED <<found, op>> /\ stage' # "asking"
      BY <2>4 DEF ResultInv
  <2>5. CASE UNCHANGED <<found, op, stage>>
      BY <2>5 DEF ResultInv
  <2>6. ASSUME NEW a \in Args, NEW e \in Envs, Begin(a, e)
        PROVE  UNCHANGED <<found, op>> /\ stage' # "asking"
      BY <2>6 DEF Begin
  <2>7. ASSUME StatConfig \/ ReadConfig \/ CreateConfig \/ RegisterCI \/ StartLogin
        PROVE  UNCHANGED <<found, op>> /\ stage' # "asking"
      BY <2>7 DEF StatConfig, ReadConfig, CreateConfig, RegisterCI, StartLogin, Ends
  <2>8. ASSUME NEW f \in Configs \cup {NoFile, Broken}, EditConfig(f)
        PROVE  UNCHANGED <<found, op, stage>>
      BY <2>8 DEF EditConfig
  <2> QED
      BY <2>1, <2>2, <2>3, <2>4, <2>5, <2>6, <2>7, <2>8 DEF Next, vars
<1> QED
    BY <1>2, <1>3, PTL DEF Spec

\* The web chooser is never empty and only offers providers with a browser
\* flow; the error for any other is dead code.
THEOREM ChooserAlwaysUsable == Spec => []ChooserIsUsable
<1>1. ResultInv => ChooserIsUsable
    BY DEF ResultInv, Sound, ChooserIsUsable
<1> QED
    BY <1>1, ResultInvariant, PTL

\* A well-typed value of each variable.
TypeInv ==
    /\ TypeOK
    /\ stage \in {"start", "read", "create", "loaded", "registered", "asking", "chosen"} =>
          send = args.send

\* TypeInv holds in every state.
LEMMA TypeInvariant == Spec => []TypeInv
<1>0. NoArgs \in Args /\ NoEnv \in Envs
    BY InputsAssumption DEF NoArgs, NoEnv
<1>1. Init => TypeInv
  <2>1. Error("none").kind = "error" /\ NoOp.kind = "none"
      BY DEF Error, NoOp
  <2> QED
      BY <1>0, <2>1 DEF Init, TypeInv, TypeOK
<1>2. TypeInv /\ ResultInv /\ ResultInv' /\ [Next]_vars => TypeInv'
  <2> SUFFICES ASSUME TypeInv, ResultInv, ResultInv', [Next]_vars PROVE TypeInv'
      OBVIOUS
  <2>1. /\ found'.kind \in {"error", "op", "chooser"}
        /\ op'.kind \in {"none", "google", "azure", "gitlabci", "gitlab", "hello",
                         "github", "forgejo", "generic"}
    <3>1. NoOp.kind = "none"
        BY DEF NoOp
    <3>2. op' = NoOp \/ Made(op')
        BY DEF ResultInv
    <3>3. found'.kind \in {"error", "op", "chooser"}
        BY DEF ResultInv, Sound
    <3> QED
        BY <3>1, <3>2, <3>3, ToProviderFrom DEF Made
  <2>2. CASE Exit
      BY <1>0, <2>1, <2>2 DEF Exit, TypeInv, TypeOK
  <2>3. ASSUME NEW a \in Args, NEW e \in Envs, Begin(a, e) PROVE TypeInv'
      BY <2>1, <2>3, InputsAssumption DEF Begin, TypeInv, TypeOK
  <2>4. CASE StatConfig \/ ReadConfig \/ CreateConfig
      BY <2>1, <2>4 DEF StatConfig, ReadConfig, CreateConfig, Ends, command, TypeInv, TypeOK
  <2>5. CASE RegisterCI
      BY <2>1, <2>5 DEF RegisterCI, Ends, command, TypeInv, TypeOK
  <2>6. CASE Determine \/ ChooseOp
      BY <2>1, <2>6 DEF Determine, ChooseOp, Ends, command, TypeInv, TypeOK
  <2>7. CASE StartLogin
    <3>1. send' \in BOOLEAN
        BY <2>7 DEF StartLogin, SendConfigured, TypeInv, TypeOK
    <3> QED
        BY <2>1, <2>7, <3>1 DEF StartLogin, Ends, command, TypeInv, TypeOK
  <2>8. ASSUME NEW f \in Configs \cup {NoFile, Broken}, EditConfig(f) PROVE TypeInv'
      BY <2>1, <2>8 DEF EditConfig, command, TypeInv, TypeOK
  <2>9. CASE UNCHANGED vars
      BY <2>9 DEF TypeInv, TypeOK, vars, command
  <2> QED
      BY <2>2, <2>3, <2>4, <2>5, <2>6, <2>7, <2>8, <2>9 DEF Next
<1> QED
    BY <1>1, <1>2, ResultInvariant, PTL DEF Spec

\* Every state of the choice of a provider is well typed.
THEOREM ProviderChoiceTypes == Spec => []TypeOK
<1>1. TypeInv => TypeOK
    BY DEF TypeInv
<1> QED
    BY <1>1, TypeInvariant, PTL

-----------------------------------------------------------------------------
\* The command gets to writing a configuration only if Stat found none.
CreateInv == stage = "create" /\ ~stale => file = NoFile

\* login --create-config writes over no configuration that was there when the
\* command looked.
THEOREM ConfigsSurvive == Spec => CreateSparesConfig
<1>1. Init => CreateInv
    BY DEF Init, CreateInv
<1>2. TypeInv /\ CreateInv /\ [Next]_vars => CreateInv'
  <2> SUFFICES ASSUME TypeInv, CreateInv, [Next]_vars PROVE CreateInv'
      OBVIOUS
  <2>1. CASE stage' # "create"
      BY <2>1 DEF CreateInv
  <2>2. CASE StatConfig
      BY <2>2 DEF StatConfig, CreateInv
  <2>3. ASSUME NEW f \in Configs \cup {NoFile, Broken}, EditConfig(f) PROVE CreateInv'
      BY <2>3 DEF EditConfig, CreateInv
  <2>4. CASE UNCHANGED vars
      BY <2>4 DEF vars, CreateInv
  <2> QED
      BY <2>1, <2>2, <2>3, <2>4 DEF Next, Begin, Exit, ReadConfig, CreateConfig, RegisterCI,
         Determine, ChooseOp, StartLogin, Ends
<1>3. CreateInv /\ [Next]_vars => [CreateConfig /\ ~stale => file = NoFile]_vars
    BY DEF CreateInv, CreateConfig
<1> QED
    BY <1>1, <1>2, <1>3, TypeInvariant, PTL DEF Spec, CreateSparesConfig

-----------------------------------------------------------------------------
(***************************************************************************)
(* The provider that is asked for.                                         *)
(***************************************************************************)
From(r, o) == (r.kind = "op" /\ o = r.op) \/ (r.kind = "chooser" /\ o \in r.ops)

\* The provider comes from the list, and it is the one entry with the alias or
\* one the chooser may offer.
Fits(list, alias, o) ==
    /\ \E i \in DOMAIN list : o.from = list[i]
    /\ alias.word = "webchooser" => Browser(o)
    /\ alias.word # "webchooser" =>
          \A i \in DOMAIN list : (alias \in list[i].names) <=> (list[i] = o.from)

\* An error is not a provider, and what is built comes from its entry.
LEMMA BuiltFrom ==
    ASSUME NEW p, NEW e, NEW o, From(Built(ToProvider(p, e)), o)
    PROVE  o.from = p
<1>1. ToProvider(p, e) # NoOp /\ o = ToProvider(p, e)
    BY DEF From, Built, Error
<1> QED
    BY <1>1, ToProviderFrom

\* No error is a provider.
LEMMA ErrorIsNone ==
    ASSUME NEW why, NEW o
    PROVE  ~From(Error(why), o)
BY DEF From, Error

\* An alias that is found belongs to one entry.
LEMMA ByAliasFits ==
    ASSUME NEW alias, NEW list, NEW e, NEW o, alias.word # "webchooser",
           From(ByAlias(alias, list, e), o)
    PROVE  Fits(list, alias, o)
<1>1. ~Duplicated(list) /\ Named(list, alias) # {}
    BY ErrorIsNone DEF ByAlias, NotFound
<1> DEFINE i == CHOOSE j \in Named(list, alias) : TRUE
<1>2. i \in DOMAIN list /\ alias \in list[i].names
    BY <1>1 DEF Named
<1>3. o.from = list[i]
  <2>1. From(Built(ToProvider(list[i], e)), o)
      BY <1>1 DEF ByAlias
  <2> QED
      BY <2>1, BuiltFrom
<1> HIDE DEF i
<1>4. \A j \in DOMAIN list : alias \in list[j].names => j = i
    BY <1>1, <1>2 DEF Duplicated
<1> QED
    BY <1>2, <1>3, <1>4 DEF Fits

\* The chooser offers entries of the list.
LEMMA ChooserFits ==
    ASSUME NEW alias, NEW list, NEW e, NEW o, alias.word = "webchooser",
           From(Chooser(list, e), o)
    PROVE  Fits(list, alias, o)
<1> DEFINE offered == {i \in DOMAIN list : ~IsCICDProvider(list[i])}
           ops == {ToProvider(list[i], e) : i \in offered}
<1>1. Chooser(list, e) = [kind |-> "chooser", ops |-> ops]
  <2>1. Chooser(list, e) = IF NoOp \in ops THEN Error("build")
                         ELSE IF \E x \in ops : ~Browser(x) THEN Error("not browser")
                         ELSE IF ops = {} THEN Error("nothing to choose")
                         ELSE [kind |-> "chooser", ops |-> ops]
      BY DEF Chooser
  <2> HIDE DEF ops
  <2> QED
      BY <2>1, ErrorIsNone
<1>2. o \in ops
    BY <1>1 DEF From
<1>3. Sound(Chooser(list, e)) /\ Chooser(list, e).kind = "chooser" /\ Chooser(list, e).ops = ops
    BY <1>1, ChooserSound
<1>4. Browser(o) /\ o # NoOp
    BY <1>2, <1>3 DEF Sound
<1>5. \E i \in DOMAIN list : o.from = list[i]
    BY <1>2, <1>4, ToProviderFrom
<1> QED
    BY <1>4, <1>5 DEF Fits

\* determineProvider returns what the command line, the environment and the
\* configuration ask for.
LEMMA DetermineFits ==
    ASSUME NEW a, NEW e, NEW c, NEW o, From(DetermineProvider(a, e, c), o)
    PROVE  /\ a.provider # <<>> => o.from = Parsed(a.provider[1])
           /\ a.provider = <<>> => Fits(ListInForce(e, c), WantedAlias(a, e, c), o)
<1>1. CASE a.provider # <<>>
    BY <1>1, ErrorIsNone, BuiltFrom DEF DetermineProvider
<1>2. CASE a.provider = <<>>
  <2>1. \/ /\ WantedAlias(a, e, c).word # "webchooser"
           /\ From(ByAlias(WantedAlias(a, e, c), ListInForce(e, c), e), o)
        \/ /\ WantedAlias(a, e, c).word = "webchooser"
           /\ From(Chooser(ListInForce(e, c), e), o)
      BY <1>2, ErrorIsNone DEF DetermineProvider
  <2> QED
      BY <1>2, <2>1, ByAliasFits, ChooserFits
<1> QED
    BY <1>1, <1>2

\* What determineProvider was given is still there when a provider is used.
ChoiceInv ==
    /\ stage \in {"asking", "chosen", "login"} => found = DetermineProvider(args, env, conf)
    /\ stage \in {"chosen", "login"} => From(found, op)

\* ChoiceInv holds in every state.
LEMMA ChoiceInvariant == Spec => []ChoiceInv
<1>1. Init => ChoiceInv
    BY DEF Init, ChoiceInv
<1>2. ResultInv /\ ChoiceInv /\ [Next]_vars => ChoiceInv'
  <2> SUFFICES ASSUME ResultInv, ChoiceInv, [Next]_vars PROVE ChoiceInv'
      OBVIOUS
  <2>1. CASE stage' \notin {"asking", "chosen", "login"}
      BY <2>1 DEF ChoiceInv
  <2>2. CASE Determine
    <3>1. stage' \in {"chosen", "login"} => From(found', op')
        BY <2>2 DEF Determine, Ends, From
    <3> QED
        BY <2>2, <3>1 DEF Determine, ChoiceInv, command
  <2>3. CASE ChooseOp
    <3>1. found.kind = "chooser"
        BY <2>3 DEF ChooseOp, ResultInv
    <3>2. stage' \in {"chosen", "login"} => From(found', op')
        BY <2>3, <3>1 DEF ChooseOp, Ends, From
    <3> QED
        BY <2>3, <3>2 DEF ChooseOp, ChoiceInv, command
  <2>4. CASE StartLogin
      BY <2>4 DEF StartLogin, Ends, ChoiceInv, command
  <2>5. CASE UNCHANGED vars
      BY <2>5 DEF vars, ChoiceInv, command
  <2>6. ASSUME NEW f \in Configs \cup {NoFile, Broken}, EditConfig(f)
        PROVE  stage' \notin {"asking", "chosen", "login"}
      BY <2>6 DEF EditConfig
  <2> QED
      BY <2>1, <2>2, <2>3, <2>4, <2>5, <2>6 DEF Next, Begin, Exit, StatConfig, ReadConfig,
         CreateConfig, RegisterCI, Ends
<1> QED
    BY <1>1, <1>2, ResultInvariant, PTL DEF Spec

\* A login goes to the provider the command line, the environment and the
\* configuration ask for, in that order.
THEOREM ChoiceAlwaysAsked == Spec => []ChoiceIsAsked
<1>1. ChoiceInv => ChoiceIsAsked
  <2> SUFFICES ASSUME ChoiceInv, stage \in {"chosen", "login"} PROVE ChoiceIsAsked
      BY DEF ChoiceIsAsked
  <2>1. From(DetermineProvider(args, env, conf), op)
      BY DEF ChoiceInv
  <2> DEFINE list == ListInForce(env, conf)
             alias == WantedAlias(args, env, conf)
  <2>2. args.provider # <<>> => op.from = Parsed(args.provider[1])
      BY <2>1, DetermineFits
  <2>3. args.provider = <<>> => Fits(list, alias, op)
      BY <2>1, DetermineFits
  <2>4. Candidates = {list[i] : i \in DOMAIN list}
      BY DEF Candidates, ListInForce
  <2> HIDE DEF list, alias
  <2>5. ASSUME args.provider = <<>>
        PROVE  op.from \in Candidates /\ Serves(alias)
      BY <2>3, <2>4, <2>5 DEF Fits, Serves
  <2>6. Alias("webchooser").word = "webchooser"
      BY DEF Alias
  <2>7. /\ args.alias # NoAlias => alias = args.alias
        /\ args.alias = NoAlias /\ env.default # NoAlias => alias = env.default
        /\ {args.alias, env.default} = {NoAlias} /\ conf.default # NoAlias =>
              alias = conf.default
        /\ {args.alias, env.default, conf.default} = {NoAlias} => alias = Alias("webchooser")
      BY DEF alias, WantedAlias
  <2>8. Serves(Alias("webchooser")) => Browser(op)
      BY <2>6 DEF Serves
  <2> QED
      BY <2>2, <2>5, <2>7, <2>8 DEF ChoiceIsAsked
<1> QED
    BY <1>1, ChoiceInvariant, PTL

-----------------------------------------------------------------------------
(***************************************************************************)
(* The access token.                                                       *)
(***************************************************************************)
\* The entries a configuration may have, those of the environment included.
KnownEntries ==
    (UNION {{c.providers[i] : i \in DOMAIN c.providers} : c \in Configs \cup {Default}})
    \cup {GitHubProviderConfig, ForgejoProviderConfig}
    \cup {GitlabCiProviderConfig(e.pipeline) : e \in Envs}

\* The configuration of a command is a record with a list of entries.
ConfigShape(c) ==
    /\ DOMAIN c = {"kind", "default", "providers"}
    /\ c.providers \in Seq(KnownEntries)

\* The configurations of the instance have the shape.
LEMMA GivenShape ==
    ASSUME NEW c \in Configs \cup {Default}
    PROVE  ConfigShape(c) /\ c # NoFile /\ c # Broken
<1> DEFINE own == {c.providers[i] : i \in DOMAIN c.providers}
<1>1. c.kind = "config" /\ DOMAIN c = {"kind", "default", "providers"} /\ c.providers \in Seq(own)
    BY InputsAssumption, Zenon
<1>2. own \subseteq KnownEntries
    BY DEF KnownEntries
<1>3. c.providers \in Seq(KnownEntries)
  <2> HIDE DEF own
  <2> QED
      BY <1>1, <1>2
<1> QED
    BY <1>1, <1>3 DEF ConfigShape, NoFile, Broken

\* So has what a failed write of the built-in configuration leaves, if it can
\* be read at all.
LEMMA PartShape ==
    ASSUME NEW c \in WrittenInPart \ {Broken}
    PROVE  ConfigShape(c) /\ IsAlias(c.default)
<1> DEFINE list == Default.providers
<1>1. /\ DOMAIN Default = {"kind", "default", "providers"} /\ list \in Seq(KnownEntries)
      /\ IsAlias(Default.default)
    BY GivenShape, ShapeAssumption DEF ConfigShape
<1>2. CASE c = Empty
  <2>1. ConfigShape(Empty)
      BY DEF Empty, ConfigShape
  <2>2. Empty.default = NoAlias /\ IsAlias(NoAlias)
      BY DEF Empty, NoAlias, Alias, IsAlias
  <2> QED
      BY <1>2, <2>1, <2>2
<1>3. CASE c # Empty
  <2>1. PICK n \in 0 .. Len(list) : c = [Default EXCEPT !.providers = SubSeq(list, 1, n)]
      BY <1>3 DEF WrittenInPart
  <2>2. SubSeq(list, 1, n) \in Seq(KnownEntries)
    <3> HIDE DEF list
    <3>1. Len(list) \in Nat /\ \A i \in 1 .. Len(list) : list[i] \in KnownEntries
        BY <1>1
    <3> QED
        BY <1>1, <2>1, <3>1
  <2> HIDE DEF list
  <2>3. /\ c.providers = SubSeq(list, 1, n) /\ c.default = Default.default
        /\ DOMAIN c = {"kind", "default", "providers"}
      BY <1>1, <2>1
  <2> QED
      BY <1>1, <2>2, <2>3 DEF ConfigShape
<1> QED
    BY <1>2, <1>3

\* At login the token is sent if the command line or the first entry with the
\* issuer asks for it, and not otherwise.
TokenInv ==
    /\ ConfigShape(conf)
    /\ stage = "login" => /\ send => args.send \/ SendConfigured(conf, op.from.issuer)
                          /\ SendConfigured(conf, op.from.issuer) => send
                          /\ args.send => send

\* TokenInv holds in every state.
LEMMA TokenInvariant == Spec => []TokenInv
<1>1. Init => TokenInv
    BY GivenShape DEF Init, TokenInv
<1>2. TypeInv /\ TokenInv /\ [Next]_vars => TokenInv'
  <2> SUFFICES ASSUME TypeInv, TokenInv, [Next]_vars PROVE TokenInv'
      OBVIOUS
  <2>1. CASE UNCHANGED conf /\ stage' # "login"
      BY <2>1 DEF TokenInv
  <2>2. CASE Exit
      BY <2>2, GivenShape DEF Exit, TokenInv
  <2>3. CASE ReadConfig
    <3>1. conf' = conf \/ conf' \in Configs \cup {Default} \/ conf' \in WrittenInPart \ {Broken}
        BY <2>3 DEF ReadConfig, TypeInv, TypeOK
    <3>2. ConfigShape(conf')
        BY <3>1, GivenShape, PartShape DEF TokenInv
    <3> QED
        BY <2>3, <3>2 DEF ReadConfig, Ends, TokenInv
  <2>4. CASE RegisterCI
    <3>1. CASE conf' = conf
        BY <2>4, <3>1 DEF RegisterCI, Ends, TokenInv
    <3>2. CASE conf' # conf
      <4>1. \E s, t \in Seq(KnownEntries) :
               conf' = [conf EXCEPT !.providers = conf.providers \o s \o t]
        <5>1. /\ <<>> \in Seq(KnownEntries)
              /\ <<ForgejoProviderConfig>> \in Seq(KnownEntries)
              /\ <<GitHubProviderConfig>> \in Seq(KnownEntries)
              /\ <<GitlabCiProviderConfig(env.pipeline)>> \in Seq(KnownEntries)
          <6>1. {ForgejoProviderConfig, GitHubProviderConfig, GitlabCiProviderConfig(env.pipeline)}
                   \subseteq KnownEntries
              BY DEF KnownEntries, TypeInv, TypeOK
          <6>2. \A S : \A x \in S : <<x>> \in Seq(S)
              OBVIOUS
          <6>3. \A S : <<>> \in Seq(S)
              OBVIOUS
          <6> QED
              BY <6>1, <6>2, <6>3
        <5> QED
            BY <2>4, <3>2, <5>1 DEF RegisterCI
      <4>2. ConfigShape(conf')
          BY <4>1 DEF ConfigShape, TokenInv
      <4> QED
          BY <2>4, <4>2 DEF RegisterCI, Ends, TokenInv
    <3> QED
        BY <3>1, <3>2
  <2>5. CASE StartLogin
    <3> DEFINE X == SendConfigured(conf, op.from.issuer)
    <3>1. UNCHANGED <<conf, op, args>> /\ send' = (send \/ X)
        BY <2>5 DEF StartLogin, command
    <3>2. send = args.send
        BY <2>5 DEF StartLogin, TypeInv
    <3>3. X' <=> X
        BY <3>1
    <3> HIDE DEF X
    <3>4. (send' => args.send \/ X) /\ (X => send') /\ (args.send => send')
        BY <3>1, <3>2, Zenon
    <3>5. (send' => args'.send \/ X') /\ (X' => send') /\ (args'.send => send')
        BY <3>1, <3>3, <3>4
    <3> QED
        BY <3>1, <3>5 DEF TokenInv, X
  <2>6. CASE UNCHANGED vars
      BY <2>6 DEF vars, command, TokenInv
  <2>7. ASSUME NEW f \in Configs \cup {NoFile, Broken}, EditConfig(f)
        PROVE  UNCHANGED conf /\ stage' # "login"
      BY <2>7 DEF EditConfig
  <2>8. ASSUME StatConfig \/ CreateConfig \/ Determine \/ ChooseOp
        PROVE  UNCHANGED conf /\ stage' # "login"
      BY <2>8 DEF StatConfig, CreateConfig, Determine, ChooseOp, Ends
  <2>9. ASSUME NEW a \in Args, NEW e \in Envs, Begin(a, e)
        PROVE  UNCHANGED conf /\ stage' # "login"
      BY <2>9 DEF Begin
  <2> QED
      BY <2>1, <2>2, <2>3, <2>4, <2>5, <2>6, <2>7, <2>8, <2>9 DEF Next
<1> QED
    BY <1>1, <1>2, TypeInvariant, PTL DEF Spec

\* The access token goes into a certificate exactly as the one entry with the
\* issuer of the provider and the command line ask, and never unasked.
THEOREM TokenAlwaysAsConfigured == Spec => []TokenAsConfigured
<1>1. TokenInv => TokenAsConfigured
  <2> SUFFICES ASSUME TokenInv, stage = "login" PROVE TokenAsConfigured
      BY DEF TokenAsConfigured
  <2> DEFINE list == conf.providers
             same == {i \in DOMAIN list : list[i].issuer = op.from.issuer}
  <2>1. same \subseteq Nat
      BY DEF TokenInv, ConfigShape
  <2>2. SendConfigured(conf, op.from.issuer) <=>
            \E i \in same : (\A j \in same : i <= j) /\ list[i].send
      BY DEF SendConfigured
  <2>3. /\ send => args.send \/ SendConfigured(conf, op.from.issuer)
        /\ SendConfigured(conf, op.from.issuer) => send
        /\ args.send => send
      BY DEF TokenInv
  <2>4. send => args.send \/ \E i \in same : list[i].send
      BY <2>2, <2>3
  <2>5. ASSUME NEW i \in same, same = {i}
        PROVE  send <=> args.send \/ list[i].send
    <3> HIDE DEF same
    <3>1. SendConfigured(conf, op.from.issuer) <=> list[i].send
      <4>1. i <= i
          BY <2>1, <2>5
      <4> QED
          BY <2>2, <2>5, <4>1
    <3> QED
        BY <2>3, <3>1
  <2> QED
      BY <2>4, <2>5 DEF TokenAsConfigured
<1> QED
    BY <1>1, TokenInvariant, PTL

-----------------------------------------------------------------------------
(***************************************************************************)
(* The advice to unset OPKSSH_PROVIDERS.                                   *)
(***************************************************************************)
\* The environment e without OPKSSH_PROVIDERS.
Unset(e) == [e EXCEPT !.list = <<>>]

\* The entry an alias stands for in the CI/CD environment e, if e has it.
EntryOf(word, e) ==
    IF word = "github" THEN GitHubProviderConfig
    ELSE IF word = "gitlab-ci" THEN GitlabCiProviderConfig(e.pipeline)
    ELSE ForgejoProviderConfig

\* The CI/CD provider word is one of the environment e.
Here(word, e) ==
    \/ word = "github" /\ ActionsKind(e) = "github"
    \/ word \in {"forgejo", "codeberg"} /\ ActionsKind(e) = "forgejo"
    \/ word = "gitlab-ci" /\ e.pipeline # ""

\* RegisterCI has appended the CI/CD providers of the environment e to c.
Registered(c, e) ==
    \A word \in {"github", "forgejo", "codeberg", "gitlab-ci"} :
        Here(word, e) => \E i \in DOMAIN c.providers : c.providers[i] = EntryOf(word, e)

\* The advice is only given when the provider is one of the environment.
LEMMA AdviceMeansHere ==
    ASSUME NEW a, NEW e, NEW c, DetermineProvider(a, e, c) = Error("unset the list")
    PROVE  /\ a.provider = <<>>
           /\ WantedAlias(a, e, c).word \in {"github", "forgejo", "codeberg", "gitlab-ci"}
           /\ Here(WantedAlias(a, e, c).word, e)
<1>1. \A p : Built(ToProvider(p, e)) # Error("unset the list")
    BY DEF Built, Error
<1>2. \A list : Chooser(list, e) # Error("unset the list")
  <2> SUFFICES ASSUME NEW list PROVE Chooser(list, e) # Error("unset the list")
      OBVIOUS
  <2> DEFINE offered == {i \in DOMAIN list : ~IsCICDProvider(list[i])}
             ops == {ToProvider(list[i], e) : i \in offered}
  <2>1. Chooser(list, e) = IF NoOp \in ops THEN Error("build")
                           ELSE IF \E x \in ops : ~Browser(x) THEN Error("not browser")
                           ELSE IF ops = {} THEN Error("nothing to choose")
                           ELSE [kind |-> "chooser", ops |-> ops]
      BY DEF Chooser
  <2>2. \A why \in {"build", "not browser", "nothing to choose"} :
           Error(why) # Error("unset the list")
      BY DEF Error
  <2> DEFINE r == [kind |-> "chooser", ops |-> ops]
  <2>3. r.kind = "chooser" /\ Error("unset the list").kind = "error"
      BY DEF Error
  <2> HIDE DEF ops
  <2>4. Chooser(list, e) = r => Chooser(list, e) # Error("unset the list")
      BY <2>3
  <2> QED
      BY <2>1, <2>2, <2>4
<1> DEFINE alias == WantedAlias(a, e, c)
           list == ListInForce(e, c)
<1>3. Error("parse") # Error("unset the list") /\ Error("no providers") # Error("unset the list")
    BY DEF Error
<1>4. a.provider = <<>> /\ ByAlias(alias, list, e) = Error("unset the list")
    BY <1>1, <1>2, <1>3 DEF DetermineProvider
<1> HIDE DEF alias, list
<1>5. NotFound(alias, e) = Error("unset the list")
    BY <1>1, <1>4 DEF ByAlias, Error
<1>6. /\ alias.word \in {"github", "forgejo", "codeberg", "gitlab-ci"}
      /\ Here(alias.word, e)
    BY <1>5 DEF NotFound, Error, Here
<1> QED
    BY <1>4, <1>6 DEF alias

\* The entry of a CI/CD environment is built there, and not for the browser.
LEMMA EntryIsBuilt ==
    ASSUME NEW e \in Envs, NEW word \in {"github", "forgejo", "codeberg", "gitlab-ci"},
           Here(word, e)
    PROVE  /\ Alias(word) \in EntryOf(word, e).names
           /\ LET o == ToProvider(EntryOf(word, e), Unset(e))
              IN  \/ o # NoOp /\ ~Browser(o)
                  \/ o = NoOp /\ e.pipeline = "plain"
<1>1. Unset(e).actions = e.actions /\ Unset(e).pipeline = e.pipeline
    BY ShapeAssumption DEF Unset
<1>2. e.pipeline \notin {"google", "azure"}
    BY ShapeAssumption
<1>3. \A p, kind : Op(kind, p) # NoOp /\ Op(kind, p).kind = kind
    BY DEF Op, NoOp
<1>4. \A w, v : w # v => Alias(w) # Alias(v)
    BY DEF Alias
<1>5. CASE word = "github"
  <2> DEFINE p == EntryOf(word, e)
  <2>1. p.issuer = "github" /\ p.client = "unused" /\ p.names = {Alias("github")}
      BY <1>5 DEF EntryOf, GitHubProviderConfig, Entry
  <2>2. GithubOpOK(Unset(e)) /\ Alias("gitlab-ci") \notin p.names
      BY <1>1, <1>4, <1>5, <2>1 DEF GithubOpOK, Here, ActionsKind
  <2> HIDE DEF p
  <2>3. ToProvider(p, Unset(e)) = Op("github", p)
      BY <2>1, <2>2 DEF ToProvider
  <2> QED
      BY <1>3, <1>5, <2>1, <2>3 DEF p, Browser
<1>6. CASE word \in {"forgejo", "codeberg"}
  <2> DEFINE p == EntryOf(word, e)
  <2>1. /\ p.issuer = "forgejo" /\ p.client = "unused"
        /\ p.names = {Alias("forgejo"), Alias("codeberg")}
      BY <1>6 DEF EntryOf, ForgejoProviderConfig, Entry
  <2>2. ForgejoOpOK(Unset(e)) /\ Alias("gitlab-ci") \notin p.names
      BY <1>1, <1>4, <1>6, <2>1 DEF ForgejoOpOK, Here, ActionsKind
  <2> HIDE DEF p
  <2>3. ToProvider(p, Unset(e)) = Op("forgejo", p)
      BY <2>1, <2>2 DEF ToProvider, IsForgejo
  <2> QED
      BY <1>3, <1>6, <2>1, <2>3 DEF p, Browser
<1>7. CASE word = "gitlab-ci"
  <2> DEFINE p == EntryOf(word, e)
  <2>1. p.issuer = e.pipeline /\ p.client = "unused" /\ p.names = {Alias("gitlab-ci")}
      BY <1>7 DEF EntryOf, GitlabCiProviderConfig, Entry
  <2>2. e.pipeline # ""
      BY <1>7 DEF Here
  <2> HIDE DEF p
  <2>3. ToProvider(p, Unset(e)) = IF e.pipeline = "plain" THEN NoOp ELSE Op("gitlabci", p)
      BY <1>1, <1>2, <2>1, <2>2 DEF ToProvider
  <2> QED
      BY <1>3, <1>7, <2>1, <2>3 DEF p, Browser
<1> QED
    BY <1>5, <1>6, <1>7

\* The empty list has no positions.
LEMMA EmptyDomain == \A i : i \notin DOMAIN <<>>
OBVIOUS

\* The alias of a command is a word and its spelling.
LEMMA WantedShape ==
    ASSUME NEW a \in Args, NEW e \in Envs, NEW c, IsAlias(c.default)
    PROVE  IsAlias(WantedAlias(a, e, c))
<1>1. IsAlias(Alias("webchooser"))
    BY DEF Alias, IsAlias
<1>2. IsAlias(a.alias) /\ IsAlias(e.default)
    BY ShapeAssumption
<1> QED
    BY <1>1, <1>2 DEF WantedAlias

\* An alias in lower case that one entry has finds this entry, or the list uses
\* an alias twice.
LEMMA ByAliasFinds ==
    ASSUME NEW list, NEW alias, NEW e, NEW k \in DOMAIN list, alias \in list[k].names
    PROVE  \/ ByAlias(alias, list, e) = Error("duplicate")
           \/ ByAlias(alias, list, e) = Built(ToProvider(list[k], e))
<1>1. CASE Duplicated(list)
    BY <1>1 DEF ByAlias
<1>2. CASE ~Duplicated(list)
  <2>1. k \in Named(list, alias)
      BY DEF Named
  <2> DEFINE i == CHOOSE j \in Named(list, alias) : TRUE
  <2>2. i \in Named(list, alias)
      BY <2>1
  <2>3. ByAlias(alias, list, e) = Built(ToProvider(list[i], e))
      BY <1>2, <2>1 DEF ByAlias
  <2> HIDE DEF i
  <2>4. i = k
      BY <1>2, <2>2 DEF Named, Duplicated
  <2> QED
      BY <2>3, <2>4
<1> QED
    BY <1>1, <1>2

\* Without OPKSSH_PROVIDERS the provider of the environment is found.
LEMMA AdviceIsGood ==
    ASSUME NEW a \in Args, NEW e \in Envs, NEW c,
           IsAlias(c.default), Registered(c, e),
           DetermineProvider(a, e, c) = Error("unset the list"),
           ~WantedAlias(a, e, c).caps
    PROVE  LET again == DetermineProvider(a, Unset(e), c)
           IN  \/ again.kind = "op" /\ ~Browser(again.op)
               \/ again = Error("duplicate")
               \/ again = Error("build") /\ e.pipeline = "plain"
<1> DEFINE alias == WantedAlias(a, e, c)
           word == alias.word
           again == DetermineProvider(a, Unset(e), c)
<1>1. /\ a.provider = <<>> /\ Here(word, e)
      /\ word \in {"github", "forgejo", "codeberg", "gitlab-ci"}
    BY AdviceMeansHere
<1>2. alias = Alias(word)
    BY WantedShape DEF Alias, IsAlias
<1>3. Unset(e).list = <<>> /\ Unset(e).default = e.default
    BY ShapeAssumption DEF Unset
<1>4. WantedAlias(a, Unset(e), c) = alias /\ ListInForce(Unset(e), c) = c.providers
    BY <1>3 DEF WantedAlias, ListInForce
<1> HIDE DEF alias, again
<1>5. PICK k \in DOMAIN c.providers : c.providers[k] = EntryOf(word, e)
    BY <1>1 DEF Registered
<1>6. c.providers # <<>> /\ DOMAIN Unset(e).list = {}
    BY <1>3, <1>5, EmptyDomain, Zenon
<1>7. again = ByAlias(alias, c.providers, Unset(e))
  <2>1. ~ \E i \in DOMAIN Unset(e).list : ~ParseOK(Unset(e).list[i])
      BY <1>6, Zenon
  <2>2. word # "webchooser"
      BY <1>1
  <2> QED
      BY <1>1, <1>4, <1>6, <2>1, <2>2 DEF again, DetermineProvider
<1> DEFINE o == ToProvider(EntryOf(word, e), Unset(e))
<1>8. /\ Alias(word) \in EntryOf(word, e).names
      /\ (o # NoOp /\ ~Browser(o)) \/ (o = NoOp /\ e.pipeline = "plain")
    BY <1>1, EntryIsBuilt
<1>9. again = Error("duplicate") \/ again = Built(o)
  <2>1. alias \in c.providers[k].names
      BY <1>2, <1>5, <1>8
  <2>2. \/ ByAlias(alias, c.providers, Unset(e)) = Error("duplicate")
        \/ ByAlias(alias, c.providers, Unset(e)) = Built(ToProvider(c.providers[k], Unset(e)))
      BY <2>1, ByAliasFinds
  <2> QED
      BY <1>5, <1>7, <2>2
<1> HIDE DEF o
<1>10. \/ again.kind = "op" /\ ~Browser(again.op)
       \/ again = Error("duplicate")
       \/ again = Error("build") /\ e.pipeline = "plain"
  <2>1. o # NoOp => Built(o).kind = "op" /\ Built(o).op = o
      BY DEF Built
  <2>2. o = NoOp => Built(o) = Error("build")
      BY DEF Built
  <2> QED
      BY <1>8, <1>9, <2>1, <2>2, Zenon
<1> QED
    BY <1>10 DEF again

\* What the command was started with and the configuration it read are still
\* there when the advice is printed, and the CI/CD providers have been appended.
AdviceInv ==
    /\ IsAlias(conf.default)
    /\ stage = "registered" => Registered(conf, env)
    /\ found = Error("unset the list") =>
          /\ stage = "failed" /\ Registered(conf, env)
          /\ found = DetermineProvider(args, env, conf)

\* AdviceInv holds in every state.
LEMMA AdviceInvariant == Spec => []AdviceInv
<1>0. Error("none") # Error("unset the list")
    BY DEF Error
<1>1. Init => AdviceInv
    BY <1>0, ShapeAssumption DEF Init, AdviceInv
<1>2. TypeInv /\ TokenInv /\ AdviceInv /\ [Next]_vars => AdviceInv'
  <2> SUFFICES ASSUME TypeInv, TokenInv, AdviceInv, [Next]_vars PROVE AdviceInv'
      OBVIOUS
  <2>1. CASE UNCHANGED <<conf, found>> /\ stage # "failed" /\ stage' # "registered"
      BY <2>1 DEF AdviceInv
  <2>2. CASE Exit
      BY <1>0, <2>2, ShapeAssumption DEF Exit, AdviceInv
  <2>3. CASE ReadConfig
    <3>1. conf' = conf \/ conf' \in Configs \cup {Default} \/ conf' \in WrittenInPart \ {Broken}
        BY <2>3 DEF ReadConfig, TypeInv, TypeOK
    <3>2. IsAlias(conf'.default)
        BY <3>1, PartShape, ShapeAssumption DEF AdviceInv
    <3> QED
        BY <2>3, <3>2 DEF ReadConfig, Ends, AdviceInv
  <2>4. CASE RegisterCI
    <3>1. CASE stage' # "registered"
        BY <2>1, <2>4, <3>1 DEF RegisterCI
    <3>2. CASE stage' = "registered"
      <4> DEFINE actions == IF ActionsKind(env) = "forgejo" THEN <<ForgejoProviderConfig>>
                            ELSE IF ActionsKind(env) = "github"
                            THEN <<GitHubProviderConfig>> ELSE <<>>
                 gitlab == IF env.pipeline = "" THEN <<>>
                           ELSE <<GitlabCiProviderConfig(env.pipeline)>>
                 list == conf.providers
      <4>1. conf' = [conf EXCEPT !.providers = list \o actions \o gitlab]
          BY <2>4, <3>2 DEF RegisterCI, Ends
      <4>2. list \in Seq(KnownEntries) /\ DOMAIN conf = {"kind", "default", "providers"}
          BY DEF TokenInv, ConfigShape
      <4>3. conf'.default = conf.default /\ conf'.providers = list \o actions \o gitlab
          BY <4>1, <4>2
      <4>4. Registered(conf', env)
        <5> SUFFICES ASSUME NEW word \in {"github", "forgejo", "codeberg", "gitlab-ci"},
                            Here(word, env)
                     PROVE  \E i \in DOMAIN conf'.providers :
                               conf'.providers[i] = EntryOf(word, env)
            BY DEF Registered
        <5> DEFINE S == KnownEntries \cup {ForgejoProviderConfig, GitHubProviderConfig,
                                           GitlabCiProviderConfig(env.pipeline)}
        <5>1. \/ actions = <<EntryOf(word, env)>>
              \/ gitlab = <<EntryOf(word, env)>>
            BY DEF Here, EntryOf
        <5>2. list \in Seq(S) /\ actions \in Seq(S) /\ gitlab \in Seq(S)
          <6>1. KnownEntries \subseteq S
              OBVIOUS
          <6>2. {ForgejoProviderConfig, GitHubProviderConfig,
                 GitlabCiProviderConfig(env.pipeline)} \subseteq S
              OBVIOUS
          <6>3. \A T : \A x \in T : <<x>> \in Seq(T)
              OBVIOUS
          <6>4. \A T : <<>> \in Seq(T)
              OBVIOUS
          <6> HIDE DEF S
          <6>5. list \in Seq(S)
              BY <4>2, <6>1
          <6> QED
              BY <6>2, <6>3, <6>4, <6>5, Zenon
        <5> HIDE DEF S, actions, gitlab, list
        <5>3. CASE actions = <<EntryOf(word, env)>>
          <6>1. Len(list) + 1 \in DOMAIN (list \o actions \o gitlab)
              BY <5>2, <5>3
          <6>2. (list \o actions \o gitlab)[Len(list) + 1] = EntryOf(word, env)
              BY <5>2, <5>3
          <6> QED
              BY <4>3, <6>1, <6>2
        <5>4. CASE gitlab = <<EntryOf(word, env)>>
          <6>1. Len(list) + Len(actions) + 1 \in DOMAIN (list \o actions \o gitlab)
              BY <5>2, <5>4
          <6>2. (list \o actions \o gitlab)[Len(list) + Len(actions) + 1] = EntryOf(word, env)
              BY <5>2, <5>4
          <6> QED
              BY <4>3, <6>1, <6>2
        <5> QED
            BY <5>1, <5>3, <5>4
      <4>5. env' = env /\ found' = found /\ stage = "loaded"
          BY <2>4 DEF RegisterCI, command
      <4> QED
          BY <3>2, <4>3, <4>4, <4>5 DEF AdviceInv
    <3> QED
        BY <3>1, <3>2
  <2>5. CASE Determine
    <3>1. /\ stage = "registered" /\ UNCHANGED <<conf, args, env>>
          /\ found' = DetermineProvider(args, env, conf)
          /\ found'.kind = "error" => stage' = "failed"
          /\ stage' # "registered"
        BY <2>5 DEF Determine, Ends, command
    <3>2. Error("unset the list").kind = "error"
        BY DEF Error
    <3> QED
        BY <3>1, <3>2 DEF AdviceInv
  <2>6. CASE UNCHANGED vars
      BY <2>6 DEF vars, command, AdviceInv
  <2>7. ASSUME NEW f \in Configs \cup {NoFile, Broken}, EditConfig(f)
        PROVE  UNCHANGED <<conf, found>> /\ stage # "failed" /\ stage' # "registered"
      BY <2>7 DEF EditConfig
  <2>8. ASSUME StatConfig \/ CreateConfig \/ ChooseOp \/ StartLogin
        PROVE  UNCHANGED <<conf, found>> /\ stage # "failed" /\ stage' # "registered"
      BY <2>8 DEF StatConfig, CreateConfig, ChooseOp, StartLogin, Ends
  <2>9. ASSUME NEW a \in Args, NEW e \in Envs, Begin(a, e)
        PROVE  UNCHANGED <<conf, found>> /\ stage # "failed" /\ stage' # "registered"
      BY <2>9 DEF Begin
  <2> QED
      BY <2>1, <2>2, <2>3, <2>4, <2>5, <2>6, <2>7, <2>8, <2>9 DEF Next
<1> QED
    BY <1>1, <1>2, TypeInvariant, TokenInvariant, PTL DEF Spec

\* The advice to unset OPKSSH_PROVIDERS is good: the same command without it
\* finds the provider of the CI/CD environment, but for the exceptions named.
THEOREM AdviceAlwaysHelps == Spec => []AdviceHelps
<1>1. TypeInv /\ AdviceInv => AdviceHelps
    BY AdviceIsGood DEF TypeInv, TypeOK, AdviceInv, AdviceHelps, Unset
<1> QED
    BY <1>1, TypeInvariant, AdviceInvariant, PTL
=============================================================================

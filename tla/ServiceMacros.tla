----------------------------- MODULE ServiceMacros -----------------------------
(***************************************************************************)
(* stano-di-macros: what #[component] and #[service] generate.  A service is  *)
(* registered under one id, declares the ids of its fields for the cycle     *)
(* check and asks for them in its factory.  The two are generated from the   *)
(* same fields but by different code, and the id of a trait object           *)
(* (TraitObject<dyn T>) is not the id of a type.                             *)
(***************************************************************************)
EXTENDS RustSyntax

TypeIdOf(n) == [type |-> n]
TraitObjectId(t) == [object |-> t]

(* the attribute's own errors, and syn's *)
ServiceError(why) == [error |-> why]

-----------------------------------------------------------------------------
(* stano_di_path *)
StanoDiPath(deps) ==
    IF "stano-di" \in deps THEN <<"stano-di">>
    ELSE IF "stano-starter" \in deps THEN <<"stano-starter", "stano_di">>
    ELSE IF "stano-starter-domain" \in deps
    THEN <<"stano-starter-domain", "stano_starter", "stano_di">>
    ELSE IF "stano-starter-rest" \in deps THEN <<"stano-starter-rest", "stano_di">>
    ELSE IF "stano-starter-service" \in deps
    THEN <<"stano-starter-service", "stano_starter", "stano_di">>
    ELSE <<>>

(* component_impl, component_trait: a trait becomes injectable *)
ComponentImpl(item, deps) ==
    IF item.kind # "trait" THEN ServiceError("not a trait")
    ELSE IF ~({"Send", "Sync"} \subseteq item.supertraits) THEN ServiceError("not Send + Sync")
    ELSE IF StanoDiPath(deps) = <<>> THEN ServiceError("no dependency")
    ELSE [injectable |-> item.name, through |-> StanoDiPath(deps)]

(* extract_arc_inner: the first argument of a path that ends in Arc *)
ExtractArcInner(ty) ==
    IF IsPath(ty) /\ Last(ty.segments) = "Arc" /\ ty.args # <<>> /\ IsType(ty.args[1])
    THEN <<ty.args[1]>> ELSE <<>>

IsTraitObject(ty) == "dyn" \in DOMAIN ty

(* TypeId::of::<T>() of the type with these tokens *)
IdOfType(ty) == TypeIdOf(TypeTokens(ty))

(* mutant of DependencyId: TypeId::of for a trait object, too *)
DependencyId_Concrete(inner) == IdOfType(inner)

(* the id that dependency_ids() declares for a field *)
DependencyId(inner) == IF IsTraitObject(inner) THEN TraitObjectId(inner.dyn) ELSE IdOfType(inner)

(* the id that container.get_trait::<dyn T>() or container.get::<T>() looks up *)
GetCall(inner) == IF IsTraitObject(inner) THEN TraitObjectId(inner.dyn) ELSE IdOfType(inner)

(* register_trait_with_deps::<dyn T> or register_with_deps::<Struct> *)
RegisteredId(attr, name) ==
    IF attr = <<>> THEN TypeIdOf(<<Ident(name)>>) ELSE TraitObjectId(attr[1].dyn)

(* service_impl, service_struct.  `attr` is the parsed argument: none, or one   *)
(* type; a field is its type.                                               *)
ServiceImpl(attr, item, deps) ==
    LET inners == [k \in DOMAIN item.fields |-> ExtractArcInner(item.fields[k])]
        parts == FlattenSeq(inners)
    IN  IF item.kind # "struct" THEN ServiceError("not a struct")
        ELSE IF attr # <<>> /\ "unparsable" \in DOMAIN attr[1] THEN ServiceError("no type")
        ELSE IF StanoDiPath(deps) = <<>> THEN ServiceError("no dependency")
        ELSE IF item.shape = "tuple" THEN ServiceError("tuple struct")
        ELSE IF <<>> \in ToSet(inners) THEN ServiceError("not an Arc")
        ELSE [component |-> item.name,
              id |-> RegisteredId(attr, item.name),
              declared |-> [k \in DOMAIN parts |-> DependencyId(parts[k])],
              gets |-> [k \in DOMAIN parts |-> GetCall(parts[k])],
              through |-> StanoDiPath(deps)]
=============================================================================

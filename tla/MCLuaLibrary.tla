---------------------------- MODULE MCLuaLibrary ----------------------------
(***************************************************************************)
(* A run asks one question, about a topic, and ends.                       *)
(***************************************************************************)
EXTENDS AskStringLib, AskTables, AskNumbers, AskChunks, AskLex

Topics == {"patterns", "substitution", "lists", "sort", "numbers", "math", "loops", "operations", "chunks", "pack", "text", "references", "modules", "lexer", "utf8"}
Topic(t) == question = <<"topic", t>>
Init == question \in {<<"topic", t>> : t \in Topics}
Next == \/ Topic("patterns") /\ (AskFind \/ AskPlain \/ AskAny)
        \/ Topic("substitution") /\ (AskGmatch \/ AskGsub)
        \/ Topic("lists") /\ (AskInsert \/ AskMove \/ AskUnpack)
        \/ Topic("sort") /\ AskSort
        \/ Topic("numbers") /\ (AskCompare \/ AskStrings \/ AskNumeral \/ AskArith \/ AskSize)
        \/ Topic("math") /\ (AskBits \/ AskMath \/ AskBase)
        \/ Topic("loops") /\ AskLoop
        \/ Topic("operations") /\ (AskConcat \/ AskSteps \/ AskAccess)
        \/ Topic("chunks") /\ (AskLoad \/ AskTruncated \/ AskAltered \/ AskDump)
        \/ Topic("pack") /\ (AskPacked \/ AskCut \/ AskInt \/ AskLength)
        \/ Topic("text") /\ (AskBuffer \/ AskText)
        \/ Topic("references") /\ AskRefs
        \/ Topic("modules") /\ (AskRequire \/ AskSearch \/ AskFile)
        \/ Topic("lexer") /\ (AskTokens \/ AskAhead \/ AskQuoted)
        \/ Topic("utf8") /\ (AskUtf \/ AskOffset \/ AskCode)
Spec == Init /\ [][Next]_question
=============================================================================

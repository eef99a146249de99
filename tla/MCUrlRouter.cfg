SPECIFICATION Spec
CONSTANTS
  Texts <- MCTexts
  Urls <- MCUrls
  MaxAdds = 4
INVARIANTS FoundIsAdded PlainIsKept
\* The bound on calls of add_route ends every behaviour.
CHECK_DEADLOCK FALSE

SPECIFICATION Spec
CONSTANTS
  Texts <- MCPlain
  Urls <- MCUrls
  MaxAdds = 4
INVARIANT AddedIsFound
\* The bound on calls of add_route ends every behaviour.
CHECK_DEADLOCK FALSE
